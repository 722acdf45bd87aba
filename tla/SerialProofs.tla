---------------------------- MODULE SerialProofs ----------------------------
(***************************************************************************)
(* What holds when a request arrives only while no other is open, as when  *)
(* one person uses the application.  The runs that let requests overlap    *)
(* refute the same statements.                                             *)
(***************************************************************************)
EXTENDS PositionSystemProofs

OneAtATime ==
    \A s, t \in Sessions : IsOpen(s) /\ IsOpen(t) => s = t

\* What a session knows of the database is what is there: the columns it has
\* not written are those of the committed row.
LoadedIsCommitted ==
    \A s \in Sessions :
       /\ ~IsOpen(s) => loaded[s] = NoHolding
       /\ loaded[s] # NoHolding =>
             \A c \in Columns \ pending[s].columns : loaded[s][c] = holding[c]

\* calculate_holding_pl has valued the row before it is flushed last.
ValuedBeforeCommit ==
    \A s \in Sessions :
       /\ pc[s] = "plFlush" => object[s] = Valued(object[s])
       /\ pc[s] = "commit" /\ pending[s].columns # {} =>
             loaded[s] = Valued(loaded[s])

SerialInv ==
    /\ OneAtATime
    /\ LoadedIsCommitted
    /\ ValuedBeforeCommit
    /\ RowAddsUp

-----------------------------------------------------------------------------

\* Valuing a row twice is valuing it once.
LEMMA ValuedTwice ==
    ASSUME NEW row \in [Columns -> Int]
    PROVE  Valued(Valued(row)) = Valued(row)
<1> DEFINE v(r) == r.price * r.quantity
           w(r) == v(r) - r.cost + r.realized + r.dividend
           once == [row EXCEPT !.value = v(row), !.pl = w(row)]
<1>1. /\ once.price = row.price /\ once.quantity = row.quantity
      /\ once.cost = row.cost /\ once.realized = row.realized
      /\ once.dividend = row.dividend
  BY DEF Columns
<1>2. v(once) = v(row) /\ w(once) = w(row)
  BY <1>1
<1>3. Valued(row) = once
  BY DEF Valued
<1>4. Valued(once) = [once EXCEPT !.value = v(once), !.pl = w(once)]
  BY DEF Valued
<1> HIDE DEF v, w
<1>5. [once EXCEPT !.value = v(row), !.pl = w(row)] = once
  BY DEF Columns
<1> QED
  BY <1>2, <1>3, <1>4, <1>5

LEMMA SerialInit == Init => SerialInv
<1> SUFFICES ASSUME Init PROVE SerialInv
  OBVIOUS
<1>1. holding # NoHolding => holding = OpeningRow(transactions)
  BY DEF Init, DatabaseInit
<1>2. \E row \in [Columns -> Int] : OpeningRow(transactions) = Valued(row)
  BY OpeningIsValued
<1>3. RowAddsUp
  BY <1>1, <1>2, ValuedTwice DEF RowAddsUp
<1> QED
  BY <1>3 DEF Init, DatabaseInit, HoldingInit, SerialInv, OneAtATime,
              LoadedIsCommitted, ValuedBeforeCommit, IsOpen

\* The sessions beside an open one.
LEMMA OthersIdle ==
    ASSUME SerialInv, NEW s \in Sessions, IsOpen(s)
    PROVE  \A t \in Sessions \ {s} : ~IsOpen(t) /\ loaded[t] = NoHolding
  BY DEF SerialInv, OneAtATime, LoadedIsCommitted

\* A statement after which the session has the same loaded values, and is
\* neither about to flush its object nor about to commit.
LEMMA StatementKeepsSerial ==
    ASSUME TypeInv, SerialInv, NEW s \in Sessions, NEW at, NEW next \in Places,
           Step(s, at, next), at \notin {"idle", "done"},
           next \notin {"idle", "done", "plFlush", "commit"},
           UNCHANGED loaded,
           \A t \in Sessions : pending'[t].columns = pending[t].columns
    PROVE  SerialInv'
<1>1. IsOpen(s) /\ \A t \in Sessions \ {s} : ~IsOpen(t)
  BY OthersIdle DEF IsOpen, Step
<1>2. /\ pc'[s] = next /\ \A t \in Sessions \ {s} : pc'[t] = pc[t]
      /\ UNCHANGED holding
  BY DEF Step, tables, TypeInv, TypeOK
<1>3. OneAtATime'
  BY <1>1, <1>2 DEF OneAtATime, IsOpen
<1>4. LoadedIsCommitted'
  BY <1>1, <1>2 DEF SerialInv, LoadedIsCommitted, IsOpen
<1>5. ValuedBeforeCommit'
  BY <1>1, <1>2 DEF ValuedBeforeCommit, IsOpen
<1>6. RowAddsUp'
  BY <1>2 DEF SerialInv, RowAddsUp, Valued
<1> QED
  BY <1>3, <1>4, <1>5, <1>6 DEF SerialInv

\* A statement that reads the committed row.
LEMMA LoadKeepsSerial ==
    ASSUME TypeInv, SerialInv, NEW s \in Sessions, NEW at, NEW next \in Places,
           Step(s, at, next), at \notin {"idle", "done"},
           next \notin {"idle", "done", "plFlush"}, pending[s].columns = {},
           NEW row, Load(s, row)
    PROVE  SerialInv'
<1>1. IsOpen(s) /\ \A t \in Sessions \ {s} : ~IsOpen(t) /\ loaded[t] = NoHolding
  BY OthersIdle DEF IsOpen, Step
<1>2. /\ pc'[s] = next /\ \A t \in Sessions \ {s} : pc'[t] = pc[t]
      /\ loaded'[s] = holding
      /\ \A t \in Sessions \ {s} : loaded'[t] = loaded[t]
      /\ UNCHANGED <<holding, pending>>
  BY DEF Step, Load, tables, TypeInv, TypeOK
<1>3. OneAtATime'
  BY <1>1, <1>2 DEF OneAtATime, IsOpen
<1>4. LoadedIsCommitted'
  BY <1>1, <1>2 DEF LoadedIsCommitted, IsOpen
<1>5. ValuedBeforeCommit'
  BY <1>1, <1>2 DEF ValuedBeforeCommit, IsOpen
<1>6. RowAddsUp'
  BY <1>2 DEF SerialInv, RowAddsUp, Valued
<1> QED
  BY <1>3, <1>4, <1>5, <1>6 DEF SerialInv

LEMMA FlushKeepsSerial ==
    ASSUME TypeInv, SerialInv, NEW s \in Sessions, NEW at \in Handling,
           NEW next \in Places, next # "plFlush",
           next = "commit" => at = "plFlush",
           next \notin {"idle", "done"},
           Flush(s, at, next)
    PROVE  SerialInv'
<1>1. IsOpen(s) /\ \A t \in Sessions \ {s} : ~IsOpen(t) /\ loaded[t] = NoHolding
  BY OthersIdle DEF IsOpen, Flush, Step, Handling
<1>2. /\ pc[s] = at /\ pc'[s] = next
      /\ \A t \in Sessions \ {s} : pc'[t] = pc[t]
      /\ loaded'[s] = object[s]
      /\ \A t \in Sessions \ {s} : loaded'[t] = loaded[t]
      /\ UNCHANGED <<holding, object>>
      /\ pending'[s].columns = pending[s].columns \cup DirtyColumns(s)
      /\ \A t \in Sessions \ {s} : pending'[t] = pending[t]
  BY DEF Flush, Step, tables, TypeInv, TypeOK, NothingPending
<1>3. OneAtATime'
  BY <1>1, <1>2 DEF OneAtATime, IsOpen
<1>4. LoadedIsCommitted'
  <2>1. ASSUME NEW c \in Columns \ (pending[s].columns \cup DirtyColumns(s))
        PROVE  object[s][c] = holding[c]
    BY <2>1 DEF DirtyColumns, SerialInv, LoadedIsCommitted
  <2> QED
    BY <1>1, <1>2, <2>1 DEF LoadedIsCommitted, IsOpen
<1>5. ValuedBeforeCommit'
  BY <1>1, <1>2 DEF SerialInv, ValuedBeforeCommit, IsOpen
<1>6. RowAddsUp'
  BY <1>2 DEF SerialInv, RowAddsUp, Valued
<1> QED
  BY <1>3, <1>4, <1>5, <1>6 DEF SerialInv

\* The end of a session.
LEMMA CloseKeepsSerial ==
    ASSUME TypeInv, SerialInv, NEW s \in Sessions, IsOpen(s), Close(s),
           ForgetHolding(s) \/ (loaded[s] = NoHolding /\ UNCHANGED holdingVars),
           RowAddsUp'
    PROVE  SerialInv'
<1>1. \A t \in Sessions \ {s} : ~IsOpen(t) /\ loaded[t] = NoHolding
  BY OthersIdle
<1>2. /\ pc'[s] \in {"idle", "done"}
      /\ \A t \in Sessions \ {s} : pc'[t] = pc[t]
      /\ \A t \in Sessions : loaded'[t] = NoHolding
  BY <1>1 DEF Close, ForgetHolding, holdingVars, TypeInv, TypeOK
<1>3. \A t \in Sessions : pc'[t] \in {"idle", "done"}
  BY <1>1, <1>2 DEF IsOpen
<1> QED
  BY <1>2, <1>3
     DEF SerialInv, OneAtATime, LoadedIsCommitted, ValuedBeforeCommit, IsOpen

LEMMA RollbackKeepsSerial ==
    ASSUME TypeInv, SerialInv, NEW s \in Sessions, IsOpen(s),
           RollbackWrites(s),
           ForgetHolding(s) \/ (loaded[s] = NoHolding /\ UNCHANGED holdingVars)
    PROVE  SerialInv'
<1>1. RowAddsUp'
  BY DEF RollbackWrites, tables, SerialInv, RowAddsUp, Valued
<1> QED
  BY <1>1, CloseKeepsSerial DEF RollbackWrites

\* The price and the values computed from it.
LEMMA PlPriceKeepsSerial ==
    ASSUME TypeInv, SerialInv, NEW s \in Sessions, PlPrice(s)
    PROVE  SerialInv'
<1>1. pc[s] = "plPrice" /\ object[s] \in [Columns -> Int]
  BY DEF TypeInv, TypeOK, HandlerRows, PlPrice, Step, Handling, Rows
<1>2. PICK p \in Prices \cup {0} :
         object' = [object EXCEPT ![s] = Valued(Priced(object[s], p))]
  BY DEF PlPrice
<1>3. Priced(object[s], p) \in [Columns -> Int]
  BY <1>1, PricesAssumption DEF Priced, Columns
<1>4. object'[s] = Valued(Priced(object[s], p))
  BY <1>2 DEF TypeInv, TypeOK
<1>5. Valued(object'[s]) = object'[s]
  BY <1>3, <1>4, ValuedTwice
<1>6. \A t \in Sessions \ {s} : ~IsOpen(t)
  BY <1>1, OthersIdle DEF IsOpen
<1>7. /\ pc'[s] = "plFlush" /\ \A t \in Sessions \ {s} : pc'[t] = pc[t]
      /\ UNCHANGED <<holding, loaded, pending>>
  BY DEF PlPrice, Step, tables, TypeInv, TypeOK
<1>8. OneAtATime' /\ LoadedIsCommitted'
  BY <1>1, <1>6, <1>7 DEF SerialInv, OneAtATime, LoadedIsCommitted, IsOpen
<1>9. ValuedBeforeCommit'
  BY <1>5, <1>6, <1>7 DEF ValuedBeforeCommit, IsOpen, Valued
<1>10. RowAddsUp'
  BY <1>7 DEF SerialInv, RowAddsUp, Valued
<1> QED
  BY <1>8, <1>9, <1>10 DEF SerialInv

LEMMA HoldingStatementKeepsSerial ==
    ASSUME TypeInv, SerialInv, NEW s \in Sessions, HoldingStatement(s)
    PROVE  SerialInv'
<1> USE DEF Places, Handling
<1>1. CASE RefuseNoHolding(s) \/ RefuseShort(s) \/ FlushKeyTaken(s)
  BY <1>1, RollbackKeepsSerial
     DEF RefuseNoHolding, RefuseShort, FlushKeyTaken, Refuse, IsOpen
<1>2. CASE SelectHolding(s)
  <2> DEFINE next == IF Asked(s) = "sell" THEN "checkBuys" ELSE "register"
  <2>1. Step(s, "select", next) /\ Load(s, holding)
    BY <1>2 DEF SelectHolding
  <2>2. pending[s].columns = {}
    BY <2>1 DEF Step, TypeInv, HandlerRows, Unloaded
  <2>3. next \in Places /\ next \notin {"idle", "done", "plFlush"}
    OBVIOUS
  <2> HIDE DEF next
  <2> QED
    BY <2>1, <2>2, <2>3, LoadKeepsSerial
<1>3. CASE SelectForDividend(s)
  <2>1. pending[s].columns = {}
    BY <1>3 DEF SelectForDividend, Step, TypeInv, HandlerRows, Unloaded
  <2>2. \/ Step(s, "selectForDividend", "plSelect")
        \/ Step(s, "selectForDividend", "flush")
    BY <1>3 DEF SelectForDividend
  <2>3. PICK row : Load(s, row)
    BY <1>3 DEF SelectForDividend
  <2> QED
    BY <2>1, <2>2, <2>3, LoadKeepsSerial
<1>4. CASE PlSelect(s) /\ object[s] = NoHolding
  <2>1. pending[s].columns = {}
    BY <1>4 DEF TypeInv, HandlerRows
  <2>2. Step(s, "plSelect", "plBuys") \/ Step(s, "plSelect", "commit")
    BY <1>4 DEF PlSelect
  <2>3. Load(s, holding)
    BY <1>4 DEF PlSelect
  <2> QED
    BY <2>1, <2>2, <2>3, LoadKeepsSerial
<1>5. CASE PlSelect(s) /\ object[s] # NoHolding
  BY <1>5, StatementKeepsSerial DEF PlSelect, holdingVars
<1>6. CASE CheckBuys(s) \/ CheckSells(s) \/ SumBuys(s) \/ PlBuys(s)
  BY <1>6, StatementKeepsSerial
     DEF CheckBuys, CheckSells, SumBuys, PlBuys, ReadBuys
<1>7. CASE RegisterTrade(s) \/ RegisterDividend(s)
  <2>1. \A t \in Sessions : pending'[t].columns = pending[t].columns
    BY <1>7 DEF RegisterTrade, RegisterDividend, TypeInv, TypeOK,
                NothingPending
  <2> QED
    BY <1>7, <2>1, StatementKeepsSerial
       DEF RegisterTrade, RegisterDividend, holdingVars
<1>8. CASE SumSells(s)
  <2> DEFINE next == IF Asked(s) = "sell" THEN "sumRealized" ELSE "flush"
  <2>1. Step(s, "sumSells", next) /\ UNCHANGED <<pending, loaded>>
    BY <1>8 DEF SumSells
  <2>2. /\ next \in Places
        /\ next \notin {"idle", "done", "plFlush", "commit"}
    OBVIOUS
  <2> HIDE DEF next
  <2> QED
    BY <2>1, <2>2, StatementKeepsSerial
<1>9. CASE SumRealized(s) \/ PlSells(s) \/ PlRealized(s) \/ PlDividend(s)
  BY <1>9, StatementKeepsSerial
     DEF SumRealized, PlSells, PlRealized, PlDividend, AssignRealized
<1>10. CASE FlushHandler(s) \/ PlFlush(s)
  BY <1>10, FlushKeepsSerial DEF FlushHandler, PlFlush
<1>11. CASE PlPrice(s)
  BY <1>11, PlPriceKeepsSerial
<1> QED
  BY <1>1, <1>2, <1>3, <1>4, <1>5, <1>6, <1>7, <1>8, <1>9, <1>10, <1>11
     DEF HoldingStatement

\* A session that has loaded no holding row changes none.
LEMMA SplitStatementKeepsSerial ==
    ASSUME TypeInv, SerialInv, NEW s \in Sessions, SplitStatement(s),
           UNCHANGED holdingVars
    PROVE  SerialInv'
<1>1. loaded[s] = NoHolding /\ pending[s].columns = {}
  BY DEF TypeInv, HandlerRows, Unloaded, SplitStatement, EnsureNotDuplicated,
         RefuseDuplicate, InsertSplit, InsertRefused, FindSplit,
         RefuseUnknown, DeleteSplit, ReadSplits, ReadTrades, FlushRatios, Step
<1>2. CASE RefuseDuplicate(s) \/ InsertRefused(s) \/ RefuseUnknown(s)
  BY <1>1, <1>2, RollbackKeepsSerial
     DEF RefuseDuplicate, InsertRefused, RefuseUnknown, RefuseSplit, IsOpen
<1>3. CASE EnsureNotDuplicated(s) \/ FindSplit(s) \/ ReadSplits(s)
              \/ ReadTrades(s)
  BY <1>3, StatementKeepsSerial
     DEF EnsureNotDuplicated, FindSplit, ReadSplits, ReadTrades, holdingVars,
         Places
<1>4. CASE InsertSplit(s) \/ DeleteSplit(s)
  <2>1. PICK rows : \/ pending' = [pending EXCEPT ![s].splits = rows]
                    \/ pending' = [pending EXCEPT ![s].deleted = rows]
    BY <1>4 DEF InsertSplit, DeleteSplit
  <2>2. \A t \in Sessions : pending'[t].columns = pending[t].columns
    BY <2>1 DEF TypeInv, TypeOK, NothingPending
  <2> QED
    BY <1>4, <2>2, StatementKeepsSerial
       DEF InsertSplit, DeleteSplit, holdingVars, Places
<1>5. CASE FlushRatios(s)
  <2>1. PICK ratios : pending' = [pending EXCEPT ![s].ratios = ratios]
    BY <1>5 DEF FlushRatios
  <2>2. Step(s, "flushRatios", "commit")
    BY <1>5 DEF FlushRatios
  <2>3. \A t \in Sessions : pending'[t].columns = pending[t].columns
    BY <2>1 DEF TypeInv, TypeOK, NothingPending
  <2>4. \A t \in Sessions \ {s} : ~IsOpen(t) /\ loaded[t] = NoHolding
    BY <2>2, OthersIdle DEF IsOpen, Step
  <2>5. /\ pc'[s] = "commit" /\ pc[s] = "flushRatios"
        /\ \A t \in Sessions \ {s} : pc'[t] = pc[t]
        /\ UNCHANGED <<holding, loaded, object>>
    BY <2>2 DEF Step, tables, holdingVars, TypeInv, TypeOK
  <2>6. OneAtATime' /\ LoadedIsCommitted'
    BY <1>1, <2>3, <2>4, <2>5
       DEF SerialInv, OneAtATime, LoadedIsCommitted, IsOpen
  <2>7. ValuedBeforeCommit'
    BY <1>1, <2>3, <2>4, <2>5 DEF ValuedBeforeCommit, IsOpen
  <2>8. RowAddsUp'
    BY <2>5 DEF SerialInv, RowAddsUp, Valued
  <2> QED
    BY <2>6, <2>7, <2>8 DEF SerialInv
<1> QED
  BY <1>2, <1>3, <1>4, <1>5 DEF SplitStatement

\* A commit writes the whole of a valued row or nothing of it.
LEMMA CommitKeepsSerial ==
    ASSUME TypeInv, SerialInv, NEW s \in Sessions, Commit(s)
    PROVE  SerialInv'
<1> DEFINE written == pending[s].columns
           row == [c \in Columns |-> IF c \in written THEN loaded[s][c]
                                                      ELSE holding[c]]
<1>1. /\ Close(s) /\ ForgetHolding(s) /\ IsOpen(s) /\ pc[s] = "commit"
      /\ holding' = IF written = {} THEN holding ELSE row
  BY DEF Commit, CommitWrites, IsOpen
<1>2. CASE written = {}
  <2>1. RowAddsUp'
    BY <1>1, <1>2 DEF SerialInv, RowAddsUp, Valued
  <2> QED
    BY <1>1, <2>1, CloseKeepsSerial
<1>3. CASE written # {}
  <2>1. loaded[s] \in [Columns -> Int] /\ loaded[s] # NoHolding
    BY <1>3 DEF TypeInv, TypeOK, HandlerRows, Rows
  <2>2. \A c \in Columns \ written : loaded[s][c] = holding[c]
    BY <2>1 DEF SerialInv, LoadedIsCommitted
  <2>3. row = loaded[s]
    BY <2>1, <2>2
  <2>4. loaded[s] = Valued(loaded[s])
    BY <1>1, <1>3 DEF SerialInv, ValuedBeforeCommit
  <2> HIDE DEF written, row
  <2>5. RowAddsUp'
    BY <1>1, <1>3, <2>3, <2>4 DEF RowAddsUp, Valued
  <2> QED
    BY <1>1, <2>5, CloseKeepsSerial
<1> QED
  BY <1>2, <1>3

\* A request arrives when no other is open.
LEMMA BeginKeepsSerial ==
    ASSUME ~Overlap, TypeInv, SerialInv, NEW s \in Sessions,
           NEW o \in Orders \cup {RefreshOrder}, Begin(s, o)
    PROVE  SerialInv'
<1>1. Entry(o.kind) \notin {"plFlush", "commit"}
  BY OrdersAssumption DEF Entry, OrderRecords, RefreshOrder, Kinds
<1>2. \A t \in Sessions : ~IsOpen(t)
  BY DEF Begin, MayBegin
<1>3. /\ pc'[s] = Entry(o.kind) /\ \A t \in Sessions \ {s} : pc'[t] = pc[t]
      /\ UNCHANGED <<holding, loaded, object, pending>>
  BY DEF Begin, tables, holdingVars, TypeInv, TypeOK
<1>4. OneAtATime' /\ LoadedIsCommitted'
  BY <1>2, <1>3 DEF SerialInv, OneAtATime, LoadedIsCommitted, IsOpen
<1>5. ValuedBeforeCommit'
  BY <1>1, <1>2, <1>3 DEF ValuedBeforeCommit, IsOpen
<1>6. RowAddsUp'
  BY <1>3 DEF SerialInv, RowAddsUp, Valued
<1> QED
  BY <1>4, <1>5, <1>6 DEF SerialInv

LEMMA SerialNext ==
    ASSUME ~Overlap, TypeInv, SerialInv, [Next]_vars
    PROVE  SerialInv'
<1>1. ASSUME NEW r \in Requests, BeginRequest(r) PROVE SerialInv'
  BY <1>1, BeginKeepsSerial DEF BeginRequest, Sessions
<1>2. ASSUME NEW j \in Jobs, BeginJob(j) PROVE SerialInv'
  BY <1>2, BeginKeepsSerial DEF BeginJob, Sessions
<1>3. ASSUME NEW s \in Sessions, Statement(s) PROVE SerialInv'
  BY <1>3, HoldingStatementKeepsSerial, SplitStatementKeepsSerial,
     CommitKeepsSerial DEF Statement
<1>4. ASSUME NEW s \in Sessions, Fail(s) PROVE SerialInv'
  BY <1>4, RollbackKeepsSerial DEF Fail
<1>5. CASE UNCHANGED vars
  BY <1>5 DEF SerialInv, OneAtATime, LoadedIsCommitted, ValuedBeforeCommit,
              RowAddsUp, Valued, IsOpen, vars, tables, session, holdingVars
<1> QED
  BY <1>1, <1>2, <1>3, <1>4, <1>5 DEF Next

\* If requests do not overlap, the holding row anybody can read always adds
\* up: its market value and total P/L are those of its own quantity, price,
\* cost, realized P/L and dividends (calculate_holding_pl values the row after
\* its last aggregate, and a flush of changed columns leaves no old ones).
THEOREM SerialRowAddsUp == ~Overlap => (Spec => []RowAddsUp)
<1> SUFFICES ASSUME ~Overlap PROVE Spec => []RowAddsUp
  OBVIOUS
<1>1. Init => TypeInv /\ SerialInv
  BY TypeInvInit, SerialInit
<1>2. TypeInv /\ SerialInv /\ [Next]_vars => TypeInv' /\ SerialInv'
  BY TypeInvNext, SerialNext
<1>3. SerialInv => RowAddsUp
  BY DEF SerialInv
<1> QED
  BY <1>1, <1>2, <1>3, PTL DEF Spec

=============================================================================
