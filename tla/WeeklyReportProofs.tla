------------------------- MODULE WeeklyReportProofs -------------------------
(***************************************************************************)
(* What WeeklyReport promises for every set of users, every number of      *)
(* retries and of weeks, all lists of holdings and all answers of the      *)
(* language model.                                                         *)
(***************************************************************************)
EXTENDS WeeklyReport, FiniteSetTheorems, SequenceTheorems, WellFoundedInduction,
        TLAPS

-----------------------------------------------------------------------------
(* Greatest elements *)

\* A finite set of numbers that is not empty has a greatest and a least element.
LEMMA FiniteBounds ==
    ASSUME NEW S, S \subseteq Int, IsFiniteSet(S), S # {}
    PROVE  /\ \E m \in S : \A x \in S : x <= m
           /\ \E m \in S : \A x \in S : m <= x
<1> DEFINE R   == StrictSubsetOrdering(S)
           Bounded(T) == /\ \E m \in T : \A x \in T : x <= m
                         /\ \E m \in T : \A x \in T : m <= x
           Bad == {T \in FiniteSubsetsOf(S) : T # {} /\ ~Bounded(T)}
<1>1. Bad = {}
  <2> SUFFICES ASSUME Bad # {} PROVE FALSE OBVIOUS
  <2>1. IsWellFoundedOn(R, FiniteSubsetsOf(S))
    BY FS_StrictSubsetOrderingWellFounded
  <2>2. Bad \subseteq FiniteSubsetsOf(S) OBVIOUS
  <2> HIDE DEF Bad, R
  <2>3. PICK T \in Bad : \A U \in Bad : <<U, T>> \notin R
    BY <2>1, <2>2, WFMin
  <2>4. T \in FiniteSubsetsOf(S) /\ T # {} /\ ~Bounded(T) BY DEF Bad
  <2>5. PICK x \in T : TRUE BY <2>4
  <2> DEFINE U == T \ {x}
  <2>6. T \subseteq S /\ IsFiniteSet(T) BY <2>4 DEF FiniteSubsetsOf
  <2>7. U \in FiniteSubsetsOf(S) BY <2>6, FS_Subset DEF FiniteSubsetsOf
  <2>8. <<U, T>> \in R BY <2>5, <2>6 DEF R, StrictSubsetOrdering
  <2>9. U \notin Bad BY <2>3, <2>8
  <2>10. U = {} \/ Bounded(U) BY <2>7, <2>9 DEF Bad
  <2>11. x \in Int BY <2>6
  <2>12. CASE U = {}
    <3>1. T = {x} BY <2>5, <2>12
    <3>2. QED BY <2>4, <2>11, <3>1
  <2>13. CASE Bounded(U)
    <3>1. PICK m \in U : \A y \in U : y <= m BY <2>13
    <3>2. PICK k \in U : \A y \in U : k <= y BY <2>13
    <3>3. \A y \in T : y = x \/ y \in U OBVIOUS
    <3>4. m \in Int /\ k \in Int /\ m \in T /\ k \in T BY <2>6
    <3>5. \E n \in T : \A y \in T : y <= n
      <4>1. CASE x <= m BY <2>11, <3>1, <3>3, <3>4, <4>1
      <4>2. CASE m <= x
        <5>1. \A y \in T : y <= x BY <2>6, <2>11, <3>1, <3>3, <3>4, <4>2
        <5>2. QED BY <2>5, <5>1
      <4>3. QED BY <2>11, <3>4, <4>1, <4>2
    <3>6. \E n \in T : \A y \in T : n <= y
      <4>1. CASE k <= x BY <2>11, <3>2, <3>3, <3>4, <4>1
      <4>2. CASE x <= k
        <5>1. \A y \in T : x <= y BY <2>6, <2>11, <3>2, <3>3, <3>4, <4>2
        <5>2. QED BY <2>5, <5>1
      <4>3. QED BY <2>11, <3>4, <4>1, <4>2
    <3>7. QED BY <2>4, <3>5, <3>6
  <2>14. QED BY <2>10, <2>12, <2>13
<1>2. S \in FiniteSubsetsOf(S) BY DEF FiniteSubsetsOf
<1>3. QED BY <1>1, <1>2
-----------------------------------------------------------------------------
(* The inductive invariant.  It is stated about values: d is the day, n the *)
(* number of the run, h the history and ms the delivered reports.           *)

WorkFields ==
    {"pc", "user", "since", "row", "base", "ranked", "sections", "sent"}

\* A history row is not of a later day or run than now, and a row the current
\* run of the job wrote is not older than its start.
RowOK(r, d, n) ==
    /\ r.id \in Nat \ {0} /\ r.user \in Users
    /\ r.day \in 0..d /\ r.run \in 0..n
    /\ r.by = "job" /\ r.run = n => r.day >= (n - 1) * Week

\* base is the newest row of the user that is Lookback days older than row, or
\* there is none; of a row and a base of the job the base is of an earlier run.
BaseOK(user, row, base, h) ==
    /\ base # NoRow =>
        /\ base \in h /\ base.user = user /\ base.day <= row.day - Lookback
        /\ row.by = "job" /\ base.by = "job" => base.run < row.run
    /\ \A r \in h :
        r.user = user /\ r.day <= row.day - Lookback => r.id <= base.id

Reached(ms) == {m.user : m \in {k \in ms : k.by = "job"}}

\* The row a worker has made and not necessarily committed.
MadeRow(w, s, d, n, h) ==
    /\ RowOK(s.row, d, n)
    /\ s.row.user = s.user /\ s.row.by = w /\ s.row.day >= s.since
    /\ w = "job" => s.row.run = n
    /\ BaseOK(s.user, s.row, s.base, h)
    /\ IF s.pc = "commit" THEN \A r \in h : r.user = s.user => r.id # s.row.id
       ELSE s.row \in h

WorkOK(w, s, d, n, h, ms) ==
    \/ s.pc = "idle"
    \/ /\ DOMAIN s = WorkFields
       /\ s.user \in Users /\ s.since \in (d - 1)..d /\ s.sent \in BOOLEAN
       /\ \/ s.pc \in {"update", "summary"} /\ s.row = NoRow
          \/ s.pc \in {"commit", "reasons", "notify"} /\ MadeRow(w, s, d, n, h)
       /\ s.pc \in {"commit", "reasons"} => s.ranked \in Lists
       /\ s.pc = "notify" =>
            s.sections \in {NoSections} \cup {ParsedSections(t) : t \in Answers}
       /\ w = "job" /\ s.sent => s.user \in Reached(ms)

\* Two workers that serve the same user make rows with different ids.
RowsApart(s, t) ==
    s.pc = "commit" /\ t.pc = "commit" /\ s.user = t.user => s.row.id # t.row.id

HistoryOK(h, d, n) ==
    /\ IsFiniteSet(h)
    /\ \A r \in h : RowOK(r, d, n)
    /\ \A r1, r2 \in h : r1.user = r2.user /\ r1.id = r2.id => r1 = r2

MessageOK(m, d, h) ==
    /\ m.row \in h /\ m.row.day \in 0..d
    /\ m.user = m.row.user /\ m.by = m.row.by
    /\ BaseOK(m.user, m.row, m.base, h)

JobFields ==
    {"pc", "attempt", "targets", "left", "user", "failures", "failedSymbols"}

\* The targets the process has finished.
Served(j) == (j.targets \ j.left) \ (IF j.pc = "user" THEN {j.user} ELSE {})

JobOK(j, ms) ==
    /\ DOMAIN j = JobFields
    /\ j.pc \in {"off", "choose", "user", "succeeded", "failed", "killed", "lost"}
    /\ j.attempt \in 0..(MaxRetries + 1)
    /\ j.left \subseteq j.targets /\ j.targets \subseteq Users
    /\ j.failures \in 0..Cardinality(j.targets)
    /\ j.pc = "user" => j.user \in j.targets \ j.left
    /\ j.pc \in {"succeeded", "failed"} => j.left = {}
    /\ j.pc \in {"choose", "user", "succeeded", "failed"} =>
        /\ j.failures <= Cardinality(Served(j))
        /\ Cardinality(Served(j) \ Reached(ms)) <= j.failures

\* The job ends on the day of its start or on the next.
ClockOK(j, d, n) ==
    /\ d \in 0..MaxDays /\ n \in Nat
    /\ j.pc \notin {"off", "succeeded", "lost"} =>
        d \in ((n - 1) * Week)..((n - 1) * Week + 1)

IInv ==
    /\ work = [w \in Workers |-> work[w]]
    /\ ClockOK(job, today, runs)
    /\ JobOK(job, messages)
    /\ job.pc = "user" <=> work["job"].pc # "idle"
    /\ job.pc = "user" => job.user = work["job"].user
    /\ HistoryOK(history, today, runs)
    /\ \A w \in Workers : WorkOK(w, work[w], today, runs, history, messages)
    /\ RowsApart(work["job"], work["route"])
    /\ \A m \in messages : MessageOK(m, today, history)

LEMMA Shapes ==
    /\ NoWork.pc = "idle" /\ NoRow.id = 0
    /\ \A u : /\ DOMAIN Opened(u) = WorkFields /\ Opened(u).pc = "update"
             /\ Opened(u).user = u /\ Opened(u).since = today
             /\ Opened(u).row = NoRow /\ Opened(u).sent = FALSE
    /\ \A targets, a :
        /\ DOMAIN Fetched(targets, a) = JobFields
        /\ Fetched(targets, a).pc = "choose" /\ Fetched(targets, a).attempt = a
        /\ Fetched(targets, a).targets = targets
        /\ Fetched(targets, a).left = targets /\ Fetched(targets, a).failures = 0
BY DEF NoWork, NoRow, Opened, WorkFields, Fetched, JobFields

-----------------------------------------------------------------------------
(* The job *)

LEMMA ServedFinite ==
    ASSUME NEW j, NEW ms, JobOK(j, ms)
    PROVE  /\ IsFiniteSet(j.targets) /\ IsFiniteSet(Served(j))
           /\ Cardinality(j.targets) \in Nat /\ Cardinality(Served(j)) \in Nat
           /\ Cardinality(Served(j)) <= Cardinality(j.targets)
           /\ IsFiniteSet(Served(j) \ Reached(ms))
           /\ Cardinality(Served(j) \ Reached(ms)) \in Nat
<1>1. IsFiniteSet(j.targets) BY RunnerAssumption, FS_Subset DEF JobOK
<1>2. Served(j) \subseteq j.targets BY DEF Served
<1>3. IsFiniteSet(Served(j)) /\ Cardinality(Served(j)) <= Cardinality(j.targets)
  BY <1>1, <1>2, FS_Subset
<1>4. IsFiniteSet(Served(j) \ Reached(ms)) BY <1>3, FS_Subset
<1>5. QED BY <1>1, <1>3, <1>4, FS_CardinalityType

\* A new process has served nobody.
LEMMA FetchedOK ==
    ASSUME NEW targets, targets \subseteq Users,
           NEW a \in 0..(MaxRetries + 1), NEW ms
    PROVE  JobOK(Fetched(targets, a), ms)
<1> DEFINE j == Fetched(targets, a)
<1>1. /\ DOMAIN j = JobFields /\ j.pc = "choose" /\ j.attempt = a
      /\ j.targets = targets /\ j.left = targets /\ j.failures = 0
  BY Shapes
<1> HIDE DEF j
<1>2. Served(j) = {} BY <1>1 DEF Served
<1>3. Cardinality(Served(j)) = 0 /\ Cardinality(Served(j) \ Reached(ms)) = 0
  BY <1>2, FS_EmptySet
<1>4. Cardinality(targets) \in Nat
  BY RunnerAssumption, FS_Subset, FS_CardinalityType
<1>5. JobOK(j, ms) BY <1>1, <1>3, <1>4 DEF JobOK
<1>6. QED BY <1>5 DEF j

\* More reports leave fewer targets to count.
LEMMA JobMessages ==
    ASSUME NEW j, NEW ms, JobOK(j, ms), NEW more, ms \subseteq more
    PROVE  JobOK(j, more)
<1>1. Served(j) \ Reached(more) \subseteq Served(j) \ Reached(ms)
  BY DEF Reached
<1>2. Cardinality(Served(j) \ Reached(more)) <= Cardinality(Served(j) \ Reached(ms))
  BY <1>1, ServedFinite, FS_Subset
<1>3. Cardinality(Served(j) \ Reached(more)) \in Nat
  BY <1>1, ServedFinite, FS_Subset, FS_CardinalityType
<1>4. Cardinality(Served(j) \ Reached(ms)) \in Nat /\ j.failures \in Int
  BY ServedFinite DEF JobOK
<1>5. QED BY <1>2, <1>3, <1>4 DEF JobOK

\* A user is done: reached, or counted.
LEMMA JobUserDone ==
    ASSUME NEW j, NEW ms, JobOK(j, ms), j.pc = "user", NEW ok \in BOOLEAN,
           ok => j.user \in Reached(ms)
    PROVE  LET k == [j EXCEPT !.pc = "choose", !.user = "none",
                              !.failures = IF ok THEN @ ELSE @ + 1,
                              !.failedSymbols = @ \union {}]
           IN  JobOK(k, ms) /\ k.pc = "choose"
<1> DEFINE failures == IF ok THEN j.failures ELSE j.failures + 1
           k == [j EXCEPT !.pc = "choose", !.user = "none",
                          !.failures = IF ok THEN @ ELSE @ + 1,
                          !.failedSymbols = @ \union {}]
<1>0. /\ IsFiniteSet(Served(j)) /\ Cardinality(Served(j)) \in Nat
      /\ Cardinality(j.targets) \in Nat
  BY ServedFinite
<1>1. DOMAIN j = JobFields /\ j.failures \in Nat BY DEF JobOK
<1>2. /\ DOMAIN k = JobFields /\ k.pc = "choose" /\ k.attempt = j.attempt
      /\ k.targets = j.targets /\ k.left = j.left /\ k.failures = failures
  BY <1>1 DEF JobFields
<1>3. failures \in Nat /\ failures >= j.failures /\ failures <= j.failures + 1
      /\ (~ok => failures = j.failures + 1)
  BY <1>1
<1> HIDE DEF failures, k
<1>4. j.user \notin Served(j) /\ Served(k) = Served(j) \cup {j.user}
  BY <1>2 DEF JobOK, Served
<1>5. /\ Cardinality(Served(k)) = Cardinality(Served(j)) + 1
      /\ IsFiniteSet(Served(k)) /\ Cardinality(Served(k)) \in Nat
  <2>1. Cardinality(Served(j) \cup {j.user}) = Cardinality(Served(j)) + 1
    BY <1>0, <1>4, FS_AddElement
  <2>2. IsFiniteSet(Served(j) \cup {j.user}) BY <1>0, FS_AddElement
  <2>3. QED BY <1>4, <2>1, <2>2, FS_CardinalityType
<1>6. Cardinality(Served(k)) <= Cardinality(k.targets)
  BY <1>2, <1>4, ServedFinite, FS_Subset DEF Served
<1> DEFINE left == Served(j) \ Reached(ms)
<1>7. IsFiniteSet(left) /\ Cardinality(left) \in Nat /\ Cardinality(left) <= j.failures
  BY ServedFinite DEF JobOK
<1>8. Cardinality(Served(k) \ Reached(ms)) <= failures
  <2>1. CASE j.user \in Reached(ms)
    <3>1. Served(k) \ Reached(ms) = left BY <1>4, <2>1
    <3>2. QED BY <1>1, <1>3, <1>7, <3>1
  <2>2. CASE j.user \notin Reached(ms)
    <3>1. Served(k) \ Reached(ms) = left \cup {j.user} BY <1>4, <2>2
    <3> HIDE DEF left
    <3>2. Cardinality(left \cup {j.user}) <= Cardinality(left) + 1
      BY <1>7, FS_AddElement
    <3>3. Cardinality(left \cup {j.user}) \in Nat
      BY <1>7, FS_AddElement, FS_CardinalityType
    <3>4. failures = j.failures + 1 BY <1>3, <2>2
    <3>5. QED BY <1>1, <1>7, <3>1, <3>2, <3>3, <3>4
  <2>3. QED BY <2>1, <2>2
<1>9. failures <= Cardinality(Served(k))
  <2>1. j.failures <= Cardinality(Served(j)) BY DEF JobOK
  <2>2. QED BY <1>0, <1>1, <1>3, <1>5, <2>1
<1>10. failures \in 0..Cardinality(k.targets)
  BY <1>0, <1>2, <1>3, <1>5, <1>6, <1>9
<1>11. JobOK(k, ms) BY <1>2, <1>8, <1>9, <1>10 DEF JobOK
<1>12. QED BY <1>2, <1>11 DEF k

\* The process ends, is killed or is given up.
LEMMA JobEnds ==
    ASSUME NEW j, NEW ms, JobOK(j, ms), NEW k, DOMAIN k = JobFields,
           k.attempt = j.attempt, k.targets = j.targets, k.left = j.left,
           k.failures = j.failures,
           \/ j.pc = "choose" /\ j.left = {} /\ k.pc \in {"succeeded", "failed"}
           \/ k.pc \in {"killed", "lost"}
    PROVE  JobOK(k, ms)
<1>1. ASSUME k.pc \in {"killed", "lost"} PROVE JobOK(k, ms)
  BY <1>1 DEF JobOK
<1>2. ASSUME j.pc = "choose", j.left = {}, k.pc \in {"succeeded", "failed"}
      PROVE  JobOK(k, ms)
  <2>1. Served(k) = Served(j) BY <1>2 DEF Served
  <2>2. QED BY <1>2, <2>1 DEF JobOK
<1>3. QED BY <1>1, <1>2

LEMMA JobTakes ==
    ASSUME NEW j, NEW ms, JobOK(j, ms), j.pc = "choose", NEW u \in j.left,
           NEW k, k = [j EXCEPT !.pc = "user", !.user = u, !.left = j.left \ {u}]
    PROVE  JobOK(k, ms) /\ k.pc = "user" /\ k.user = u /\ u \in Users
<1>1. DOMAIN j = JobFields /\ j.left \subseteq j.targets BY DEF JobOK
<1>2. /\ DOMAIN k = JobFields /\ k.pc = "user" /\ k.attempt = j.attempt
      /\ k.targets = j.targets /\ k.left = j.left \ {u}
      /\ k.failures = j.failures /\ k.user = u
  BY <1>1 DEF JobFields
<1>3. Served(k) = Served(j) BY <1>1, <1>2 DEF Served
<1>4. QED BY <1>1, <1>2, <1>3 DEF JobOK

-----------------------------------------------------------------------------
(* The history *)

\* A row made today or yesterday is no candidate for last week's row.
LEMMA BaseStays ==
    ASSUME NEW user, NEW row, NEW base, NEW h, BaseOK(user, row, base, h),
           NEW d \in Nat, row.day \in 0..d, NEW q, q.day \in Int, q.day >= d - 1
    PROVE  BaseOK(user, row, base, h \cup {q})
<1>1. ~(q.day <= row.day - Lookback) BY CalendarAssumption
<1>2. QED BY <1>1 DEF BaseOK

LEMMA MadeRowDay ==
    ASSUME NEW w, NEW s, NEW d \in Nat, NEW n, NEW h, MadeRow(w, s, d, n, h)
    PROVE  s.row.day \in 0..d /\ s.row.id \in Nat \ {0}
BY DEF MadeRow, RowOK

LEMMA WorkStays ==
    ASSUME NEW w, NEW s, NEW d \in Nat, NEW n, NEW h, NEW ms,
           WorkOK(w, s, d, n, h, ms),
           NEW q, q.day \in Int, q.day >= d - 1,
           s.pc = "commit" /\ q.user = s.user => s.row.id # q.id
    PROVE  WorkOK(w, s, d, n, h \cup {q}, ms)
<1>1. CASE s.pc \in {"commit", "reasons", "notify"} /\ MadeRow(w, s, d, n, h)
  <2>1. BaseOK(s.user, s.row, s.base, h \cup {q})
    BY <1>1, MadeRowDay, BaseStays DEF MadeRow
  <2>2. MadeRow(w, s, d, n, h \cup {q}) BY <1>1, <2>1 DEF MadeRow
  <2>3. QED BY <1>1, <2>2 DEF WorkOK
<1>2. CASE s.pc \in {"idle", "update", "summary"}
  BY <1>2 DEF WorkOK
<1>3. QED BY <1>1, <1>2 DEF WorkOK

LEMMA WorkMessages ==
    ASSUME NEW w, NEW s, NEW d, NEW n, NEW h, NEW ms, WorkOK(w, s, d, n, h, ms),
           NEW more, ms \subseteq more
    PROVE  WorkOK(w, s, d, n, h, more)
<1>1. Reached(ms) \subseteq Reached(more) BY DEF Reached
<1>2. QED BY <1>1 DEF WorkOK

-----------------------------------------------------------------------------
(* The steps of a worker *)

LEMMA WorkerStep ==
    ASSUME IInv, NEW w \in Workers, NEW y, work' = [work EXCEPT ![w] = y],
           UNCHANGED <<today, runs>>,
           HistoryOK(history', today, runs),
           WorkOK(w, y, today, runs, history', messages'),
           \A v \in Workers \ {w} :
                /\ WorkOK(v, work[v], today, runs, history', messages')
                /\ RowsApart(y, work[v]),
           \A m \in messages' : MessageOK(m, today, history'),
           JobOK(job', messages'), ClockOK(job', today, runs),
           IF w = "job"
           THEN /\ job'.pc = "user" <=> y.pc # "idle"
                /\ job'.pc = "user" => job'.user = y.user
           ELSE job' = job
    PROVE  IInv'
<1>1. work = [v \in Workers |-> work[v]] BY DEF IInv
<1>2. /\ work' = [v \in Workers |-> work'[v]] /\ work'[w] = y
      /\ \A v \in Workers \ {w} : work'[v] = work[v]
  BY <1>1
<1>3. \A v \in Workers : WorkOK(v, work'[v], today', runs', history', messages')
  BY <1>2
<1>4. RowsApart(work'["job"], work'["route"])
  BY <1>2 DEF RowsApart, Workers
<1>5. /\ job'.pc = "user" <=> work'["job"].pc # "idle"
      /\ job'.pc = "user" => job'.user = work'["job"].user
  BY <1>2 DEF IInv, Workers
<1>6. QED BY <1>2, <1>3, <1>4, <1>5 DEF IInv

\* A step that commits nothing.
LEMMA QuietStep ==
    ASSUME IInv, NEW w \in Workers, NEW y, work' = [work EXCEPT ![w] = y],
           UNCHANGED <<today, runs, history>>, y.pc # "commit",
           WorkOK(w, y, today, runs, history, messages'),
           messages \subseteq messages',
           \A m \in messages' \ messages : MessageOK(m, today, history),
           JobOK(job', messages'), ClockOK(job', today, runs),
           IF w = "job"
           THEN /\ job'.pc = "user" <=> y.pc # "idle"
                /\ job'.pc = "user" => job'.user = y.user
           ELSE job' = job
    PROVE  IInv'
<1>1. HistoryOK(history', today, runs) BY DEF IInv
<1>2. \A v \in Workers \ {w} :
        /\ WorkOK(v, work[v], today, runs, history', messages')
        /\ RowsApart(y, work[v])
  BY WorkMessages DEF IInv, RowsApart
<1>3. \A m \in messages' : MessageOK(m, today, history') BY DEF IInv
<1>4. QED BY <1>1, <1>2, <1>3, WorkerStep

\* The session of a user starts.
LEMMA OpenedOK ==
    ASSUME IInv, NEW u \in Users, NEW w
    PROVE  WorkOK(w, Opened(u), today, runs, history, messages)
<1>1. today \in Nat BY DEF IInv, ClockOK
<1> DEFINE s == Opened(u)
<1>2. /\ DOMAIN s = WorkFields /\ s.pc = "update" /\ s.user = u
      /\ s.since = today /\ s.row = NoRow /\ s.sent = FALSE
  BY Shapes
<1> HIDE DEF s
<1>3. s.sent \in BOOLEAN /\ ~s.sent BY <1>2
<1>4. s.since \in (today - 1)..today BY <1>1, <1>2
<1>5. WorkOK(w, s, today, runs, history, messages)
  BY <1>2, <1>3, <1>4, Zenon DEF WorkOK
<1>6. QED BY <1>5 DEF s

LEMMA TakeTargetStep == ASSUME IInv, TakeTarget PROVE IInv'
<1>1. PICK u \in job.left :
        /\ job.pc = "choose"
        /\ job' = [job EXCEPT !.pc = "user", !.user = u, !.left = job.left \ {u}]
  BY DEF TakeTarget, TakeUser
<1>2. JobOK(job, messages) BY DEF IInv
<1>3. /\ JobOK(job', messages) /\ job'.pc = "user" /\ job'.user = u /\ u \in Users
  <2> DEFINE k == [job EXCEPT !.pc = "user", !.user = u, !.left = job.left \ {u}]
  <2>1. job' = k BY <1>1
  <2>2. JobOK(k, messages) /\ k.pc = "user" /\ k.user = u /\ u \in Users
    BY <1>1, <1>2, JobTakes
  <2> HIDE DEF k
  <2>3. QED BY <2>1, <2>2
<1>4. /\ work' = [work EXCEPT !["job"] = Opened(u)]
      /\ UNCHANGED <<today, runs, slack, history, messages, requests>>
  BY <1>3 DEF TakeTarget
<1>5. WorkOK("job", Opened(u), today, runs, history, messages) BY <1>3, OpenedOK
<1>6. ClockOK(job', today, runs)
  BY <1>1, <1>3 DEF IInv, ClockOK
<1>7. QED
  BY <1>3, <1>4, <1>5, <1>6, Shapes, QuietStep DEF Workers

LEMMA RequestStep == ASSUME IInv, NEW u \in Users, Request(u) PROVE IInv'
<1>1. /\ work' = [work EXCEPT !["route"] = Opened(u)]
      /\ UNCHANGED <<job, today, runs, slack, history, messages>>
  BY DEF Request
<1>2. WorkOK("route", Opened(u), today, runs, history, messages) BY OpenedOK
<1>3. JobOK(job', messages) /\ ClockOK(job', today, runs) BY <1>1 DEF IInv
<1>4. QED BY <1>1, <1>2, <1>3, Shapes, QuietStep DEF Workers

LEMMA KillStep == ASSUME IInv, Kill PROVE IInv'
<1>1. /\ job.pc \in {"choose", "user"}
      /\ job' = [job EXCEPT !.pc = "killed", !.user = "none"]
      /\ work' = [work EXCEPT !["job"] = NoWork]
      /\ UNCHANGED <<today, runs, slack, history, messages, requests>>
  BY DEF Kill, KillJob
<1>2. JobOK(job, messages) BY DEF IInv
<1>3. JobOK(job', messages) /\ job'.pc = "killed"
  <2>1. /\ DOMAIN job' = JobFields /\ job'.attempt = job.attempt
        /\ job'.targets = job.targets /\ job'.left = job.left
        /\ job'.failures = job.failures /\ job'.pc = "killed"
    BY <1>1, <1>2 DEF JobOK, JobFields
  <2>2. QED BY <1>2, <2>1, JobEnds
<1>4. ClockOK(job', today, runs) BY <1>1, <1>3 DEF IInv, ClockOK
<1>5. WorkOK("job", NoWork, today, runs, history, messages) BY Shapes DEF WorkOK
<1>6. QED BY <1>1, <1>3, <1>4, <1>5, Shapes, QuietStep DEF Workers

\* A worker is done with its user, and the job counts.
LEMMA FinishStep ==
    ASSUME IInv, NEW w \in Workers, work[w].pc # "idle", NEW ok, ok \in BOOLEAN,
           w = "job" /\ ok => work[w].user \in Reached(messages),
           Finish(w, ok),
           UNCHANGED <<today, runs, slack, history, messages, requests>>
    PROVE  IInv'
<1>1. work' = [work EXCEPT ![w] = NoWork] BY DEF Finish
<1>2. WorkOK(w, NoWork, today, runs, history, messages) BY Shapes DEF WorkOK
<1>3. JobOK(job, messages) /\ ClockOK(job, today, runs) BY DEF IInv
<1>4. CASE w = "job"
  <2>1. job.pc = "user" /\ job.user = work["job"].user BY <1>4 DEF IInv
  <2> DEFINE k == [job EXCEPT !.pc = "choose", !.user = "none",
                              !.failures = IF ok THEN @ ELSE @ + 1,
                              !.failedSymbols = @ \union {}]
  <2>2. job' = k BY <1>4 DEF Finish, UserDone
  <2>3. JobOK(job', messages) /\ job'.pc = "choose"
    <3>1. JobOK(k, messages) /\ k.pc = "choose"
      BY <1>3, <1>4, <2>1, JobUserDone
    <3> HIDE DEF k
    <3>2. QED BY <2>2, <3>1
  <2>4. ClockOK(job', today, runs) BY <1>3, <2>1, <2>3 DEF ClockOK
  <2>5. QED BY <1>1, <1>2, <1>4, <2>3, <2>4, Shapes, QuietStep
<1>5. CASE w # "job"
  <2>1. job' = job BY <1>5 DEF Finish
  <2>2. QED BY <1>1, <1>2, <1>3, <1>5, <2>1, Shapes, QuietStep
<1>6. QED BY <1>4, <1>5

LEMMA RaiseStep == ASSUME IInv, NEW w \in Workers, Raise(w) PROVE IInv'
BY FinishStep DEF Raise

\* The report of a summary is counted as delivered only if Slack answered.
LEMMA SummaryStep == ASSUME IInv, NEW w \in Workers, Summary(w) PROVE IInv'
<1>1. WorkOK(w, work[w], today, runs, history, messages) BY DEF IInv
<1>2. /\ work[w].pc = "summary" /\ Finish(w, work[w].sent)
      /\ UNCHANGED <<today, runs, slack, history, messages, requests>>
  BY DEF Summary
<1>3. w = "job" /\ work[w].sent => work[w].user \in Reached(messages)
  BY <1>1, <1>2 DEF WorkOK
<1>4. work[w].sent \in BOOLEAN BY <1>1, <1>2 DEF WorkOK
<1>5. QED BY <1>2, <1>3, <1>4, FinishStep

\* The ids of a finite set of rows have a greatest one.
LEMMA NewestExists ==
    ASSUME NEW rows, IsFiniteSet(rows), \A r \in rows : r.id \in Int, rows # {}
    PROVE  \E r \in rows : \A other \in rows : other.id <= r.id
<1> DEFINE ids == {r.id : r \in rows}
           id  == [r \in rows |-> r.id]
<1>1. id \in Surjection(rows, ids) BY DEF Surjection
<1>2. IsFiniteSet(ids) BY <1>1, FS_Surjection
<1>3. ids \subseteq Int /\ ids # {} OBVIOUS
<1> HIDE DEF ids
<1>4. PICK m \in ids : \A x \in ids : x <= m BY <1>2, <1>3, FiniteBounds
<1>5. QED BY <1>4 DEF ids

\* What an open session holds as its row.
LEMMA RowOfWork ==
    ASSUME IInv, NEW w \in Workers, work[w].pc # "idle"
    PROVE  /\ work[w].row.id \in Nat /\ DOMAIN work[w] = WorkFields
           /\ work[w].user \in Users /\ work[w].since \in (today - 1)..today
           /\ work[w].pc \in {"commit", "reasons", "notify"} =>
                MadeRow(w, work[w], today, runs, history)
<1>1. WorkOK(w, work[w], today, runs, history, messages) /\ today \in Nat
  BY DEF IInv, ClockOK
<1>2. QED BY <1>1, Shapes, MadeRowDay DEF WorkOK

\* The id of a new row is greater than that of every row of the user.
LEMMA NewId ==
    ASSUME IInv, NEW user
    PROVE  /\ 1 + Max(Ids(user)) \in Nat \ {0}
           /\ \A r \in history : r.user = user => r.id < 1 + Max(Ids(user))
           /\ \A w \in Workers :
                work[w].pc # "idle" /\ work[w].user = user =>
                    work[w].row.id < 1 + Max(Ids(user))
<1> DEFINE rows == {h \in history : h.user = user} \cup RowsInWork(user)
           ids  == {r.id : r \in rows}
           id   == [r \in rows |-> r.id]
<1>1. Ids(user) = {0} \cup ids BY DEF Ids
<1>2. HistoryOK(history, today, runs) BY DEF IInv
<1>3. IsFiniteSet(rows)
  <2>1. IsFiniteSet({h \in history : h.user = user})
    BY <1>2, FS_Subset DEF HistoryOK
  <2>2. RowsInWork(user) \subseteq {work["job"].row} \cup {work["route"].row}
    BY DEF RowsInWork, Workers
  <2>3. IsFiniteSet({work["job"].row} \cup {work["route"].row})
    BY FS_Singleton, FS_Union
  <2>4. IsFiniteSet(RowsInWork(user)) BY <2>2, <2>3, FS_Subset
  <2>5. QED BY <2>1, <2>4, FS_Union
<1>4. \A r \in rows : r.id \in Nat
  BY <1>2, RowOfWork DEF HistoryOK, RowOK, RowsInWork
<1>5. IsFiniteSet(ids)
  <2>1. id \in Surjection(rows, ids) BY DEF Surjection
  <2>2. QED BY <1>3, <2>1, FS_Surjection
<1>6. ids \subseteq Nat BY <1>4
<1>7. /\ \A r \in history : r.user = user => r.id \in ids
      /\ \A w \in Workers : work[w].pc # "idle" /\ work[w].user = user =>
            work[w].row.id \in ids
  BY DEF RowsInWork
<1> HIDE DEF ids
<1> DEFINE all == {0} \cup ids
<1>8. IsFiniteSet(all) /\ all \subseteq Nat /\ 0 \in all
  <2>1. all = ids \cup {0} OBVIOUS
  <2>2. IsFiniteSet(ids \cup {0}) BY <1>5, FS_AddElement
  <2>3. QED BY <1>6, <2>1, <2>2
<1>9. Ids(user) = all /\ ids \subseteq all BY <1>1
<1> HIDE DEF all
<1>10. PICK m \in all : \A x \in all : x <= m
  <2>1. all \subseteq Int /\ all # {} BY <1>8
  <2>2. QED BY <1>8, <2>1, FiniteBounds
<1>11. /\ Max(all) \in all
       /\ \A x \in all : x <= Max(all)
  BY <1>8, <1>10 DEF Max
<1>12. /\ 1 + Max(all) \in Nat \ {0} /\ \A x \in ids : x < 1 + Max(all)
  <2> DEFINE k == Max(all)
  <2>1. k \in Nat /\ \A x \in all : x <= k BY <1>8, <1>11
  <2> HIDE DEF k
  <2>2. ASSUME NEW x \in ids PROVE x < 1 + k BY <1>8, <1>9, <2>1
  <2>3. 1 + k \in Nat \ {0} BY <2>1
  <2>4. QED BY <2>2, <2>3 DEF k
<1>13. QED BY <1>7, <1>9, <1>12

LEMMA UpdateStep == ASSUME IInv, NEW w \in Workers, Update(w) PROVE IInv'
<1> DEFINE s == work[w]
           row == NewRow(w)
           base == Previous(s.user)
           old == {r \in history : r.user = s.user /\ r.day <= today - Lookback}
<1>1. /\ s.pc = "update"
      /\ UNCHANGED <<job, today, runs, slack, history, messages, requests>>
  BY DEF Update
<1>2. PICK ps \in Lists :
        work' = [work EXCEPT ![w] = [s EXCEPT !.pc = "commit", !.row = row,
                                              !.base = base, !.ranked = ps]]
  BY DEF Update
<1> DEFINE y == [s EXCEPT !.pc = "commit", !.row = row, !.base = base,
                          !.ranked = ps]
<1>3. /\ DOMAIN s = WorkFields /\ s.user \in Users
      /\ s.since \in (today - 1)..today
  BY <1>1, RowOfWork
<1>4. /\ DOMAIN y = WorkFields /\ y.pc = "commit" /\ y.row = row /\ y.base = base
      /\ y.user = s.user /\ y.since = s.since /\ y.sent = s.sent
      /\ y.ranked = ps
  BY <1>3 DEF WorkFields
<1>5. /\ row.id = 1 + Max(Ids(s.user)) /\ row.user = s.user
      /\ row.day = today /\ row.by = w /\ row.run = runs
  BY DEF NewRow
<1>6. base = Newest(old) BY DEF Previous
<1>7. /\ today \in Nat /\ runs \in Nat /\ Week \in Nat /\ Lookback \in Int
      /\ HistoryOK(history, today, runs)
  BY CalendarAssumption DEF IInv, ClockOK
<1>8. w = "job" => today \in ((runs - 1) * Week)..((runs - 1) * Week + 1)
  <2>1. w = "job" => job.pc = "user" BY <1>1 DEF IInv
  <2>2. QED BY <2>1 DEF IInv, ClockOK
<1> HIDE DEF y, row, base
<1>9. RowOK(row, today, runs)
  <2>1. row.id \in Nat \ {0} BY <1>5, NewId
  <2>2. w = "job" => row.day >= (runs - 1) * Week BY <1>5, <1>7, <1>8
  <2>3. QED BY <1>3, <1>5, <1>7, <2>1, <2>2 DEF RowOK
<1>10. BaseOK(s.user, row, base, history)
  <2>1. CASE old = {} BY <1>5, <1>6, <2>1 DEF BaseOK, Newest
  <2>2. CASE old # {}
    <3>1. IsFiniteSet(old) /\ \A r \in old : r.id \in Int
      BY <1>7, FS_Subset DEF HistoryOK, RowOK
    <3>2. base \in old /\ \A r \in old : r.id <= base.id
      BY <1>6, <2>2, <3>1, NewestExists DEF Newest
    <3>3. RowOK(base, today, runs) BY <1>7, <3>2 DEF HistoryOK
    <3>4. ASSUME w = "job", base.by = "job" PROVE base.run < runs
      <4>1. base.day < (runs - 1) * Week
        BY <1>7, <1>8, <3>2, <3>3, <3>4, CalendarAssumption DEF RowOK
      <4>2. QED BY <1>7, <3>3, <3>4, <4>1 DEF RowOK
    <3>5. QED BY <1>5, <3>2, <3>4 DEF BaseOK
  <2>3. QED BY <2>1, <2>2
<1>11. MadeRow(w, y, today, runs, history)
  <2>1. \A r \in history : r.user = s.user => r.id # row.id
    BY <1>5, <1>7, NewId DEF HistoryOK, RowOK
  <2>2. row.day >= s.since BY <1>3, <1>5, <1>7
  <2>3. QED BY <1>4, <1>5, <1>9, <1>10, <2>1, <2>2 DEF MadeRow
<1>12. WorkOK(w, s, today, runs, history, messages) BY DEF IInv
<1>13. WorkOK(w, y, today, runs, history, messages)
  BY <1>1, <1>3, <1>4, <1>11, <1>12, Zenon DEF WorkOK
<1>14. \A v \in Workers \ {w} : RowsApart(y, work[v])
  BY <1>4, <1>5, <1>7, NewId, RowOfWork DEF RowsApart
<1>15. work' = [work EXCEPT ![w] = y] BY <1>2 DEF y
<1>16. y.pc # "idle" /\ y.user = s.user /\ s.pc # "idle" BY <1>1, <1>4
<1>17. QED BY <1>1, <1>13, <1>14, <1>15, <1>16, WorkerStep DEF IInv

\* The commit: one more row, which is no candidate for anybody's last week.
LEMMA CommitStep == ASSUME IInv, NEW w \in Workers, Commit(w) PROVE IInv'
<1> DEFINE s == work[w]
           q == s.row
           y == [s EXCEPT !.pc = "reasons"]
<1>1. /\ s.pc = "commit" /\ history' = history \cup {q}
      /\ work' = [work EXCEPT ![w] = y]
      /\ UNCHANGED <<job, today, runs, slack, messages, requests>>
  BY DEF Commit, IInv
<1>2. /\ DOMAIN s = WorkFields /\ s.user \in Users /\ q.id \in Nat
      /\ s.since \in (today - 1)..today
      /\ MadeRow(w, s, today, runs, history)
  BY <1>1, RowOfWork
<1>3. /\ DOMAIN y = WorkFields /\ y.pc = "reasons" /\ y.row = q
      /\ y.base = s.base /\ y.user = s.user /\ y.since = s.since
      /\ y.sent = s.sent /\ y.ranked = s.ranked
  BY <1>2 DEF WorkFields
<1>4. today \in Nat /\ HistoryOK(history, today, runs) BY DEF IInv, ClockOK
<1>5. /\ RowOK(q, today, runs) /\ q.user = s.user
      /\ q.day \in Int /\ q.day >= today - 1
      /\ BaseOK(s.user, q, s.base, history)
      /\ \A r \in history : r.user = s.user => r.id # q.id
  BY <1>1, <1>2, <1>4 DEF MadeRow, RowOK
<1> HIDE DEF y, q
<1>6. HistoryOK(history', today, runs)
  <2>1. IsFiniteSet(history') BY <1>1, <1>4, FS_AddElement DEF HistoryOK
  <2>2. QED BY <1>1, <1>4, <1>5, <2>1 DEF HistoryOK
<1>7. MadeRow(w, y, today, runs, history')
  <2>1. BaseOK(s.user, q, s.base, history')
    BY <1>1, <1>4, <1>5, BaseStays DEF RowOK
  <2>2. QED BY <1>1, <1>2, <1>3, <1>5, <2>1 DEF MadeRow, q
<1>8. WorkOK(w, y, today, runs, history', messages)
  <2>1. WorkOK(w, s, today, runs, history, messages) BY DEF IInv
  <2>2. QED BY <1>1, <1>2, <1>3, <1>7, <2>1, Zenon DEF WorkOK
<1>9. \A v \in Workers \ {w} :
        /\ WorkOK(v, work[v], today, runs, history', messages)
        /\ RowsApart(y, work[v])
  <2> SUFFICES ASSUME NEW v \in Workers \ {w}
               PROVE  /\ WorkOK(v, work[v], today, runs, history', messages)
                      /\ RowsApart(y, work[v])
    OBVIOUS
  <2>1. WorkOK(v, work[v], today, runs, history, messages) BY DEF IInv
  <2>2. work[v].pc = "commit" /\ q.user = work[v].user => work[v].row.id # q.id
    BY <1>1, <1>5 DEF IInv, RowsApart, Workers, q
  <2>3. WorkOK(v, work[v], today, runs, history', messages)
    BY <1>1, <1>4, <1>5, <2>1, <2>2, WorkStays
  <2>4. QED BY <1>3, <2>3 DEF RowsApart
<1>10. \A m \in messages : MessageOK(m, today, history')
  <2> SUFFICES ASSUME NEW m \in messages PROVE MessageOK(m, today, history')
    OBVIOUS
  <2>1. MessageOK(m, today, history) BY DEF IInv
  <2>2. BaseOK(m.user, m.row, m.base, history')
    BY <1>1, <1>4, <1>5, <2>1, BaseStays DEF MessageOK
  <2>3. QED BY <1>1, <2>1, <2>2 DEF MessageOK
<1>11. JobOK(job', messages') /\ ClockOK(job', today, runs)
  BY <1>1 DEF IInv
<1>12. QED
  <2>1. y.pc # "idle" /\ s.pc # "idle" /\ y.user = s.user BY <1>1, <1>3
  <2>2. w = "job" => /\ job'.pc = "user" <=> y.pc # "idle"
                     /\ job'.pc = "user" => job'.user = y.user
    BY <1>1, <2>1 DEF IInv
  <2>3. QED
    BY <1>1, <1>6, <1>8, <1>9, <1>10, <1>11, <2>2, WorkerStep

LEMMA GenerateReasonsStep ==
    ASSUME IInv, NEW w \in Workers, GenerateReasons(w) PROVE IInv'
<1> DEFINE s == work[w]
<1>1. /\ s.pc = "reasons"
      /\ UNCHANGED <<job, today, runs, slack, history, messages, requests>>
  BY DEF GenerateReasons
<1>2. PICK sections \in {NoSections} \cup {ParsedSections(t) : t \in Answers} :
        work' = [work EXCEPT ![w] = [s EXCEPT !.pc = "notify",
                                              !.sections = sections,
                                              !.ranked = <<>>]]
  BY DEF GenerateReasons, ChangeReasons
<1> DEFINE y == [s EXCEPT !.pc = "notify", !.sections = sections, !.ranked = <<>>]
<1>3. /\ DOMAIN s = WorkFields /\ s.user \in Users
      /\ s.since \in (today - 1)..today
      /\ MadeRow(w, s, today, runs, history)
  BY <1>1, RowOfWork
<1>4. /\ DOMAIN y = WorkFields /\ y.pc = "notify" /\ y.row = s.row
      /\ y.base = s.base /\ y.user = s.user /\ y.since = s.since
      /\ y.sent = s.sent /\ y.sections = sections
  BY <1>3 DEF WorkFields
<1>5. work' = [work EXCEPT ![w] = y] BY <1>2
<1> HIDE DEF y
<1>6. MadeRow(w, y, today, runs, history) BY <1>1, <1>3, <1>4 DEF MadeRow
<1>7. WorkOK(w, s, today, runs, history, messages) BY DEF IInv
<1>8. WorkOK(w, y, today, runs, history, messages)
  BY <1>1, <1>3, <1>4, <1>6, <1>7, Zenon DEF WorkOK
<1>9. JobOK(job', messages) /\ ClockOK(job', today, runs) BY <1>1 DEF IInv
<1>10. w = "job" => /\ job'.pc = "user" <=> y.pc # "idle"
                    /\ job'.pc = "user" => job'.user = y.user
  BY <1>1, <1>4 DEF IInv
<1>11. QED
  BY <1>1, <1>4, <1>5, <1>8, <1>9, <1>10, QuietStep

\* A report that reached Slack reaches its user, answered or not.
LEMMA NotifyStep == ASSUME IInv, NEW w \in Workers, Notify(w) PROVE IInv'
<1> DEFINE s == work[w]
<1>1. /\ s.pc = "notify"
      /\ UNCHANGED <<job, today, runs, slack, history, requests>>
  BY DEF Notify
<1>2. PICK answered \in BOOLEAN :
        /\ work' = [work EXCEPT ![w] = Notified(w, answered)]
        /\ \/ ~answered /\ messages' = messages
           \/ messages' = messages \cup {Report(w)}
  BY DEF Notify
<1> DEFINE y == Notified(w, answered)
<1>3. /\ DOMAIN s = WorkFields /\ s.user \in Users
      /\ s.since \in (today - 1)..today
      /\ MadeRow(w, s, today, runs, history)
  BY <1>1, RowOfWork
<1>4. /\ DOMAIN y = WorkFields /\ y.pc = "summary" /\ y.user = s.user
      /\ y.since = s.since /\ y.row = NoRow /\ y.sent = answered
  BY Shapes DEF Notified, WorkFields
<1>5. work' = [work EXCEPT ![w] = y] BY <1>2
<1> HIDE DEF y
<1>6. /\ Report(w).user = s.user /\ Report(w).by = w
      /\ Report(w).row = s.row /\ Report(w).base = s.base
  BY DEF Report
<1>7. MessageOK(Report(w), today, history)
  BY <1>1, <1>3, <1>6 DEF MessageOK, MadeRow, RowOK
<1>8. messages \subseteq messages' /\ messages' \subseteq messages \cup {Report(w)}
  BY <1>2
<1>9. w = "job" /\ answered => s.user \in Reached(messages')
  BY <1>2, <1>6 DEF Reached
<1>10. WorkOK(w, y, today, runs, history, messages')
  BY <1>3, <1>4, <1>9, Zenon DEF WorkOK
<1>11. JobOK(job', messages') BY <1>1, <1>8, JobMessages DEF IInv
<1>12. ClockOK(job', today, runs) BY <1>1 DEF IInv
<1>13. w = "job" => /\ job'.pc = "user" <=> y.pc # "idle"
                    /\ job'.pc = "user" => job'.user = y.user
  BY <1>1, <1>4 DEF IInv
<1>14. QED
  BY <1>1, <1>4, <1>5, <1>7, <1>8, <1>10, <1>11, <1>12, <1>13, QuietStep

-----------------------------------------------------------------------------
(* The calendar and the process of the job *)

\* A session does not outlive its day and the next.
LEMMA NextDayStep == ASSUME IInv, NextDay PROVE IInv'
<1>1. /\ today < MaxDays /\ today' = today + 1
      /\ \A w \in Workers : work[w].pc # "idle" => work[w].since = today
      /\ ~JobOver => today = StartDay
      /\ UNCHANGED <<job, runs, slack, history, work, messages, requests>>
  BY DEF NextDay
<1>2. today \in Nat /\ runs \in Nat /\ MaxDays \in Nat /\ Week \in Nat
  BY CalendarAssumption DEF IInv, ClockOK
<1>3. today' \in Nat /\ \A k \in Int : k \in 0..today => k \in 0..today'
  BY <1>1, <1>2
<1>4. ClockOK(job, today', runs)
  BY <1>1, <1>2 DEF IInv, ClockOK, JobOver, StartDay
<1>5. \A r : RowOK(r, today, runs) => RowOK(r, today', runs)
  BY <1>1, <1>2 DEF RowOK
<1>6. \A w \in Workers : WorkOK(w, work[w], today', runs, history, messages)
  <2> SUFFICES ASSUME NEW w \in Workers
               PROVE  WorkOK(w, work[w], today', runs, history, messages)
    OBVIOUS
  <2>1. WorkOK(w, work[w], today, runs, history, messages) BY DEF IInv
  <2>2. CASE work[w].pc = "idle" BY <2>2 DEF WorkOK
  <2>3. CASE work[w].pc # "idle"
    <3>1. work[w].since \in (today' - 1)..today' BY <1>1, <1>2, <2>3
    <3>2. MadeRow(w, work[w], today, runs, history) =>
            MadeRow(w, work[w], today', runs, history)
      BY <1>5 DEF MadeRow
    <3>3. QED BY <2>1, <2>3, <3>1, <3>2, Zenon DEF WorkOK
  <2>4. QED BY <2>2, <2>3
<1>7. HistoryOK(history, today', runs) BY <1>5 DEF IInv, HistoryOK
<1>8. \A m \in messages : MessageOK(m, today', history)
  BY <1>1, <1>2 DEF IInv, MessageOK
<1>9. QED BY <1>1, <1>4, <1>6, <1>7, <1>8 DEF IInv

\* A step of the process of the job that serves nobody.
LEMMA ProcessStep ==
    ASSUME IInv, job.pc # "user", job'.pc # "user",
           UNCHANGED <<today, history, work>>,
           JobOK(job', messages'), ClockOK(job', today, runs'),
           messages' \subseteq messages,
           runs' # runs => runs' = runs + 1 /\ today = runs * Week
    PROVE  IInv'
<1>1. today \in Nat /\ runs \in Nat /\ Week \in Nat
  BY CalendarAssumption DEF IInv, ClockOK
<1>2. work["job"].pc = "idle" BY DEF IInv
<1>3. \A r : RowOK(r, today, runs) => RowOK(r, today, runs')
  <2> SUFFICES ASSUME NEW r, RowOK(r, today, runs), runs' = runs + 1,
                      today = runs * Week
               PROVE  RowOK(r, today, runs')
    OBVIOUS
  <2>1. r.run # runs' BY <1>1 DEF RowOK
  <2>2. r.run \in 0..runs' BY <1>1 DEF RowOK
  <2>3. QED BY <2>1, <2>2 DEF RowOK
<1>4. HistoryOK(history, today, runs') BY <1>3 DEF IInv, HistoryOK
<1>5. WorkOK("route", work["route"], today, runs', history, messages')
  <2>1. WorkOK("route", work["route"], today, runs, history, messages)
    BY DEF IInv, Workers
  <2>2. MadeRow("route", work["route"], today, runs, history) =>
          MadeRow("route", work["route"], today, runs', history)
    BY <1>3 DEF MadeRow
  <2>3. QED BY <2>1, <2>2, Zenon DEF WorkOK
<1>6. WorkOK("job", work["job"], today, runs', history, messages')
  BY <1>2 DEF WorkOK
<1>7. \A m \in messages' : MessageOK(m, today, history) BY DEF IInv
<1>8. QED BY <1>2, <1>4, <1>5, <1>6, <1>7 DEF IInv, Workers

LEMMA TargetsOK == Targets \subseteq Users
BY DEF Targets

\* The next run of the job: a week after the last, which is over.
LEMMA ScheduleStep == ASSUME IInv, Schedule PROVE IInv'
<1>1. /\ today = runs * Week /\ runs' = runs + 1 /\ messages' = {}
      /\ job.pc \in {"off", "succeeded", "lost"} /\ job' = Fetched(Targets, 1)
      /\ UNCHANGED <<today, slack, history, work, requests>>
  BY DEF Schedule, StartJob
<1>2. today \in 0..MaxDays /\ runs \in Nat /\ Week \in Nat /\ MaxRetries \in Nat
  BY CalendarAssumption, RunnerAssumption DEF IInv, ClockOK
<1>3. JobOK(job', messages') /\ job'.pc = "choose"
  <2> DEFINE k == Fetched(Targets, 1)
  <2>1. 1 \in 0..(MaxRetries + 1) BY <1>2
  <2>2. JobOK(k, messages') /\ k.pc = "choose" BY <2>1, TargetsOK, FetchedOK, Shapes
  <2>3. job' = k BY <1>1
  <2> HIDE DEF k
  <2>4. QED BY <2>2, <2>3
<1>4. ClockOK(job', today, runs')
  <2>1. runs' - 1 = runs BY <1>1, <1>2
  <2>2. today \in ((runs' - 1) * Week)..((runs' - 1) * Week + 1)
    BY <1>1, <1>2, <2>1
  <2>3. runs' \in Nat BY <1>1, <1>2
  <2>4. QED BY <1>2, <2>2, <2>3 DEF ClockOK
<1>5. messages' \subseteq messages BY <1>1
<1>6. QED BY <1>1, <1>3, <1>4, <1>5, ProcessStep

\* The process is started again, or given up.
LEMMA RetryStep == ASSUME IInv, Retry PROVE IInv'
<1>1. /\ job.pc \in {"failed", "killed"}
      /\ UNCHANGED <<today, runs, slack, history, work, requests>>
  BY DEF Retry, RetryJob
<1>2. /\ JobOK(job, messages) /\ ClockOK(job, today, runs)
      /\ work["job"].pc = "idle"
  BY <1>1 DEF IInv
<1>3. job.attempt \in Nat /\ MaxRetries \in Nat
  BY <1>2, RunnerAssumption DEF JobOK
<1>4. CASE job.attempt <= MaxRetries
  <2> DEFINE k == Fetched(Targets, job.attempt + 1)
  <2>1. job.attempt + 1 \in 0..(MaxRetries + 1) BY <1>3, <1>4
  <2>2. JobOK(k, {}) /\ k.pc = "choose" BY <2>1, TargetsOK, FetchedOK, Shapes
  <2>3. job' = k BY <1>4 DEF Retry, RetryJob
  <2> HIDE DEF k
  <2>4. messages' = {} BY <2>2, <2>3 DEF Retry, JobOver
  <2>5. JobOK(job', messages') /\ job'.pc = "choose" BY <2>2, <2>3, <2>4
  <2>6. ClockOK(job', today, runs) BY <1>1, <1>2, <2>5 DEF ClockOK
  <2>7. messages' \subseteq messages BY <2>4
  <2>8. /\ job.pc # "user" /\ job'.pc # "user" /\ runs' = runs
        /\ ClockOK(job', today, runs') /\ UNCHANGED <<today, history, work>>
    BY <1>1, <2>5, <2>6
  <2>9. QED BY <2>5, <2>7, <2>8, ProcessStep
<1>5. CASE ~(job.attempt <= MaxRetries)
  <2>1. job' = [job EXCEPT !.pc = "lost"] BY <1>5 DEF Retry, RetryJob
  <2>2. /\ DOMAIN job' = JobFields /\ job'.attempt = job.attempt
        /\ job'.targets = job.targets /\ job'.left = job.left
        /\ job'.failures = job.failures /\ job'.pc = "lost"
    BY <1>2, <2>1 DEF JobOK, JobFields
  <2>3. JobOK(job', messages) /\ job'.pc = "lost" BY <1>2, <2>2, JobEnds
  <2>4. messages' = messages BY <2>3 DEF Retry, JobOver
  <2>5. ClockOK(job', today, runs) BY <1>2, <2>3 DEF ClockOK
  <2>6. QED BY <1>1, <1>2, <2>3, <2>4, <2>5, ProcessStep
<1>6. QED BY <1>4, <1>5

LEMMA ExitStep == ASSUME IInv, Exit PROVE IInv'
<1>1. /\ job.pc = "choose" /\ job.left = {}
      /\ job' = [job EXCEPT !.pc = ExitCode]
      /\ UNCHANGED <<today, runs, slack, history, work, messages, requests>>
  BY DEF Exit, ExitJob
<1>2. ExitCode \in {"succeeded", "failed"} BY DEF ExitCode
<1>3. JobOK(job, messages) /\ ClockOK(job, today, runs) BY DEF IInv
<1>4. JobOK(job', messages) /\ job'.pc = ExitCode
  <2>1. /\ DOMAIN job' = JobFields /\ job'.attempt = job.attempt
        /\ job'.targets = job.targets /\ job'.left = job.left
        /\ job'.failures = job.failures /\ job'.pc = ExitCode
    BY <1>1, <1>3 DEF JobOK, JobFields
  <2>2. QED BY <1>1, <1>2, <1>3, <2>1, JobEnds
<1>5. ClockOK(job', today, runs) BY <1>1, <1>3, <1>4 DEF ClockOK
<1>6. job'.pc # "user" BY <1>2, <1>4
<1>7. QED BY <1>1, <1>4, <1>5, <1>6, ProcessStep

\* Before the second run.
LEMMA InitInv == Init => IInv
<1> SUFFICES ASSUME Init PROVE IInv OBVIOUS
<1>1. /\ job = NoJob /\ today = Week /\ runs = 1 /\ history = Past
      /\ work = [w \in Workers |-> NoWork] /\ messages = {}
  BY DEF Init
<1>2. /\ Week \in Nat /\ MaxDays \in Nat /\ Week <= MaxDays
      /\ MaxRetries \in Nat
  BY CalendarAssumption, RunnerAssumption
<1>3. /\ DOMAIN job = JobFields /\ job.pc = "off" /\ job.attempt = 0
      /\ job.targets = {} /\ job.left = {} /\ job.failures = 0
  BY <1>1 DEF NoJob, JobFields
<1>4. \A w \in Workers : work[w].pc = "idle" BY <1>1, Shapes
<1>5. ClockOK(job, today, runs) BY <1>1, <1>2, <1>3 DEF ClockOK
<1>6. JobOK(job, messages) BY <1>2, <1>3, FS_EmptySet DEF JobOK
<1>7. HistoryOK(history, today, runs)
  <2>1. \A r \in Past : RowOK(r, today, runs)
    <3> SUFFICES ASSUME NEW r \in Past PROVE RowOK(r, today, runs) OBVIOUS
    <3>1. (runs - 1) * Week = 0 BY <1>1, <1>2
    <3>2. QED BY <1>1, <1>2, <3>1, PastAssumption DEF RowOK
  <2>2. QED BY <1>1, <2>1, PastAssumption DEF HistoryOK
<1>8. \A w \in Workers : WorkOK(w, work[w], today, runs, history, messages)
  BY <1>4 DEF WorkOK
<1>9. QED BY <1>1, <1>3, <1>4, <1>5, <1>6, <1>7, <1>8 DEF IInv, RowsApart, Workers

LEMMA StepInv == IInv /\ [Next]_vars => IInv'
<1> SUFFICES ASSUME IInv, [Next]_vars PROVE IInv' OBVIOUS
<1>1. ASSUME NEW u \in Users, SetSlackUserId(u) PROVE IInv'
  BY <1>1 DEF SetSlackUserId, IInv
<1>2. ASSUME NEW w \in Workers, Serve(w) PROVE IInv'
  BY <1>2, UpdateStep, CommitStep, GenerateReasonsStep, NotifyStep, SummaryStep
     DEF Serve
<1>3. CASE UNCHANGED vars BY <1>3 DEF vars, IInv
<1>4. QED
  BY <1>1, <1>2, <1>3, NextDayStep, ScheduleStep, TakeTargetStep, ExitStep,
     KillStep, RetryStep, RequestStep, RaiseStep, Zenon DEF Next

THEOREM Invariance == Spec => []IInv
BY InitInv, StepInv, PTL DEF Spec

-----------------------------------------------------------------------------
(* The sections of an answer *)

\* A section keeps the characters it is cut from, between one and MaxChars.
LEMMA TrimmedFits ==
    ASSUME NEW S, NEW s \in Seq(S), Len(s) > 0
    PROVE  /\ Len(Trimmed(s)) \in 1..MaxChars
           /\ \A i \in DOMAIN Trimmed(s) :
                \/ Trimmed(s)[i] = "..."
                \/ \E k \in 1..Len(s) : Trimmed(s)[i] = s[k]
<1> DEFINE T == S \cup {"..."}
           cut == SubSeq(s, 1, MaxChars - 1)
           end == LastSentence(cut)
<1>1. MaxChars \in Nat \ {0} BY RankingAssumption
<1>2. Len(s) \in Nat /\ DOMAIN s = 1..Len(s) /\ \A i \in 1..Len(s) : s[i] \in S
  BY LenProperties, ElementOfSeq
<1>3. CASE Len(s) <= MaxChars
  <2>1. Trimmed(s) = s BY <1>3 DEF Trimmed
  <2>2. QED BY <1>1, <1>2, <1>3, <2>1
<1>4. CASE ~(Len(s) <= MaxChars)
  <2>1. \A i \in 1..(MaxChars - 1) : s[i] \in S BY <1>1, <1>2, <1>4
  <2>2. ASSUME NEW n \in 0..(MaxChars - 1), NEW c, c \in Seq(S), Len(c) = n,
               \A i \in 1..n : c[i] = s[i]
        PROVE  /\ Len(Append(c, "...")) = n + 1
               /\ DOMAIN Append(c, "...") = 1..(n + 1)
               /\ \A i \in 1..(n + 1) : \/ Append(c, "...")[i] = "..."
                                        \/ Append(c, "...")[i] = s[i] /\ i <= n
    <3>1. c \in Seq(T)
      <4>1. c \in [1..n -> S] BY <2>2, LenProperties
      <4>2. c \in [1..n -> T] /\ n \in Nat BY <1>1, <4>1
      <4>3. QED BY <4>2, SeqDef
    <3>2. /\ Len(Append(c, "...")) = n + 1 /\ Append(c, "...") \in Seq(T)
          /\ \A i \in 1..n : Append(c, "...")[i] = c[i]
          /\ Append(c, "...")[n + 1] = "..."
      BY <2>2, <3>1, AppendProperties
    <3>3. DOMAIN Append(c, "...") = 1..(n + 1) BY <3>2, LenProperties
    <3>4. \A i \in 1..(n + 1) : i = n + 1 \/ i \in 1..n BY <1>1
    <3>5. QED BY <1>1, <2>2, <3>2, <3>3, <3>4
  <2>3. /\ cut \in Seq(S) /\ Len(cut) = MaxChars - 1
        /\ \A i \in 1..(MaxChars - 1) : cut[i] = s[i]
    <3>1. MaxChars - 1 \in Int /\ 1 \in Int BY <1>1
    <3>2. /\ SubSeq(s, 1, MaxChars - 1) \in Seq(S)
          /\ Len(SubSeq(s, 1, MaxChars - 1)) =
                IF 1 <= MaxChars - 1 THEN MaxChars - 1 - 1 + 1 ELSE 0
          /\ \A i \in 1..(MaxChars - 1 - 1 + 1) :
                SubSeq(s, 1, MaxChars - 1)[i] = s[1 + i - 1]
      BY <2>1, <3>1, SubSeqProperties
    <3>3. QED BY <1>1, <3>2
  <2> HIDE DEF cut
  <2>4. end \in 0..(MaxChars - 1)
    <3> DEFINE ends == {i \in DOMAIN cut : cut[i] = "."}
    <3>1. DOMAIN cut = 1..(MaxChars - 1) BY <2>3, LenProperties
    <3>2. ends \subseteq 1..(MaxChars - 1) BY <3>1
    <3>3. ends \subseteq Int /\ IsFiniteSet(ends)
      <4>1. IsFiniteSet(1..(MaxChars - 1)) BY <1>1, FS_Interval
      <4>2. IsFiniteSet(ends) BY <3>2, <4>1, FS_Subset
      <4>3. QED BY <3>2, <4>2
    <3>4. end = IF ends = {} THEN 0 ELSE Max(ends) BY DEF LastSentence
    <3> HIDE DEF ends, end
    <3>5. CASE ends = {} BY <1>1, <3>4, <3>5
    <3>6. CASE ends # {}
      <4>1. PICK m \in ends : \A x \in ends : x <= m BY <3>3, <3>6, FiniteBounds
      <4>2. \A x \in ends : m >= x BY <3>3, <4>1
      <4>3. Max(ends) \in ends BY <4>2 DEF Max
      <4>4. QED BY <1>1, <3>2, <3>4, <3>6, <4>3
    <3>7. QED BY <3>5, <3>6
  <2>5. CASE end > MaxChars \div 2 + 1
    <3> DEFINE c == SubSeq(cut, 1, end)
    <3>1. /\ SubSeq(cut, 1, end) \in Seq(S)
          /\ Len(SubSeq(cut, 1, end)) = IF 1 <= end THEN end - 1 + 1 ELSE 0
          /\ \A i \in 1..(end - 1 + 1) : SubSeq(cut, 1, end)[i] = cut[1 + i - 1]
      <4>1. \A i \in 1..end : cut[i] \in S BY <1>1, <2>1, <2>3, <2>4
      <4>2. end \in Int /\ 1 \in Int BY <2>4
      <4>3. QED BY <4>1, <4>2, SubSeqProperties
    <3>2. c \in Seq(S) /\ Len(c) = end /\ \A i \in 1..end : c[i] = s[i]
      BY <1>1, <2>3, <2>4, <3>1
    <3>3. Trimmed(s) = Append(c, "...") BY <1>4, <2>5 DEF Trimmed, cut
    <3> HIDE DEF c, end
    <3>4. /\ Len(Trimmed(s)) = end + 1 /\ DOMAIN Trimmed(s) = 1..(end + 1)
          /\ \A i \in 1..(end + 1) : \/ Trimmed(s)[i] = "..."
                                     \/ Trimmed(s)[i] = s[i] /\ i <= end
      BY <2>2, <2>4, <3>2, <3>3
    <3>5. QED BY <1>1, <1>2, <1>4, <2>4, <3>4
  <2>6. CASE ~(end > MaxChars \div 2 + 1)
    <3>1. Trimmed(s) = Append(cut, "...") BY <1>4, <2>6 DEF Trimmed, cut
    <3>2. MaxChars - 1 \in 0..(MaxChars - 1) BY <1>1
    <3>3. /\ Len(Trimmed(s)) = MaxChars /\ DOMAIN Trimmed(s) = 1..MaxChars
          /\ \A i \in 1..MaxChars : \/ Trimmed(s)[i] = "..."
                                    \/ Trimmed(s)[i] = s[i] /\ i <= MaxChars - 1
      <4>1. MaxChars - 1 + 1 = MaxChars BY <1>1
      <4>2. QED BY <2>2, <2>3, <3>1, <3>2, <4>1
    <3>4. QED BY <1>1, <1>2, <1>4, <3>3
  <2>7. QED BY <2>5, <2>6
<1>5. QED BY <1>3, <1>4

\* The first place of a marker.
LEMMA FindFirst ==
    ASSUME NEW S, NEW t \in Seq(S), NEW marker
    PROVE  /\ Find(t, marker) \in 0..Len(t)
           /\ \A i \in 1..Len(t) :
                t[i] = marker => Find(t, marker) > 0 /\ Find(t, marker) <= i
<1> DEFINE found == {i \in DOMAIN t : t[i] = marker}
<1>1. Len(t) \in Nat /\ DOMAIN t = 1..Len(t) BY LenProperties
<1>2. found \subseteq 1..Len(t) BY <1>1
<1>3. found \subseteq Int /\ IsFiniteSet(found)
  <2>1. IsFiniteSet(1..Len(t)) BY <1>1, FS_Interval
  <2>2. IsFiniteSet(found) BY <1>2, <2>1, FS_Subset
  <2>3. QED BY <1>2, <2>2
<1>4. Find(t, marker) = IF found = {} THEN 0 ELSE Min(found) BY DEF Find
<1>5. \A i \in 1..Len(t) : t[i] = marker => i \in found BY <1>1
<1> HIDE DEF found
<1>6. CASE found = {} BY <1>1, <1>4, <1>5, <1>6
<1>7. CASE found # {}
  <2>1. PICK m \in found : \A x \in found : m <= x BY <1>3, <1>7, FiniteBounds
  <2>2. /\ Min(found) \in found /\ \A x \in found : Min(found) <= x
    BY <2>1 DEF Min
  <2>3. Find(t, marker) = Min(found) BY <1>4, <1>7
  <2>4. Find(t, marker) \in 1..Len(t) BY <1>2, <2>2, <2>3
  <2>5. QED BY <1>1, <1>5, <2>2, <2>3, <2>4
<1>8. QED BY <1>6, <1>7

\* The part of a text between two places that holds neither of two markers.
LEMMA SectionFits ==
    ASSUME NEW S, NEW t \in Seq(S),
           NEW first \in 1..Len(t), NEW last \in first..Len(t),
           NEW marker, marker # "...",
           \A i \in first..last : t[i] # marker
    PROVE  LET section == Trimmed(SubSeq(t, first, last))
           IN  /\ Len(section) \in 1..MaxChars
               /\ \A i \in DOMAIN section : section[i] # marker
<1> DEFINE s == SubSeq(t, first, last)
<1>1. Len(t) \in Nat /\ \A i \in 1..Len(t) : t[i] \in S
  BY LenProperties, ElementOfSeq
<1>2. first \in Int /\ last \in Int /\ \A i \in first..last : t[i] \in S
  BY <1>1
<1>3. /\ s \in Seq(S) /\ Len(s) = last - first + 1
      /\ \A i \in 1..(last - first + 1) : s[i] = t[first + i - 1]
  BY <1>1, <1>2, SubSeqProperties
<1>4. Len(s) > 0 BY <1>1, <1>3
<1>5. \A k \in 1..Len(s) : s[k] # marker
  <2> SUFFICES ASSUME NEW k \in 1..Len(s) PROVE s[k] # marker OBVIOUS
  <2>1. first + k - 1 \in first..last /\ s[k] = t[first + k - 1] BY <1>1, <1>3
  <2>2. QED BY <2>1
<1> HIDE DEF s
<1>6. /\ Len(Trimmed(s)) \in 1..MaxChars
      /\ \A i \in DOMAIN Trimmed(s) :
            \/ Trimmed(s)[i] = "..."
            \/ \E k \in 1..Len(s) : Trimmed(s)[i] = s[k]
  BY <1>3, <1>4, TrimmedFits
<1>7. QED BY <1>5, <1>6 DEF s

LEMMA ParsedSectionsFit ==
    ASSUME NEW S, NEW t \in Seq(S), ParsedSections(t).parsed
    PROVE  LET market == ParsedSections(t).market_overview
               top == ParsedSections(t).top_commentary
               bottom == ParsedSections(t).bottom_commentary
           IN  /\ \A text \in {market, top, bottom} : Len(text) \in 1..MaxChars
               /\ \A i \in DOMAIN market : market[i] \notin {"top", "bottom"}
               /\ \A i \in DOMAIN top : top[i] # "bottom"
<1> DEFINE m == Find(t, "market")
           p == Find(t, "top")
           b == Find(t, "bottom")
           n == Len(t)
<1>1. m > 0 /\ m + 1 < p /\ p + 1 < b /\ b < n
  BY DEF ParsedSections, NoSections
<1>2. /\ ParsedSections(t).market_overview = Trimmed(SubSeq(t, m + 1, p - 1))
      /\ ParsedSections(t).top_commentary = Trimmed(SubSeq(t, p + 1, b - 1))
      /\ ParsedSections(t).bottom_commentary = Trimmed(SubSeq(t, b + 1, n))
  BY <1>1 DEF ParsedSections
<1>3. n \in Nat /\ m \in 0..n /\ p \in 0..n /\ b \in 0..n
  BY FindFirst, LenProperties
<1>4. \A i \in 1..n : /\ t[i] = "top" => p <= i
                      /\ t[i] = "bottom" => b <= i
  BY FindFirst
<1>5. m + 1 \in 1..n /\ p - 1 \in (m + 1)..n
      /\ \A i \in (m + 1)..(p - 1) : t[i] # "top" /\ t[i] # "bottom"
  <2>1. m + 1 \in 1..n /\ p - 1 \in (m + 1)..n BY <1>1, <1>3
  <2>2. \A i \in (m + 1)..(p - 1) : i \in 1..n /\ i < p /\ i < b BY <1>1, <1>3
  <2>3. \A i \in 1..n :
           (i < p => t[i] # "top") /\ (i < b => t[i] # "bottom")
    <3> SUFFICES ASSUME NEW i \in 1..n
        PROVE (i < p => t[i] # "top") /\ (i < b => t[i] # "bottom") OBVIOUS
    <3>1. (t[i] = "top" => p <= i) /\ (t[i] = "bottom" => b <= i) BY <1>4
    <3> HIDE DEF p, b, n
    <3>2. QED BY <1>3, <3>1
  <2>4. ASSUME NEW i \in (m + 1)..(p - 1) PROVE t[i] # "top" /\ t[i] # "bottom"
    <3>1. i \in 1..n /\ i < p /\ i < b BY <2>2
    <3> HIDE DEF m, p, b, n
    <3>2. QED BY <2>3, <3>1
  <2>5. QED BY <2>1, <2>4
<1>6. p + 1 \in 1..n /\ b - 1 \in (p + 1)..n
      /\ \A i \in (p + 1)..(b - 1) : t[i] # "bottom"
  BY <1>1, <1>3, <1>4
<1>7. b + 1 \in 1..n /\ n \in (b + 1)..n BY <1>1, <1>3
<1> HIDE DEF m, p, b, n
<1>8. LET market == Trimmed(SubSeq(t, m + 1, p - 1))
      IN  /\ Len(market) \in 1..MaxChars
          /\ \A i \in DOMAIN market : market[i] # "top" /\ market[i] # "bottom"
  BY <1>5, SectionFits DEF n
<1>9. LET top == Trimmed(SubSeq(t, p + 1, b - 1))
      IN  Len(top) \in 1..MaxChars /\ \A i \in DOMAIN top : top[i] # "bottom"
  BY <1>6, SectionFits DEF n
<1>10. Len(Trimmed(SubSeq(t, b + 1, n))) \in 1..MaxChars
  <2>1. /\ \A i \in 1..n : t[i] \in S
        /\ Len(SubSeq(t, b + 1, n)) > 0
        /\ SubSeq(t, b + 1, n) \in Seq(S)
    <3>1. \A i \in 1..n : t[i] \in S BY ElementOfSeq DEF n
    <3>2. b + 1 \in Int /\ n \in Int /\ \A i \in (b + 1)..n : t[i] \in S
      BY <1>3, <3>1
    <3>3. QED BY <1>1, <1>3, <3>1, <3>2, SubSeqProperties
  <2>2. QED BY <2>1, TrimmedFits
<1>11. QED BY <1>2, <1>8, <1>9, <1>10

-----------------------------------------------------------------------------
(* The rankings *)

\* The holdings ahead of a holding are fewer than all, and fewer still for one
\* that is ahead of it: Ahead is a strict order in which any two are related.
LEMMA PlaceOrder ==
    ASSUME NEW ps, NEW n \in Nat, DOMAIN ps = 1..n,
           \A i \in 1..n : ps[i].rate \in Int
    PROVE  /\ \A i \in 1..n : Place(ps, i) \in 1..n
           /\ \A i, j \in 1..n : Ahead(ps, j, i) => Place(ps, j) < Place(ps, i)
           /\ \A i, j \in 1..n : i = j \/ Ahead(ps, i, j) \/ Ahead(ps, j, i)
<1> DEFINE A(i) == {j \in DOMAIN ps : Ahead(ps, j, i)}
<1>1. IsFiniteSet(1..n) /\ Cardinality(1..n) = n BY FS_Interval
<1>2. ASSUME NEW i \in 1..n
      PROVE  /\ IsFiniteSet(A(i)) /\ Cardinality(A(i)) \in Nat
             /\ Cardinality(A(i)) < n
  <2>1. A(i) \subseteq (1..n) \ {i} BY DEF Ahead
  <2>2. IsFiniteSet((1..n) \ {i}) /\ Cardinality((1..n) \ {i}) = n - 1
    BY <1>1, FS_RemoveElement
  <2>3. IsFiniteSet(A(i)) /\ Cardinality(A(i)) <= n - 1
    BY <2>1, <2>2, FS_Subset
  <2>4. QED BY <2>3, FS_CardinalityType
<1>3. ASSUME NEW i \in 1..n, NEW j \in 1..n, Ahead(ps, j, i)
      PROVE  Cardinality(A(j)) < Cardinality(A(i))
  <2>1. A(j) \subseteq A(i) /\ j \in A(i) /\ j \notin A(j) BY <1>3 DEF Ahead
  <2>2. /\ IsFiniteSet(A(i)) /\ Cardinality(A(i)) \in Nat
        /\ Cardinality(A(j)) \in Nat
    BY <1>2
  <2> HIDE DEF A
  <2>3. Cardinality(A(j)) <= Cardinality(A(i)) /\ A(j) # A(i)
    BY <2>1, <2>2, FS_Subset
  <2>4. Cardinality(A(j)) # Cardinality(A(i)) BY <2>1, <2>2, <2>3, FS_Subset
  <2>5. QED BY <2>2, <2>3, <2>4
<1>4. \A i \in 1..n : Place(ps, i) = 1 + Cardinality(A(i)) BY DEF Place
<1>5. \A i, j \in 1..n : i = j \/ Ahead(ps, i, j) \/ Ahead(ps, j, i)
  BY DEF Ahead
<1> HIDE DEF A
<1>6. \A i \in 1..n : Place(ps, i) \in 1..n BY <1>2, <1>4
<1>7. \A i, j \in 1..n : Ahead(ps, j, i) => Place(ps, j) < Place(ps, i)
  BY <1>2, <1>3, <1>4
<1>8. QED BY <1>5, <1>6, <1>7

\* Every place is taken, by one holding; the sorted list falls in its rates.
LEMMA ByRateSorts ==
    ASSUME NEW ps, NEW n \in Nat, DOMAIN ps = 1..n,
           \A i \in 1..n : ps[i].rate \in Int
    PROVE  /\ DOMAIN ByRate(ps) = 1..n
           /\ \A k \in 1..n : \E i \in 1..n : ByRate(ps)[k] = ps[i]
           /\ \A i \in 1..n : ps[i] = ByRate(ps)[Place(ps, i)]
           /\ \A i \in 1..n : Place(ps, i) \in 1..n
           /\ \A k, l \in 1..n : k < l => ByRate(ps)[k].rate >= ByRate(ps)[l].rate
<1> DEFINE f == [i \in 1..n |-> Place(ps, i)]
           At(k) == CHOOSE i \in DOMAIN ps : Place(ps, i) = k
<1>1. /\ \A i \in 1..n : Place(ps, i) \in 1..n
      /\ \A i, j \in 1..n : Ahead(ps, j, i) => Place(ps, j) < Place(ps, i)
      /\ \A i, j \in 1..n : i = j \/ Ahead(ps, i, j) \/ Ahead(ps, j, i)
  BY PlaceOrder
<1>2. \A i, j \in 1..n : Place(ps, i) = Place(ps, j) => i = j
  <2> SUFFICES ASSUME NEW i \in 1..n, NEW j \in 1..n, i # j
               PROVE  Place(ps, i) # Place(ps, j)
    OBVIOUS
  <2>1. Place(ps, i) \in 1..n /\ Place(ps, j) \in 1..n BY <1>1
  <2>2. Place(ps, i) < Place(ps, j) \/ Place(ps, j) < Place(ps, i) BY <1>1
  <2>3. QED BY <2>1, <2>2
<1>3. f \in Surjection(1..n, 1..n)
  <2>1. f \in [1..n -> 1..n] BY <1>1
  <2>2. IsInjective(f)
    <3>1. DOMAIN f = 1..n /\ \A i \in 1..n : f[i] = Place(ps, i) OBVIOUS
    <3> HIDE DEF f
    <3>2. ASSUME NEW a \in DOMAIN f, NEW b \in DOMAIN f, f[a] = f[b]
          PROVE  a = b
      <4>1. a \in 1..n /\ b \in 1..n BY <3>1
      <4>2. Place(ps, a) = Place(ps, b) BY <3>1, <3>2, <4>1
      <4>3. QED BY <1>2, <4>1, <4>2
    <3>3. QED BY <3>2 DEF IsInjective
  <2>3. f \in Injection(1..n, 1..n) BY <2>1, <2>2 DEF Injection
  <2> HIDE DEF f
  <2>4. IsFiniteSet(1..n) /\ Cardinality(1..n) = n BY FS_Interval
  <2>5. QED BY <2>3, <2>4, FS_Injection
<1>4. \A k \in 1..n : \E i \in 1..n : Place(ps, i) = k
  BY <1>3 DEF Surjection
<1>5. \A k \in 1..n : At(k) \in 1..n /\ Place(ps, At(k)) = k BY <1>4
<1>6. DOMAIN ByRate(ps) = 1..n /\ \A k \in 1..n : ByRate(ps)[k] = ps[At(k)]
  BY DEF ByRate
<1> HIDE DEF At
<1>7. \A i \in 1..n : At(Place(ps, i)) = i BY <1>1, <1>2, <1>5
<1>8. ASSUME NEW k \in 1..n, NEW l \in 1..n, k < l
      PROVE  ps[At(k)].rate >= ps[At(l)].rate
  <2>1. Ahead(ps, At(k), At(l))
    <3>1. /\ At(k) \in 1..n /\ Place(ps, At(k)) = k
          /\ At(l) \in 1..n /\ Place(ps, At(l)) = l
      BY <1>5
    <3>2. ~Ahead(ps, At(l), At(k))
      <4>1. ~(l < k) BY <1>8
      <4>2. QED BY <1>1, <3>1, <4>1
    <3>3. At(k) # At(l) BY <1>8, <3>1
    <3>4. QED BY <1>1, <3>1, <3>2, <3>3
  <2>2. QED BY <1>5, <2>1 DEF Ahead
<1>9. QED BY <1>1, <1>5, <1>6, <1>7, <1>8

\* The two ends of the sorted list: as long as they can be, and in order.
LEMMA Performers ==
    ASSUME NEW ps, NEW n \in Nat, DOMAIN ps = 1..n, Len(ps) = n,
           \A i \in 1..n : ps[i].rate \in Int
    PROVE  LET m == IF n < TopN THEN n ELSE TopN
           IN  /\ m \in 0..n
               /\ Len(TopPerformers(ps)) = m /\ Len(BottomPerformers(ps)) = m
               /\ DOMAIN TopPerformers(ps) = 1..m
               /\ DOMAIN BottomPerformers(ps) = 1..m
               /\ \A i \in 1..m :
                    /\ TopPerformers(ps)[i] = ByRate(ps)[i]
                    /\ BottomPerformers(ps)[i] = ByRate(ps)[n - i + 1]
<1> DEFINE m == IF n < TopN THEN n ELSE TopN
           s == ByRate(ps)
           S == {s[i] : i \in 1..n}
           first == IF n > TopN THEN n - TopN + 1 ELSE 1
           tail == LastN(s, TopN)
<1>1. TopN \in Nat \ {0} BY RankingAssumption
<1>2. DOMAIN s = 1..n BY ByRateSorts
<1>3. s \in Seq(S) /\ Len(s) = n
  <2>1. s = [i \in 1..n |-> s[i]] BY <1>2 DEF ByRate
  <2> HIDE DEF s
  <2>2. s \in [1..n -> S] BY <2>1
  <2>3. s \in Seq(S) BY <2>2, SeqDef
  <2>4. Len(s) \in Nat /\ DOMAIN s = 1..Len(s) BY <2>3, LenProperties
  <2>5. QED BY <1>2, <2>3, <2>4
<1> HIDE DEF s
<1>4. \A i \in 1..n : s[i] \in S OBVIOUS
<1>5. m \in 0..n /\ first \in 1..(n + 1) /\ n - first + 1 = m BY <1>1
<1>6. /\ TopPerformers(ps) = SubSeq(s, 1, m)
      /\ BottomPerformers(ps) = Reverse(tail)
      /\ tail = SubSeq(s, first, n)
  BY <1>3 DEF TopPerformers, BottomPerformers, LastN, s
<1> HIDE DEF S, m, first, tail
<1>7. /\ SubSeq(s, 1, m) \in Seq(S)
      /\ Len(SubSeq(s, 1, m)) = m
      /\ \A i \in 1..m : SubSeq(s, 1, m)[i] = s[i]
  <2>1. m \in Int /\ 1 \in Int /\ \A i \in 1..m : s[i] \in S BY <1>4, <1>5
  <2>2. /\ SubSeq(s, 1, m) \in Seq(S)
        /\ Len(SubSeq(s, 1, m)) = IF 1 <= m THEN m - 1 + 1 ELSE 0
        /\ \A i \in 1..(m - 1 + 1) : SubSeq(s, 1, m)[i] = s[1 + i - 1]
    BY <2>1, SubSeqProperties
  <2>3. QED BY <1>5, <2>2
<1>8. /\ tail \in Seq(S) /\ Len(tail) = m
      /\ \A i \in 1..m : tail[i] = s[first + i - 1]
  <2>1. first \in Int /\ n \in Int /\ \A i \in first..n : s[i] \in S
    BY <1>4, <1>5
  <2>2. /\ SubSeq(s, first, n) \in Seq(S)
        /\ Len(SubSeq(s, first, n)) = IF first <= n THEN n - first + 1 ELSE 0
        /\ \A i \in 1..(n - first + 1) : SubSeq(s, first, n)[i] = s[first + i - 1]
    BY <2>1, SubSeqProperties
  <2>3. QED BY <1>5, <1>6, <2>2
<1>9. /\ DOMAIN Reverse(tail) = 1..m /\ Len(Reverse(tail)) = m
      /\ \A i \in 1..m : Reverse(tail)[i] = s[n - i + 1]
  <2>1. Reverse(tail) = [i \in 1..m |-> tail[(m - i) + 1]] BY <1>8 DEF Reverse
  <2>2. \A i \in 1..m : tail[(m - i) + 1] = s[n - i + 1]
    <3> SUFFICES ASSUME NEW i \in 1..m PROVE tail[(m - i) + 1] = s[n - i + 1]
      OBVIOUS
    <3>1. (m - i) + 1 \in 1..m /\ first + ((m - i) + 1) - 1 = n - i + 1
      BY <1>5
    <3>2. tail[(m - i) + 1] = s[first + ((m - i) + 1) - 1] BY <1>8, <3>1
    <3>3. QED BY <3>1, <3>2
  <2>3. \A i \in 1..m : s[n - i + 1] \in S BY <1>4, <1>5
  <2> DEFINE r == Reverse(tail)
  <2>4. DOMAIN r = 1..m /\ \A i \in 1..m : r[i] = s[n - i + 1] BY <2>1, <2>2
  <2>5. r = [i \in 1..m |-> r[i]] BY <2>1
  <2> HIDE DEF r
  <2>6. r \in [1..m -> S] BY <2>3, <2>4, <2>5
  <2>7. r \in Seq(S) /\ m \in Nat BY <1>5, <2>6, SeqDef
  <2>8. Len(r) \in Nat /\ DOMAIN r = 1..Len(r) BY <2>7, LenProperties
  <2>9. Len(r) = m BY <2>4, <2>7, <2>8
  <2>10. QED BY <2>4, <2>9 DEF r
<1>10. DOMAIN SubSeq(s, 1, m) = 1..m BY <1>7, LenProperties
<1>11. QED BY <1>5, <1>6, <1>7, <1>9, <1>10 DEF m, s

-----------------------------------------------------------------------------
(* What the report promises *)

\* The fields of the state keep their types, a worker is busy exactly while the
\* job serves a user, and (user, id) names one history row.
THEOREM TypesHold == Spec => []TypeOK
<1>1. IInv => TypeOK
  <2> SUFFICES ASSUME IInv PROVE TypeOK OBVIOUS
  <2>1. JobOK(job, messages) /\ ClockOK(job, today, runs) BY DEF IInv
  <2>2. today \in 0..MaxDays /\ MaxDays \in Nat
    BY <2>1, CalendarAssumption DEF ClockOK
  <2>3. HistoryOK(history, today, runs) BY DEF IInv
  <2>4. \A r \in history : r.id > 0 /\ r.user \in Users /\ r.day \in 0..MaxDays
    BY <2>2, <2>3 DEF HistoryOK, RowOK
  <2>5. \A w \in Workers : work[w].pc \in
            {"idle", "update", "commit", "reasons", "notify", "summary"}
    BY DEF IInv, WorkOK
  <2>6. QED BY <2>1, <2>2, <2>3, <2>4, <2>5 DEF TypeOK, JobOK, HistoryOK, IInv
<1>2. QED BY <1>1, Invariance, PTL

\* A report that has reached Slack describes a committed history row, however
\* often the job is killed or fails and starts again, for any number of users and
\* weeks: the commit of portfolio_service.py:201 comes before the post.
THEOREM ReportsAreSaved == Spec => []ReportedIsSaved
<1>1. IInv => ReportedIsSaved BY DEF IInv, MessageOK, ReportedIsSaved
<1>2. QED BY <1>1, Invariance, PTL

\* No report of the job shows a change against a row of its own run, whatever its
\* earlier attempts have committed, and none overlooks a newer row that is old
\* enough (portfolio_service.py:169-176), for any number of retries and weeks.
THEOREM ComparesWithEarlier == Spec => []NeverAgainstItself
<1>1. IInv => NeverAgainstItself
  BY DEF IInv, MessageOK, BaseOK, NeverAgainstItself
<1>2. QED BY <1>1, Invariance, PTL

\* When a process ends by itself it has counted every target without a report
\* (_runner.py:57-72), for any set of users.
THEOREM NobodyUncounted == Spec => []UnreachedAreCounted
<1>1. IInv => UnreachedAreCounted
  <2> SUFFICES ASSUME IInv, job.pc \in {"succeeded", "failed"}
               PROVE  Cardinality(job.targets \ Reached(messages)) <= job.failures
    BY DEF UnreachedAreCounted, Reached
  <2>1. JobOK(job, messages) BY DEF IInv
  <2>2. Served(job) = job.targets BY <2>1 DEF JobOK, Served
  <2>3. QED BY <2>1, <2>2 DEF JobOK
<1>2. QED BY <1>1, Invariance, PTL

\* Both rankings are in order and as long as they can be, and no holding outside
\* one belongs into it, for every list of holdings and every TopN.
THEOREM RankingsAreExtreme == Spec => []RankingsAgree
<1>1. IInv => RankingsAgree
  <2> SUFFICES ASSUME IInv, NEW w \in Workers, work[w].pc = "reasons"
               PROVE
        LET ps == work[w].ranked
            top == TopPerformers(ps)
            bottom == BottomPerformers(ps)
            n == IF Len(ps) < TopN THEN Len(ps) ELSE TopN
            Out(ranking) ==
                {ps[i] : i \in DOMAIN ps} \ {ranking[i] : i \in DOMAIN ranking}
        IN  /\ Len(top) = n /\ Len(bottom) = n
            /\ \A i, j \in 1..n : i < j =>
                    top[i].rate >= top[j].rate /\ bottom[i].rate <= bottom[j].rate
            /\ \A p \in Out(top), i \in 1..n : p.rate <= top[i].rate
            /\ \A p \in Out(bottom), i \in 1..n : p.rate >= bottom[i].rate
    BY Zenon DEF RankingsAgree
  <2> DEFINE ps == work[w].ranked
             top == TopPerformers(ps)
             bottom == BottomPerformers(ps)
             n == Len(ps)
             m == IF n < TopN THEN n ELSE TopN
             s == ByRate(ps)
  <2>1. ps \in Lists BY DEF IInv, WorkOK
  <2>2. /\ n \in Nat /\ DOMAIN ps = 1..n
        /\ \A i \in 1..n : ps[i].rate \in Int
    <3>1. ps \in Seq(ToSet(ps)) BY <2>1, ListsAssumption
    <3>2. n \in Nat /\ DOMAIN ps = 1..n BY <3>1, LenProperties
    <3>3. \A i \in 1..n : ps[i] \in ToSet(ps) BY <3>2 DEF ToSet
    <3>4. QED BY <2>1, <3>2, <3>3, ListsAssumption
  <2>3. /\ m \in 0..n /\ Len(top) = m /\ Len(bottom) = m
        /\ DOMAIN top = 1..m /\ DOMAIN bottom = 1..m
        /\ \A i \in 1..m : top[i] = s[i] /\ bottom[i] = s[n - i + 1]
    BY <2>2, Performers
  <2>4. /\ \A i \in 1..n : ps[i] = s[Place(ps, i)] /\ Place(ps, i) \in 1..n
        /\ \A k, l \in 1..n : k < l => s[k].rate >= s[l].rate
        /\ \A k \in 1..n : \E i \in 1..n : s[k] = ps[i]
    BY <2>2, ByRateSorts
  <2>5. \A k \in 1..n : s[k].rate \in Int BY <2>2, <2>4
  <2> HIDE DEF ps, top, bottom, n, m, s
  <2>6. ASSUME NEW i \in 1..m, NEW j \in 1..m, i < j
        PROVE  top[i].rate >= top[j].rate /\ bottom[i].rate <= bottom[j].rate
    <3>1. /\ i \in 1..n /\ j \in 1..n /\ n - i + 1 \in 1..n /\ n - j + 1 \in 1..n
          /\ n - j + 1 < n - i + 1
      BY <2>2, <2>3, <2>6
    <3>2. s[n - j + 1].rate >= s[n - i + 1].rate BY <2>4, <3>1
    <3>3. s[n - j + 1].rate \in Int /\ s[n - i + 1].rate \in Int BY <2>5, <3>1
    <3>4. QED BY <2>3, <2>4, <2>6, <3>1, <3>2, <3>3
  <2>7. ASSUME NEW k \in 1..n, ps[k] \notin {top[i] : i \in DOMAIN top},
               NEW i \in 1..m
        PROVE  ps[k].rate <= top[i].rate
    <3>1. Place(ps, k) \in 1..n /\ ps[k] = s[Place(ps, k)] BY <2>4
    <3>2. Place(ps, k) \notin 1..m BY <2>3, <2>7, <3>1
    <3>3. i \in 1..n /\ i < Place(ps, k) BY <2>2, <2>3, <3>1, <3>2
    <3>4. s[i].rate >= s[Place(ps, k)].rate BY <2>4, <3>1, <3>3
    <3>5. s[i].rate \in Int /\ s[Place(ps, k)].rate \in Int BY <2>5, <3>1, <3>3
    <3>6. QED BY <2>3, <3>1, <3>4, <3>5
  <2>8. ASSUME NEW k \in 1..n, ps[k] \notin {bottom[i] : i \in DOMAIN bottom},
               NEW i \in 1..m
        PROVE  ps[k].rate >= bottom[i].rate
    <3> DEFINE q == Place(ps, k)
    <3>1. q \in 1..n /\ ps[k] = s[q] BY <2>4
    <3> HIDE DEF q
    <3>2. ~(n - q + 1 \in 1..m)
      <4>1. n - (n - q + 1) + 1 = q BY <2>2, <3>1
      <4>2. QED BY <2>3, <2>8, <3>1, <4>1
    <3>3. n - i + 1 \in 1..n /\ q < n - i + 1 BY <2>2, <2>3, <3>1, <3>2
    <3>4. s[q].rate >= s[n - i + 1].rate BY <2>4, <3>1, <3>3
    <3>5. QED BY <2>3, <3>1, <3>4
  <2>9. /\ \A p \in {ps[k] : k \in DOMAIN ps} \ {top[i] : i \in DOMAIN top},
              i \in 1..m : p.rate <= top[i].rate
        /\ \A p \in {ps[k] : k \in DOMAIN ps} \ {bottom[i] : i \in DOMAIN bottom},
              i \in 1..m : p.rate >= bottom[i].rate
    BY <2>2, <2>7, <2>8
  <2>10. QED BY <2>3, <2>6, <2>9 DEF ps, top, bottom, n, m
<1>2. QED BY <1>1, Invariance, PTL

\* A report has three texts that fit or none, and no text runs into a later one,
\* for every answer of the language model, whatever order its markers come in.
THEOREM SectionsAreWhole == Spec => []SectionsFit
<1>1. IInv => SectionsFit
  <2> SUFFICES ASSUME IInv, NEW w \in Workers, work[w].pc = "notify",
                      work[w].sections.parsed
               PROVE
        LET market == work[w].sections.market_overview
            top == work[w].sections.top_commentary
            bottom == work[w].sections.bottom_commentary
        IN  /\ \A text \in {market, top, bottom} : Len(text) \in 1..MaxChars
            /\ \A i \in DOMAIN market : market[i] \notin {"top", "bottom"}
            /\ \A i \in DOMAIN top : top[i] # "bottom"
    BY Zenon DEF SectionsFit
  <2>1. work[w].sections \in {NoSections} \cup {ParsedSections(t) : t \in Answers}
    BY DEF IInv, WorkOK
  <2>2. ~NoSections.parsed BY DEF NoSections
  <2>3. PICK t \in Answers : work[w].sections = ParsedSections(t) BY <2>1, <2>2
  <2>4. t \in Seq(ToSet(t)) BY AnswersAssumption
  <2>5. ParsedSections(t).parsed BY <2>3
  <2>6. QED BY <2>3, <2>4, <2>5, ParsedSectionsFit
<1>2. QED BY <1>1, Invariance, PTL
=============================================================================
