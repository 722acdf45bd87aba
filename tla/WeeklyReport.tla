---------------------------- MODULE WeeklyReport ----------------------------
(***************************************************************************)
(* PortfolioService.update_and_notify, run for every user with a Slack id  *)
(* by the weekly job (jobs/update_and_notify.py) and for its own user by   *)
(* POST /portfolio/update-and-notify.  The history row is committed before *)
(* the language model is asked and the report posted; the job retries as a *)
(* whole.  Slack and the language model are external.                      *)
(***************************************************************************)
EXTENDS JobRunner, WeeklyRanking

CONSTANTS
    Week,           \* days between two runs of the job
    Lookback,       \* a row that old is "last week's": 6 of 7 days
    Lists,          \* sequences of performances that may be calculated
    Linked,         \* users with a Slack id from the start
    Callers,        \* users who call the route, on one of
    CallDays,
    Past,           \* history rows of the first week
    Answers,        \* texts of the language model
    MaxDays, MaxRequests

\* What is called last week's is more than a day old and less than a week.
ASSUME CalendarAssumption ==
    Week \in Nat /\ Lookback \in 2..(Week - 1) /\ MaxDays \in Nat /\ Week <= MaxDays

\* The rows the first week left, written by its run of the job or by the route.
ASSUME PastAssumption ==
    /\ IsFiniteSet(Past)
    /\ \A r \in Past :
        /\ r.id \in Nat \ {0} /\ r.user \in Users /\ r.day \in 0..Week
        /\ r.by \in {"job", "route"} /\ r.run \in 0..1
    /\ \A r1, r2 \in Past : r1.user = r2.user /\ r1.id = r2.id => r1 = r2

ASSUME ListsAssumption ==
    \A ps \in Lists : ps \in Seq(ToSet(ps)) /\ \A p \in ToSet(ps) : p.rate \in Int

ASSUME AnswersAssumption == \A text \in Answers : text \in Seq(ToSet(text))

VARIABLES
    today,
    runs,           \* number of the current run of the job, as history
    slack,          \* users.slack_user_id is not NULL
    history,        \* committed rows of portfolio_history
    work,           \* per worker: the session that serves one user
    messages,       \* reports Slack delivered since the last start of the process
    requests        \* calls of the route so far

vars == <<job, today, runs, slack, history, work, messages, requests>>

Workers == {"job", "route"}
NoRow == [id |-> 0]
NoWork == [pc |-> "idle"]

\* The first run is over; the second is due.
Init ==
    /\ job = NoJob
    /\ today = Week
    /\ runs = 1
    /\ slack = [u \in Users |-> u \in Linked]
    /\ history = Past
    /\ work = [w \in Workers |-> NoWork]
    /\ messages = {}
    /\ requests = 0

-----------------------------------------------------------------------------
(* The days and the job.                                                   *)

Targets == {u \in Users : slack[u]}

StartDay == (runs - 1) * Week

\* A session is closed, and a run of the job is over, on the day it was opened
\* or on the next.
NextDay ==
    /\ today < MaxDays
    /\ \A w \in Workers : work[w].pc # "idle" => work[w].since = today
    /\ ~JobOver => today = StartDay
    /\ today' = today + 1
    /\ UNCHANGED <<job, runs, slack, history, work, messages, requests>>

\* The job of a week is over, with its retry, before the next one.
Schedule ==
    /\ today = runs * Week
    /\ StartJob(Targets)
    /\ runs' = runs + 1
    /\ messages' = {}
    /\ UNCHANGED <<today, slack, history, work, requests>>

\* PUT /users/me/slack-user-id sets an id; none is ever removed.
SetSlackUserId(u) ==
    /\ ~slack[u]
    /\ slack' = [slack EXCEPT ![u] = TRUE]
    /\ UNCHANGED <<job, today, runs, history, work, messages, requests>>

Opened(u) ==
    [pc |-> "update", user |-> u, since |-> today, row |-> NoRow, base |-> NoRow,
     ranked |-> <<>>, sections |-> NoSections, sent |-> FALSE]

\* The session of the next user, or the end of the process.
TakeTarget ==
    /\ TakeUser
    /\ work' = [work EXCEPT !["job"] = Opened(job'.user)]
    /\ UNCHANGED <<today, runs, slack, history, messages, requests>>

Exit ==
    /\ ExitJob
    /\ UNCHANGED <<today, runs, slack, history, work, messages, requests>>

\* What the session of the user had not committed is lost with the process.
Kill ==
    /\ KillJob
    /\ work' = [work EXCEPT !["job"] = NoWork]
    /\ UNCHANGED <<today, runs, slack, history, messages, requests>>

Retry ==
    /\ RetryJob(Targets)
    /\ messages' = IF JobOver' THEN messages ELSE {}
    /\ UNCHANGED <<today, runs, slack, history, work, requests>>

Request(u) ==
    /\ u \in Callers /\ today \in CallDays
    /\ work["route"] = NoWork
    /\ requests < MaxRequests
    /\ requests' = requests + 1
    /\ work' = [work EXCEPT !["route"] = Opened(u)]
    /\ UNCHANGED <<job, today, runs, slack, history, messages>>

-----------------------------------------------------------------------------
(* update_and_notify.                                                      *)

\* The runner of a job that looks for an exception only.
FinishUnlessRaised(w, succeeded) ==
    /\ work' = [work EXCEPT ![w] = NoWork]
    /\ IF w = "job" THEN UserDone(TRUE, {}) ELSE UNCHANGED job

\* The result of the action, or an exception of it, ends the session: the job
\* counts it, the route answers.
Finish(w, succeeded) ==
    /\ work' = [work EXCEPT ![w] = NoWork]
    /\ IF w = "job" THEN UserDone(succeeded, {}) ELSE UNCHANGED job

\* Any statement, or the calculation of a holding, may raise: the session is
\* rolled back.
Raise(w) ==
    /\ work[w].pc \in {"update", "commit", "notify", "summary"}
    /\ Finish(w, FALSE)
    /\ UNCHANGED <<today, runs, slack, history, messages, requests>>

RowsInWork(user) ==
    {work[w].row : w \in {v \in Workers : work[v].pc # "idle" /\ work[v].user = user}}
Ids(user) ==
    {0} \union {r.id : r \in {h \in history : h.user = user} \union RowsInWork(user)}

\* id stands for history_id and for the time of the row.
NewRow(w) ==
    [id |-> 1 + Max(Ids(work[w].user)), user |-> work[w].user, day |-> today,
     by |-> w, run |-> runs]

Newest(rows) ==
    IF rows = {} THEN NoRow
    ELSE CHOOSE r \in rows : \A other \in rows : other.id <= r.id

\* prev_query: the newest row at least Lookback old.
PreviousEver(user) == Newest({r \in history : r.user = user})
Previous(user) ==
    Newest({r \in history : r.user = user /\ r.day <= today - Lookback})

\* Holdings revalued, history row flushed, last week's row read, rankings made.
Update(w) ==
    /\ work[w].pc = "update"
    /\ \E ps \in Lists :
        work' = [work EXCEPT ![w] =
                    [@ EXCEPT !.pc = "commit", !.row = NewRow(w),
                              !.base = Previous(work[w].user), !.ranked = ps]]
    /\ UNCHANGED <<job, today, runs, slack, history, messages, requests>>

\* The commit of line 201; the connection is given back.
NoCommit(w) ==
    /\ work[w].pc = "commit"
    /\ work' = [work EXCEPT ![w].pc = "reasons"]
    /\ UNCHANGED <<job, today, runs, slack, history, messages, requests>>
Commit(w) ==
    /\ work[w].pc = "commit"
    /\ history' = history \union {work[w].row}
    /\ work' = [work EXCEPT ![w].pc = "reasons"]
    /\ UNCHANGED <<job, today, runs, slack, messages, requests>>

GenerateReasons(w) ==
    /\ work[w].pc = "reasons"
    /\ \E sections \in ChangeReasons(TopPerformers(work[w].ranked),
                                     BottomPerformers(work[w].ranked), Answers) :
        work' = [work EXCEPT ![w] =
                    [@ EXCEPT !.pc = "notify", !.sections = sections,
                              !.ranked = <<>>]]
    /\ UNCHANGED <<job, today, runs, slack, history, messages, requests>>

Report(w) ==
    [user |-> work[w].user, by |-> w, row |-> work[w].row, base |-> work[w].base]

Notified(w, answered) ==
    [Opened(work[w].user) EXCEPT !.pc = "summary", !.since = work[w].since,
                                 !.sent = answered]

\* send_weekly_summary_notification: not configured, no id, no channel or a
\* refused post; a post whose answer is lost; a post.
Notify(w) ==
    /\ work[w].pc = "notify"
    /\ \/ /\ work' = [work EXCEPT ![w] = Notified(w, FALSE)]
          /\ UNCHANGED messages
       \/ /\ slack[work[w].user]
          /\ messages' = messages \union {Report(w)}
          /\ \E answered \in BOOLEAN :
                work' = [work EXCEPT ![w] = Notified(w, answered)]
    /\ UNCHANGED <<job, today, runs, slack, history, requests>>

\* get_portfolio_summary on a new connection, and the last commit.
Summary(w) ==
    /\ work[w].pc = "summary"
    /\ Finish(w, work[w].sent)
    /\ UNCHANGED <<today, runs, slack, history, messages, requests>>

-----------------------------------------------------------------------------

Serve(w) ==
    Update(w) \/ Commit(w) \/ GenerateReasons(w) \/ Notify(w) \/ Summary(w)

Next ==
    \/ NextDay \/ Schedule \/ TakeTarget \/ Exit \/ Kill \/ Retry
    \/ \E u \in Users : SetSlackUserId(u) \/ Request(u)
    \/ \E w \in Workers : Serve(w) \/ Raise(w)

Spec == Init /\ [][Next]_vars

\* The process works whenever it can, every external call has a time limit, and
\* Cloud Run starts the retry.
Fairness == WF_vars(TakeTarget \/ Exit \/ Retry \/ Serve("job"))

FairSpec == Spec /\ Fairness

-----------------------------------------------------------------------------
(* Properties *)

TypeOK ==
    /\ job.pc \in {"off", "choose", "user", "succeeded", "failed", "killed", "lost"}
    /\ job.attempt \in 0..(MaxRetries + 1)
    /\ job.left \subseteq job.targets /\ job.targets \subseteq Users
    /\ job.failures \in 0..Cardinality(job.targets)
    /\ today \in 0..MaxDays
    /\ \A r \in history : r.id > 0 /\ r.user \in Users /\ r.day \in 0..MaxDays
    /\ \A w \in Workers : work[w].pc \in
        {"idle", "update", "commit", "reasons", "notify", "summary"}
    /\ (job.pc = "user") <=> (work["job"].pc # "idle")
    /\ \A r1, r2 \in history : r1.user = r2.user /\ r1.id = r2.id => r1 = r2

\* A report that has reached Slack describes a history row that is committed,
\* whatever fails or is killed afterwards (portfolio_service.py:201 before 205).
ReportedIsSaved == \A m \in messages : m.row \in history

\* The change a report of the job shows is against a row of an earlier run: the
\* row the first attempt committed before it failed is not last week's for the
\* retry (portfolio_service.py:169).  Of the rows that are old enough there is none
\* newer, and a report shows no change only if there is none at all.
NeverAgainstItself ==
    \A m \in messages :
        /\ m.base # NoRow =>
            /\ m.base.user = m.user
            /\ m.by = "job" /\ m.base.by = "job" => m.base.run < m.row.run
        /\ \A r \in history :
            r.user = m.user /\ r.day <= m.row.day - Lookback => r.id <= m.base.id

\* When an attempt ends by itself, every target its report did not reach has
\* been counted (_runner.py:57-72): exit code 0 means that all were delivered,
\* and the failure of one user keeps no report from another.
UnreachedAreCounted ==
    job.pc \in {"succeeded", "failed"} =>
        LET reached == {m.user : m \in {n \in messages : n.by = "job"}}
        IN  Cardinality(job.targets \ reached) <= job.failures

\* Both rankings are as long as they can be, each in its order, and no holding
\* outside a ranking belongs into it (weekly_performance_service.py:150-157).
RankingsAgree ==
    \A w \in Workers :
        work[w].pc = "reasons" =>
            LET ps == work[w].ranked
                top == TopPerformers(ps)
                bottom == BottomPerformers(ps)
                n == IF Len(ps) < TopN THEN Len(ps) ELSE TopN
                Out(ranking) == {ps[i] : i \in DOMAIN ps} \ {ranking[i] : i \in DOMAIN ranking}
            IN  /\ Len(top) = n /\ Len(bottom) = n
                /\ \A i, j \in 1..n : i < j =>
                        top[i].rate >= top[j].rate /\ bottom[i].rate <= bottom[j].rate
                /\ \A p \in Out(top), i \in 1..n : p.rate <= top[i].rate
                /\ \A p \in Out(bottom), i \in 1..n : p.rate >= bottom[i].rate

\* A report has all three texts of an answer or none, none empty or longer than
\* a block of the message may be, and none runs over into a later section,
\* whatever order the markers came in (change_reason_service.py:119-140).
SectionsFit ==
    \A w \in Workers :
        work[w].pc = "notify" /\ work[w].sections.parsed =>
            LET market == work[w].sections.market_overview
                top == work[w].sections.top_commentary
                bottom == work[w].sections.bottom_commentary
            IN  /\ \A text \in {market, top, bottom} : Len(text) \in 1..MaxChars
                /\ \A i \in DOMAIN market : market[i] \notin {"top", "bottom"}
                /\ \A i \in DOMAIN top : top[i] # "bottom"

\* A run of the job ends, with or without success, whatever fails
\* (cloud_run_jobs.tf:13-14).
RunEnds == ~JobOver ~> JobOver

=============================================================================
