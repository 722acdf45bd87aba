------------------------------ MODULE MCWeekly ------------------------------
(***************************************************************************)
(* Two users, a weekly run that may fail once, and one call of the route.  *)
(***************************************************************************)
EXTENDS WeeklyReport

Performance(symbol, rate) == [symbol |-> symbol, rate |-> rate]

\* Fewer than a ranking holds, and more, with a tie.
MCLists ==
    {<<Performance("a", 3)>>,
     <<Performance("a", 1), Performance("b", 2), Performance("c", 4),
       Performance("d", 2)>>}

\* A complete answer with a text that is too long and a marker twice, one with
\* two markers in the wrong order, and one with an empty section.
MCAnswers ==
    {<<"x", "market", "x", "x", ".", "x", "x", "top", "x", "top", "bottom", "x",
       "x", "x", "x", "x">>,
     <<"market", "x", "bottom", "x", "top", "x">>,
     <<"market", "x", "top", "bottom", "x">>}

\* Ann's report of the first week, and a call of hers on the day before the
\* second run; Bob has no history.
MCPast ==
    {[id |-> 1, user |-> "ann", day |-> 0, by |-> "job", run |-> 1],
     [id |-> 2, user |-> "ann", day |-> Week - 1, by |-> "route", run |-> 1]}

=============================================================================
