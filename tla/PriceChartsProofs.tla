------------------------- MODULE PriceChartsProofs --------------------------
(***************************************************************************)
(* What a chart shows, for every calendar, number of points and cap, on    *)
(* every day and however late the provider is.                             *)
(***************************************************************************)
EXTENDS PriceCharts, FiniteSetTheorems, WellFoundedInduction, TLAPS

\* A set of natural numbers that is not empty has a least one.
LEMMA Least ==
    ASSUME NEW A, A \subseteq Nat, A # {}
    PROVE  \E m \in A : \A x \in A : m <= x
<1> DEFINE R == OpToRel(<, Nat)
<1>1. IsWellFoundedOn(R, Nat) BY NatLessThanWellFounded
<1>2. \A x, y \in Nat : x < y => <<x, y>> \in R BY DEF OpToRel
<1> HIDE DEF R
<1>3. PICK m \in A : \A y \in A : <<y, m>> \notin R BY <1>1, WFMin
<1>4. ASSUME NEW x \in A PROVE m <= x
  <2>1. ~(x < m) BY <1>2, <1>3
  <2>2. x \in Nat /\ m \in Nat OBVIOUS
  <2>3. QED BY <2>1, <2>2
<1>5. QED BY <1>4

\* What a day is.
LEMMA DaysAreNumbers ==
    /\ Days \subseteq Nat
    /\ \A d \in Int : d \in Days <=> EarliestDay <= d /\ d <= LastDay
  BY CalendarAssumption DEF Days

\* The lesser of two numbers.
LEMMA MinOf ==
    ASSUME NEW a \in Int, NEW b \in Int
    PROVE  /\ a <= b => Min({a, b}) = a
           /\ b <= a => Min({a, b}) = b
  BY DEF Min

\* The periods of later days are not earlier.
LEMMA PeriodGrows ==
    ASSUME NEW interval \in Intervals, NEW c \in Days, NEW d \in Days, c <= d
    PROVE  /\ Period(interval, c) \in Int /\ Period(interval, d) \in Int
           /\ Period(interval, c) <= Period(interval, d)
<1>1. c \in Nat /\ d \in Nat BY DaysAreNumbers
<1>2. CASE interval = "daily" BY <1>1, <1>2 DEF Period
<1>3. CASE interval = "weekly"
  <2>1. (c - 1) \div 7 <= (d - 1) \div 7 BY <1>1
  <2>2. QED BY <1>1, <1>3, <2>1 DEF Period
<1>4. CASE interval = "monthly" BY <1>4, MonthsAssumption DEF Period
<1>5. QED BY <1>2, <1>3, <1>4 DEF Intervals

\* So many times 31 days later it is at least so many months later.
LEMMA MonthsPass ==
    ASSUME NEW d \in Days, NEW n \in Nat, d + 31 * n \in Days
    PROVE  MonthOf[d] + n <= MonthOf[d + 31 * n]
<1> DEFINE Late(k) == MonthOf[d] + k <= MonthOf[d + 31 * k]
           A == {k \in Nat : k <= n /\ ~Late(k)}
<1>1. d \in Nat /\ d + 31 * n <= LastDay /\ LastDay \in Nat /\ EarliestDay \in Nat
      /\ EarliestDay <= d
  BY DaysAreNumbers, CalendarAssumption
<1>2. \A k \in Nat : k <= n => d + 31 * k \in Days /\ MonthOf[d + 31 * k] \in Int
  <2> SUFFICES ASSUME NEW k \in Nat, k <= n
               PROVE  d + 31 * k \in Days /\ MonthOf[d + 31 * k] \in Int
    OBVIOUS
  <2>1. d + 31 * k \in Int /\ EarliestDay <= d + 31 * k /\ d + 31 * k <= LastDay
    BY <1>1
  <2>2. d + 31 * k \in Days BY <2>1, DaysAreNumbers
  <2>3. QED BY <2>2, MonthsAssumption
<1>3. ASSUME A # {} PROVE FALSE
  <2>1. PICK m \in A : \A x \in A : m <= x BY <1>3, Least
  <2>2. m \in Nat /\ m <= n /\ ~Late(m) OBVIOUS
  <2>3. m # 0
    <3>1. d + 31 * 0 = d BY <1>1
    <3>2. MonthOf[d] \in Int BY MonthsAssumption
    <3>3. Late(0) BY <3>1, <3>2
    <3>4. QED BY <2>2, <3>3
  <2>4. m - 1 \in Nat /\ m - 1 <= n /\ ~(m <= m - 1) BY <2>2, <2>3
  <2>5. Late(m - 1) BY <2>1, <2>4
  <2> DEFINE e == d + 31 * (m - 1)
  <2>6. e + 31 = d + 31 * m BY <1>1, <2>2
  <2>7. MonthOf[e] < MonthOf[e + 31]
    <3>1. e \in Days /\ e + 31 \in Days BY <1>2, <2>2, <2>4, <2>6
    <3> HIDE DEF e
    <3>2. QED BY <3>1, MonthsAssumption
  <2>8. MonthOf[d] \in Int /\ MonthOf[e] \in Int /\ MonthOf[e + 31] \in Int
    BY <1>2, <2>2, <2>4, <2>6, MonthsAssumption
  <2>9. MonthOf[d] + (m - 1) <= MonthOf[e] BY <2>5
  <2> HIDE DEF e
  <2>10. MonthOf[d] + m <= MonthOf[e + 31] BY <2>2, <2>7, <2>8, <2>9
  <2>11. QED BY <2>2, <2>6, <2>10
<1>4. Late(n) BY <1>3
<1>5. QED BY <1>4

\* A limit is a positive number.
LEMMA LimitsAreNumbers == \A interval : Limits(interval) \subseteq Nat \ {0}
<1>1. MaxMonths \in Nat /\ MaxPoints \in Nat BY CalendarAssumption
<1>2. Min({MaxMonths, MaxPoints}) \in Nat BY <1>1, MinOf
<1>3. QED BY <1>1, <1>2 DEF Limits

\* The days gone back reach every bar of as many periods as were asked for,
\* counted from the day before today.
LEMMA WindowReaches ==
    ASSUME NEW interval \in Intervals, NEW limit \in Limits(interval),
           today \in FirstDay..LastDay,
           interval = "monthly" => limit * 31 <= MaxBack,
           NEW d \in Days,
           Period(interval, today - 1) - limit < Period(interval, d)
    PROVE  _calculate_start_date(interval, limit) <= d
<1>1. limit \in Nat \ {0} BY LimitsAreNumbers
<1>2. /\ d \in Nat /\ today - 1 \in Days /\ today - 1 \in Nat /\ today \in Nat
      /\ EarliestDay <= d
  BY CalendarAssumption, DaysAreNumbers
<1>3. CASE interval = "daily"
  <2>1. today - 1 - limit < d BY <1>3 DEF Period
  <2>2. limit <= (3 * limit) \div 2 BY <1>1
  <2>3. _calculate_start_date(interval, limit) = today - ((3 * limit) \div 2)
    BY <1>3 DEF _calculate_start_date, DaysBack
  <2>4. (3 * limit) \div 2 \in Int BY <1>1
  <2>5. QED BY <1>1, <1>2, <2>1, <2>2, <2>3, <2>4
<1>4. CASE interval = "weekly"
  <2>1. (today - 1 - 1) \div 7 - limit < (d - 1) \div 7 BY <1>4 DEF Period
  <2>2. today - limit * 7 <= d BY <1>1, <1>2, <2>1
  <2>3. _calculate_start_date(interval, limit) = today - limit * 7
    BY <1>4 DEF _calculate_start_date, DaysBack
  <2>4. QED BY <2>2, <2>3
<1>5. CASE interval = "monthly"
  <2>1. MonthOf[today - 1] - limit < MonthOf[d] BY <1>5 DEF Period
  <2>2. _calculate_start_date(interval, limit) = today - limit * 31
    <3>1. limit * 31 \in Int /\ MaxBack \in Int BY <1>1, CalendarAssumption
    <3>2. Min({limit * 31, MaxBack}) = limit * 31 BY <1>5, <3>1, MinOf
    <3>3. QED BY <1>5, <3>2 DEF _calculate_start_date, DaysBack
  <2>3. ASSUME d < today - limit * 31 PROVE FALSE
    <3> DEFINE e == today - limit * 31 - 1
    <3>1. e \in Int /\ d <= e /\ EarliestDay <= e /\ e <= today - 1
      BY <1>1, <1>2, <2>3, CalendarAssumption
    <3>2. e \in Days BY <1>2, <3>1, DaysAreNumbers, CalendarAssumption
    <3>3. e + 31 * limit = today - 1 BY <1>1, <1>2
    <3>4. MonthOf[e] + limit <= MonthOf[today - 1]
      <4>1. limit \in Nat BY <1>1
      <4> HIDE DEF e
      <4>2. MonthOf[e] + limit <= MonthOf[e + 31 * limit]
        BY <1>2, <3>2, <3>3, <4>1, MonthsPass
      <4>3. QED BY <3>3, <4>2
    <3>5. MonthOf[d] <= MonthOf[e] BY <3>1, <3>2, MonthsAssumption
    <3>6. MonthOf[d] \in Int /\ MonthOf[e] \in Int /\ MonthOf[today - 1] \in Int
      BY <1>2, <3>2, MonthsAssumption
    <3> HIDE DEF e
    <3>7. QED BY <1>1, <2>1, <3>4, <3>5, <3>6
  <2>4. QED BY <1>1, <1>2, <2>2, <2>3
<1>6. QED BY <1>3, <1>4, <1>5 DEF Intervals

-----------------------------------------------------------------------------
(* The points of a history and of its newer part. *)

\* Each bar is in the point of its period, and each point is of some bar.
LEMMA PointsAre ==
    ASSUME NEW interval, NEW S
    PROVE  /\ \A d \in S : \E p \in Points(interval, S) :
                p.period = Period(interval, d)
           /\ \A p \in Points(interval, S) :
                /\ p = [period |-> p.period,
                        bars |-> {d \in S : Period(interval, d) = p.period}]
                /\ \E d \in S : Period(interval, d) = p.period
<1> DEFINE Point(n) == [period |-> n, bars |-> {d \in S : Period(interval, d) = n}]
<1>1. Points(interval, S) = {Point(n) : n \in {Period(interval, d) : d \in S}}
  BY DEF Points
<1>2. \A n : Point(n).period = n /\ Point(n).bars = {d \in S : Period(interval, d) = n}
  OBVIOUS
<1>3. \A d \in S : Point(Period(interval, d)) \in Points(interval, S) BY <1>1
<1>4. \A p \in Points(interval, S) :
        \E d \in S : p = Point(Period(interval, d)) BY <1>1
<1> HIDE DEF Point
<1>5. \A d \in S : \E p \in Points(interval, S) : p.period = Period(interval, d)
  BY <1>2, <1>3
<1>6. ASSUME NEW p \in Points(interval, S)
      PROVE  /\ p = [period |-> p.period,
                     bars |-> {d \in S : Period(interval, d) = p.period}]
             /\ \E d \in S : Period(interval, d) = p.period
  <2>1. PICK d \in S : p = Point(Period(interval, d)) BY <1>4
  <2>2. p.period = Period(interval, d) BY <1>2, <2>1
  <2>3. QED BY <2>1, <2>2 DEF Point
<1>7. QED BY <1>5, <1>6

\* As many points as bars, at most.
LEMMA PointsFinite ==
    ASSUME NEW interval, NEW S, IsFiniteSet(S)
    PROVE  IsFiniteSet(Points(interval, S))
<1> DEFINE f == [d \in S |->
                    [period |-> Period(interval, d),
                     bars |-> {e \in S : Period(interval, e) = Period(interval, d)}]]
<1>1. Points(interval, S) = {f[d] : d \in S} BY DEF Points
<1>2. f \in Surjection(S, {f[d] : d \in S}) BY DEF Surjection
<1>3. QED BY <1>1, <1>2, FS_Surjection

\* The bars from some day on: of what is newer than one of their points they have
\* every bar, and if they have every bar of the newest points they have these.
LEMMA NewerPart ==
    ASSUME NEW interval \in Intervals, NEW S, S \subseteq Days, IsFiniteSet(S),
           NEW start \in Int, NEW limit \in Nat
    PROVE  LET part  == Points(interval, {d \in S : d >= start})
               all   == Points(interval, S)
               shown == NewestPoints(part, limit)
               due   == NewestPoints(all, limit)
           IN  /\ \A p \in shown, q \in all : q.period > p.period => q \in shown
               /\ (\A p \in due : \A d \in p.bars : start <= d) => shown = due
<1> DEFINE T == {d \in S : d >= start}
           part == Points(interval, T)
           all == Points(interval, S)
           shown == NewestPoints(part, limit)
           due == NewestPoints(all, limit)
           PartAbove(n) == {r \in part : r.period > n}
           Above(n) == {r \in all : r.period > n}
<1>1. S \subseteq Int /\ T \subseteq S BY DaysAreNumbers
<1>2. /\ \A p \in all : p = [period |-> p.period,
                              bars |-> {d \in S : Period(interval, d) = p.period}]
      /\ \A p \in part : p = [period |-> p.period,
                               bars |-> {d \in T : Period(interval, d) = p.period}]
  BY PointsAre
<1>3. /\ \A p \in all : \E d \in S : Period(interval, d) = p.period
      /\ \A p \in part : \E d \in T : Period(interval, d) = p.period
  BY PointsAre
<1>4. /\ \A d \in S : \E p \in all : p.period = Period(interval, d)
      /\ \A d \in T : \E p \in part : p.period = Period(interval, d)
  BY PointsAre
<1>5. IsFiniteSet(T) /\ IsFiniteSet(part) /\ IsFiniteSet(all)
  BY <1>1, FS_Subset, PointsFinite
<1>6. \A d \in T : d \in S /\ start <= d OBVIOUS
<1>7. \A d \in S : start <= d => d \in T BY <1>1
<1>8. /\ shown = {p \in part : Cardinality(PartAbove(p.period)) < limit}
      /\ due = {p \in all : Cardinality(Above(p.period)) < limit}
  BY DEF NewestPoints
<1>9. ASSUME NEW d \in S PROVE Period(interval, d) \in Int
  <2>1. d \in Days /\ d <= d BY <1>1
  <2>2. QED BY <2>1, PeriodGrows
<1> HIDE DEF T, part, all, shown, due
\* Points of one period are one.
<1>10. ASSUME NEW q \in part, NEW r \in part, q.period = r.period PROVE q = r
  <2>1. q = [period |-> q.period,
             bars |-> {d \in T : Period(interval, d) = q.period}]
    BY <1>2
  <2>2. r = [period |-> r.period,
             bars |-> {d \in T : Period(interval, d) = r.period}]
    BY <1>2
  <2>3. QED BY <1>10, <2>1, <2>2
\* A point of the whole is one of the part if all its bars are new.
<1>11. ASSUME NEW q \in all, \A d \in S : Period(interval, d) = q.period => start <= d
       PROVE  q \in part
  <2>1. {d \in T : Period(interval, d) = q.period}
           = {d \in S : Period(interval, d) = q.period}
    BY <1>1, <1>7, <1>11
  <2>2. PICK x \in S : Period(interval, x) = q.period BY <1>3
  <2>3. x \in T BY <1>7, <1>11, <2>2
  <2>4. PICK r \in part : r.period = q.period BY <1>4, <2>2, <2>3
  <2>5. r = q
    <3>1. q = [period |-> q.period,
               bars |-> {d \in S : Period(interval, d) = q.period}]
      BY <1>2
    <3>2. r = [period |-> r.period,
               bars |-> {d \in T : Period(interval, d) = r.period}]
      BY <1>2, <2>4
    <3>3. QED BY <2>1, <2>4, <3>1, <3>2
  <2>6. QED BY <2>4, <2>5
<1>12. ASSUME NEW p \in part, NEW q \in all, q.period > p.period PROVE q \in part
  <2>1. PICK c \in T : Period(interval, c) = p.period BY <1>3
  <2>2. ASSUME NEW d \in S, Period(interval, d) = q.period PROVE start <= d
    <3>1. c \in Int /\ d \in Int /\ start <= c /\ c \in S BY <1>1, <1>6
    <3>2. d < c => Period(interval, d) <= Period(interval, c)
      BY <3>1, PeriodGrows
    <3>3. Period(interval, c) \in Int /\ Period(interval, d) \in Int
      BY <1>9, <3>1
    <3>4. ~(d < c) BY <1>12, <2>1, <2>2, <3>2, <3>3
    <3>5. QED BY <3>1, <3>4
  <2>3. QED BY <1>11, <2>2
<1>13. ASSUME NEW p \in part PROVE PartAbove(p.period) = Above(p.period)
  <2>1. ASSUME NEW r \in all, r.period > p.period PROVE r \in part
    BY <1>12, <2>1
  <2>2. ASSUME NEW r \in part, r.period > p.period PROVE r \in all
    <3>1. PICK d \in T : Period(interval, d) = r.period BY <1>3
    <3>2. PICK q \in all : q.period = r.period BY <1>4, <1>6, <3>1
    <3>3. q \in part BY <1>12, <2>2, <3>2
    <3>4. q = r BY <1>10, <3>2, <3>3
    <3>5. QED BY <3>2, <3>4
  <2>3. QED BY <2>1, <2>2
<1>14. /\ \A p \in part : p.period \in Int
       /\ \A p \in all : p.period \in Int
  BY <1>3, <1>6, <1>9
<1>15. ASSUME NEW p \in shown, NEW q \in all, q.period > p.period PROVE q \in shown
  <2>1. p \in part /\ Cardinality(PartAbove(p.period)) < limit BY <1>8
  <2>2. q \in part BY <1>12, <1>15, <2>1
  <2>3. PartAbove(q.period) \subseteq PartAbove(p.period)
    BY <1>14, <1>15, <2>1, <2>2
  <2>4. IsFiniteSet(PartAbove(p.period)) BY <1>5, FS_Subset
  <2>5. /\ Cardinality(PartAbove(q.period)) <= Cardinality(PartAbove(p.period))
        /\ IsFiniteSet(PartAbove(q.period))
    BY <2>3, <2>4, FS_Subset
  <2>6. /\ Cardinality(PartAbove(q.period)) \in Nat
        /\ Cardinality(PartAbove(p.period)) \in Nat
    BY <2>4, <2>5, FS_CardinalityType
  <2> HIDE DEF PartAbove
  <2>7. Cardinality(PartAbove(q.period)) < limit BY <2>1, <2>5, <2>6
  <2>8. QED BY <1>8, <2>2, <2>7
<1>16. ASSUME \A p \in due : \A d \in p.bars : start <= d PROVE shown = due
  <2>1. ASSUME NEW q \in due PROVE q \in part
    <3>1. q \in all BY <1>8
    <3>2. q.bars = {d \in S : Period(interval, d) = q.period} BY <1>2, <3>1
    <3>3. \A d \in S : Period(interval, d) = q.period => start <= d
      BY <1>16, <3>2
    <3>4. QED BY <1>11, <3>1, <3>3
  <2>2. ASSUME NEW q \in due PROVE q \in shown
    BY <1>8, <1>13, <2>1
  <2>3. ASSUME NEW p \in shown PROVE p \in due
    <3>1. p \in part /\ Cardinality(Above(p.period)) < limit BY <1>8, <1>13
    <3>2. PICK q \in all : q.period = p.period BY <1>3, <1>4, <1>6, <3>1
    <3>3. q \in due BY <1>8, <3>1, <3>2
    <3>4. q = p BY <1>10, <2>1, <3>1, <3>2, <3>3
    <3>5. QED BY <3>3, <3>4
  <2>4. QED BY <2>2, <2>3
<1>17. QED BY <1>15, <1>16 DEF T, part, all, shown, due

\* No more points than were asked for: all but the oldest are newer than it, and
\* fewer than that many are.
LEMMA AtMostLimit ==
    ASSUME NEW interval \in Intervals, NEW S, S \subseteq Days, IsFiniteSet(S),
           NEW limit \in Nat
    PROVE  Cardinality(NewestPoints(Points(interval, S), limit)) <= limit
<1> DEFINE all == Points(interval, S)
           shown == NewestPoints(all, limit)
           Above(p) == {q \in all : q.period > p.period}
           Rest(p) == limit - Cardinality(Above(p))
           A == {Rest(p) : p \in shown}
<1> SUFFICES Cardinality(shown) <= limit OBVIOUS
<1>1. /\ \A p \in all : p = [period |-> p.period,
                              bars |-> {d \in S : Period(interval, d) = p.period}]
      /\ \A p \in all : \E d \in S : Period(interval, d) = p.period
  BY PointsAre
<1>2. IsFiniteSet(all) BY PointsFinite
<1>3. shown = {p \in all : Cardinality(Above(p)) < limit} BY DEF NewestPoints
<1>4. ASSUME NEW p \in all PROVE p.period \in Int
  <2>1. PICK d \in S : Period(interval, d) = p.period BY <1>1
  <2>2. d \in Days /\ d <= d BY DaysAreNumbers
  <2>3. QED BY <2>1, <2>2, PeriodGrows
<1> HIDE DEF all
<1>5. ASSUME NEW p \in all
      PROVE  IsFiniteSet(Above(p)) /\ Cardinality(Above(p)) \in Nat
  BY <1>2, FS_Subset, FS_CardinalityType
<1>6. shown \subseteq all BY <1>3
<1> HIDE DEF shown
<1>7. CASE shown = {} BY <1>7, FS_EmptySet
<1>8. CASE shown # {}
  <2>1. A \subseteq Nat /\ A # {}
    <3>1. ASSUME NEW p \in shown PROVE Rest(p) \in Nat
      <4>1. p \in all /\ Cardinality(Above(p)) < limit BY <1>3
      <4>2. Cardinality(Above(p)) \in Nat BY <1>5, <4>1
      <4> HIDE DEF Above
      <4>3. QED BY <4>1, <4>2
    <3> HIDE DEF Rest
    <3>2. QED BY <1>8, <3>1
  <2>2. PICK m \in A : \A x \in A : m <= x BY <2>1, Least
  <2>3. PICK p \in shown : m = Rest(p) BY <2>2
  <2>4. p \in all /\ Cardinality(Above(p)) < limit BY <1>3
  <2>5. ASSUME NEW q \in shown, q # p PROVE q \in Above(p)
    <3>1. q \in all BY <1>6
    <3>2. Rest(p) <= Rest(q) BY <2>2, <2>3
    <3>3. Cardinality(Above(q)) <= Cardinality(Above(p))
      <4>1. Cardinality(Above(q)) \in Nat /\ Cardinality(Above(p)) \in Nat
        BY <1>5, <2>4, <3>1
      <4> HIDE DEF Above
      <4>2. QED BY <3>2, <4>1
    <3>4. q.period # p.period
      <4>1. p = [period |-> p.period,
                 bars |-> {d \in S : Period(interval, d) = p.period}]
        BY <1>1, <2>4
      <4>2. q = [period |-> q.period,
                 bars |-> {d \in S : Period(interval, d) = q.period}]
        BY <1>1, <3>1
      <4>3. QED BY <2>5, <4>1, <4>2
    <3>5. ASSUME q.period < p.period PROVE FALSE
      <4>1. /\ Above(p) \subseteq Above(q) /\ p \in Above(q) /\ p \notin Above(p)
        BY <1>4, <2>4, <3>1, <3>5
      <4>2. IsFiniteSet(Above(q)) BY <1>5, <3>1
      <4> HIDE DEF Above
      <4>3. /\ Cardinality(Above(p)) <= Cardinality(Above(q))
            /\ Cardinality(Above(p)) = Cardinality(Above(q))
                  => Above(p) = Above(q)
        BY <4>1, <4>2, FS_Subset
      <4>4. Cardinality(Above(q)) \in Nat /\ Cardinality(Above(p)) \in Nat
        BY <1>5, <2>4, <3>1
      <4>5. QED BY <3>3, <4>1, <4>3, <4>4
    <3>6. p.period \in Int /\ q.period \in Int BY <1>4, <2>4, <3>1
    <3>7. QED BY <3>1, <3>4, <3>5, <3>6
  <2>6. IsFiniteSet(shown) BY <1>2, <1>6, FS_Subset
  <2>7. IsFiniteSet(Above(p)) /\ Cardinality(Above(p)) \in Nat BY <1>5, <2>4
  <2>8. shown \ {p} \subseteq Above(p) BY <2>5
  <2> HIDE DEF Above
  <2>9. Cardinality(shown \ {p}) <= Cardinality(Above(p)) BY <2>7, <2>8, FS_Subset
  <2>10. Cardinality(shown \ {p}) = Cardinality(shown) - 1
    BY <2>3, <2>6, FS_RemoveElement
  <2>11. Cardinality(shown) \in Nat BY <2>6, FS_CardinalityType
  <2>12. QED BY <2>4, <2>7, <2>9, <2>10, <2>11
<1>9. QED BY <1>7, <1>8

-----------------------------------------------------------------------------

ChartInv ==
    /\ TypeOK
    /\ open \subseteq Days /\ IsFiniteSet(open)
    /\ ChartPeriodsWhole

LEMMA ChartInvInit == Init => ChartInv
<1> SUFFICES ASSUME Init PROVE ChartInv OBVIOUS
<1>1. TypeOK BY CalendarAssumption DEF Init, TypeOK
<1>2. open \subseteq Days BY CalendarAssumption DEF Init
<1>3. IsFiniteSet(open)
  <2>1. IsFiniteSet(Days) BY CalendarAssumption, FS_Interval DEF Days
  <2>2. QED BY <1>2, <2>1, FS_Subset
<1>4. ChartPeriodsWhole BY DEF Init, ChartPeriodsWhole
<1>5. QED BY <1>1, <1>2, <1>3, <1>4 DEF ChartInv

\* What is answered now is whole.
LEMMA AnswerIsWhole ==
    ASSUME ChartInv, NEW interval \in Intervals, NEW limit \in Limits(interval),
           GetPriceHistory(interval, limit)
    PROVE  ChartPeriodsWhole' /\ TypeOK'
<1> DEFINE start == _calculate_start_date(interval, limit)
           all == Points(interval, History)
           due == NewestPoints(all, limit)
           shown == NewestPoints(Points(interval, {d \in History : d >= start}), limit)
           back == Period(interval, today - 1) - limit
<1>1. History \subseteq Days /\ IsFiniteSet(History) /\ History \subseteq open
  <2>1. History \subseteq open BY DEF History
  <2>2. QED BY <2>1, FS_Subset DEF ChartInv
<1>2. limit \in Nat BY LimitsAreNumbers
<1>3. start \in Int
  <2>1. limit * 31 \in Int /\ MaxBack \in Int /\ today \in Int
    BY <1>2, CalendarAssumption DEF ChartInv, TypeOK
  <2>2. Min({limit * 31, MaxBack}) \in Int BY <2>1, MinOf
  <2>3. (3 * limit) \div 2 \in Int /\ limit * 7 \in Int BY <1>2
  <2>4. DaysBack(interval, limit) \in Int BY <2>2, <2>3 DEF DaysBack, Intervals
  <2>5. QED BY <2>1, <2>4 DEF _calculate_start_date
<1>4. /\ \A p \in shown, q \in all : q.period > p.period => q \in shown
      /\ (\A p \in due : \A d \in p.bars : start <= d) => shown = due
  <2> HIDE DEF start
  <2>1. QED BY <1>1, <1>2, <1>3, NewerPart
<1>5. ASSUME interval = "monthly" => limit * 31 <= MaxBack,
             \A p \in due : p.period > back
      PROVE  shown = due
  <2>1. ASSUME NEW p \in due, NEW d \in p.bars PROVE start <= d
    <3>1. p \in all BY DEF NewestPoints
    <3>2. p.bars = {e \in History : Period(interval, e) = p.period}
      BY <3>1, PointsAre
    <3>3. d \in Days /\ Period(interval, d) = p.period BY <1>1, <2>1, <3>2
    <3>4. today - 1 \in Days /\ today - 1 <= today - 1
      BY CalendarAssumption, DaysAreNumbers DEF ChartInv, TypeOK
    <3>5. /\ Period(interval, today - 1) \in Int /\ Period(interval, d) \in Int
      <4>1. d <= d BY <3>3, DaysAreNumbers
      <4>2. QED BY <3>3, <3>4, <4>1, PeriodGrows
    <3>6. back < Period(interval, d) BY <1>2, <1>5, <3>3, <3>5
    <3>7. QED BY <1>5, <3>3, <3>6, WindowReaches DEF ChartInv, TypeOK
  <2>2. QED BY <1>4, <2>1
<1>6. /\ chart' = [interval |-> interval, limit |-> limit, points |-> shown]
      /\ UNCHANGED <<today, published, open>>
  BY DEF GetPriceHistory
<1>7. History' = History BY <1>6 DEF History
<1>8. Whole' = Points(chart'.interval, History') BY DEF Whole
<1> HIDE DEF start, shown
<1>9. chart'.interval = interval /\ chart'.limit = limit /\ chart'.points = shown
  BY <1>6
<1>10. Whole' = all BY <1>7, <1>8, <1>9
<1> HIDE DEF all
<1>11. ChartPeriodsWhole'
  BY <1>4, <1>5, <1>6, <1>9, <1>10 DEF ChartPeriodsWhole
<1>12. Cardinality(shown) <= limit
  <2>1. {d \in History : d >= start} \subseteq Days BY <1>1
  <2>2. IsFiniteSet({d \in History : d >= start}) BY <1>1, FS_Subset
  <2>3. QED BY <1>2, <2>1, <2>2, AtMostLimit DEF shown
<1>13. ASSUME NEW p \in shown PROVE p.bars # {} /\ p.bars \subseteq History
  <2> DEFINE T == {d \in History : d >= start}
  <2>1. p \in Points(interval, T) BY DEF shown, NewestPoints
  <2>2. /\ p.bars = {d \in T : Period(interval, d) = p.period}
        /\ \E d \in T : Period(interval, d) = p.period
    <3> HIDE DEF T
    <3>1. p = [period |-> p.period,
               bars |-> {d \in T : Period(interval, d) = p.period}]
      BY <2>1, PointsAre
    <3>2. QED BY <2>1, <3>1, PointsAre
  <2>3. QED BY <2>2
<1>14. TypeOK'
  BY <1>6, <1>7, <1>9, <1>12, <1>13 DEF TypeOK, ChartInv
<1>15. QED BY <1>11, <1>14

LEMMA ChartInvStep == ChartInv /\ [Next]_vars => ChartInv'
<1> SUFFICES ASSUME ChartInv, [Next]_vars PROVE ChartInv' OBVIOUS
<1>1. ASSUME NEW interval \in Intervals, NEW limit \in Limits(interval),
             GetPriceHistory(interval, limit)
      PROVE  ChartInv'
  <2>1. UNCHANGED <<today, published, open>> BY <1>1 DEF GetPriceHistory
  <2>2. ChartPeriodsWhole' /\ TypeOK' BY <1>1, AnswerIsWhole
  <2>3. QED BY <2>1, <2>2 DEF ChartInv
<1>2. CASE Publish
  <2>1. ChartPeriodsWhole' BY <1>2 DEF Publish, ChartPeriodsWhole
  <2>2. QED BY <1>2, <2>1, CalendarAssumption DEF Publish, ChartInv, TypeOK
<1>3. CASE NextDay
  <2>1. ChartPeriodsWhole' BY <1>3 DEF NextDay, ChartPeriodsWhole
  <2>2. QED BY <1>3, <2>1, CalendarAssumption DEF NextDay, ChartInv, TypeOK
<1>4. CASE UNCHANGED vars
  BY <1>4 DEF vars, ChartInv, ChartPeriodsWhole, Whole, History, TypeOK
<1>5. QED BY <1>1, <1>2, <1>3, <1>4 DEF Next

\* Whatever the calendar, the number of points asked for, the cap and the lag of
\* the provider: the newer part of a chart has no hole and no cut point, and it is
\* all that was asked for where the days gone back suffice for it.
THEOREM ChartsAreWhole == Spec => []ChartPeriodsWhole
<1>1. ChartInv => ChartPeriodsWhole BY DEF ChartInv
<1>2. QED BY <1>1, ChartInvInit, ChartInvStep, PTL DEF Spec

\* Types, and: a chart has no more points than were asked for, none of them empty,
\* and shows no bar that the provider has not published.
THEOREM TypesHold == Spec => []TypeOK
<1>1. ChartInv => TypeOK BY DEF ChartInv
<1>2. QED BY <1>1, ChartInvInit, ChartInvStep, PTL DEF Spec

=============================================================================
