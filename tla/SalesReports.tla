----------------------------- MODULE SalesReports -----------------------------
(***************************************************************************)
(* The two dashboards of the sales: results, chart and funnel of a period  *)
(* (dashboard-overview.report.ts), and what was closed in it by warehouse, *)
(* staff and channel (dashboard-sales.report.ts).  A request fixes its     *)
(* period, and its queries run beside one another while orders go on.      *)
(* Quantities, costs and discounts are summed as revenue is, and left out. *)
(***************************************************************************)
EXTENDS Integers, Sequences, FiniteSets, Functions

CONSTANTS
    Orders,
    KindOf,         \* what each of them is: see KindType
    Locations,
    Staff,
    MonthStart,     \* the hour at which each month begins, from January 2022 on
    Moments,        \* the hours at which anything happens, in order
    Customs,        \* the periods asked for by their days, the last included
    Views           \* the warehouses and the channel that may be asked for

VARIABLES
    order,          \* orders
    past,           \* how many of the Moments are over
    req,            \* the request under way
    told            \* history: its answer, until something changes

vars == <<order, past, req, told>>

Never == -1
Unknown == -1
Nobody == "nobody"
KindType == [location : Locations, staff : Staff \union {Nobody}, channel : {"pos", "web"},
             sapo : BOOLEAN, total : Nat, refunded : Nat, ofChannel : Nat \union {Unknown}]

None == [status |-> "none"]
Idle == [pc |-> "idle"]
Nothing == [of |-> "nothing"]
now == Moments[past]

Init ==
    /\ order = [o \in Orders |-> None]
    /\ past = 1
    /\ req = Idle /\ told = Nothing

-----------------------------------------------------------------------------
(* The orders, and the clock.                                              *)

\* Bound: one change while a request is under way.
Change(o, new) ==
    /\ req # Idle => req.alone
    /\ order' = [order EXCEPT ![o] = new]
    /\ told' = Nothing
    /\ req' = IF req = Idle THEN Idle ELSE [req EXCEPT !.alone = FALSE]
    /\ UNCHANGED past

\* An order is drawn up, or comes from Sapo with the date it has there.
Create(o, at) ==
    /\ order[o] = None
    /\ at <= now /\ (at < now => KindOf[o].sapo)
    /\ Change(o, [status |-> "open", created |-> at, confirmed |-> Never])

Open(o) == order[o].status = "open"
Confirm(o) == Open(o) /\ order[o].confirmed = Never
              /\ Change(o, [order[o] EXCEPT !.confirmed = now])
Cancel(o) == Open(o) /\ Change(o, [order[o] EXCEPT !.status = "cancelled"])

\* Bound: a request takes less time than there is between two moments.
Tick ==
    /\ req = Idle
    /\ past < Len(Moments)
    /\ past' = past + 1
    /\ told' = Nothing
    /\ UNCHANGED <<order, req>>

-----------------------------------------------------------------------------
(* Days, weeks, months and years, in hours.                                *)

Day == 24
StartOfDay(t) == (t \div Day) * Day
\* 1 January 2022 is a Saturday.
StartOfWeek(t) == StartOfDay(t) - Day * ((t \div Day + 5) % 7)

MonthOf(t) == CHOOSE m \in 1..Len(MonthStart) - 1 : MonthStart[m] <= t /\ t < MonthStart[m + 1]
FirstOfYear(m) == m - ((m - 1) % 12)

\* The values of the constants, assumed by the module that instantiates this one.  The
\* calendar begins two years before the year of the first moment and covers the periods
\* asked for and those before them.  Bound: of a period asked for, thirteen months.
SalesAssumption ==
    /\ IsFiniteSet(Orders) /\ IsFiniteSet(Staff) /\ KindOf \in [Orders -> KindType]
    /\ Moments \in Seq(Nat) /\ Moments # <<>>
    /\ \A i \in DOMAIN Moments :
          /\ i > 1 => Moments[i - 1] < Moments[i]
          /\ MonthStart[25] <= Moments[i] /\ Moments[i] < MonthStart[Len(MonthStart)]
    /\ \A c \in Customs :
          /\ c.first \in Nat /\ c.last \in Nat
          /\ c.first <= c.last =>
                /\ c.last - c.first < c.first
                /\ c.last * Day + Day <= MonthStart[Len(MonthStart)]
                /\ MonthOf(c.last * Day + Day - 1) <= MonthOf(c.first * Day) + 12
    /\ \A v \in Views : v.locations \subseteq Locations /\ v.channel \in {"any", "pos", "web"}

-----------------------------------------------------------------------------
(* Periods and their charts.                                               *)

\* bucketFor
BucketFor(from, to) ==
    IF to - from <= 2 * Day THEN "hour" ELSE IF to - from <= 92 * Day THEN "day" ELSE "month"

\* withPrev: a running period is compared with as much of the one before it
WithPrev(range, from, to, prevFrom, prevTo) ==
    [range |-> range, from |-> from, to |-> to, prevFrom |-> prevFrom, prevTo |-> prevTo,
     bucket |-> BucketFor(from, to)]

Running(range, from, to, prevFrom) ==
    WithPrev(range, from, to, prevFrom, prevFrom + (to - from))
Whole(range, from, to, prevFrom) == WithPrev(range, from, to, prevFrom, from)

\* resolveDashboardPeriod
PeriodsOf(t) ==
    LET today == StartOfDay(t)
        week == StartOfWeek(t)
        month == MonthOf(t)
        year == FirstOfYear(month)
    IN  {Running("today", today, t, today - Day),
         Whole("yesterday", today - Day, today, today - 2 * Day),
         Running("this_week", week, t, week - 7 * Day),
         Whole("last_week", week - 7 * Day, week, week - 14 * Day),
         Running("this_month", MonthStart[month], t, MonthStart[month - 1]),
         Whole("last_month", MonthStart[month - 1], MonthStart[month], MonthStart[month - 2]),
         Running("this_year", MonthStart[year], t, MonthStart[year - 12]),
         Whole("last_year", MonthStart[year - 12], MonthStart[year], MonthStart[year - 24])}
    \union {LET from == c.first * Day
                to == c.last * Day + Day
            IN  Running("custom", from, to, from - (to - from)) : c \in Customs}

\* bucketIdxSql
BucketIdx(bucket, start, t) ==
    CASE bucket = "hour" -> t - start
      [] bucket = "day" -> (t - start) \div Day
      [] bucket = "month" -> MonthOf(t) - MonthOf(start)

\* The same day of the next month, or as many days later as the month is too short.
NextMonth(t) == t + MonthStart[MonthOf(t) + 1] - MonthStart[MonthOf(t)]

\* bucketLabels: how many columns the chart has
Size(p) ==
    LET cursor[i \in 0..12] == IF i = 0 THEN p.from ELSE NextMonth(cursor[i - 1])
        columns == CASE p.bucket = "hour" -> p.to - p.from
                     [] p.bucket = "day" -> (p.to - p.from + Day - 1) \div Day
                     [] p.bucket = "month" -> Cardinality({i \in 0..12 : cursor[i] < p.to})
    IN IF columns = 0 THEN 1 ELSE columns

-----------------------------------------------------------------------------
(* What the queries read.                                                  *)

There == {o \in Orders : order[o] # None}
Live(o) == order[o].status # "cancelled"
In(t, from, to) == from <= t /\ t < to

\* filterSql
Fits(o, view) ==
    /\ KindOf[o].location \in view.locations
    /\ view.channel \in {"any", KindOf[o].channel}

\* orderScope
Placed(view, from, to) == {o \in There : In(order[o].created, from, to) /\ Fits(o, view)}

\* CLOSED_AT: an order of Sapo that was never confirmed is closed when it is created
ClosedAt(o) == IF order[o].confirmed = Never /\ KindOf[o].sapo THEN order[o].created
               ELSE order[o].confirmed

\* closedScope
Closed(view, from, to) ==
    {o \in There : Live(o) /\ In(ClosedAt(o), from, to) /\ Fits(o, view)}

\* total_price less total_refunded; ORDER_REVENUE
Net(o) == KindOf[o].total - KindOf[o].refunded
Revenue(o) == IF KindOf[o].ofChannel = Unknown THEN KindOf[o].total
              ELSE KindOf[o].ofChannel

NetOf(S) == SumFunctionOnSet([o \in S |-> Net(o)], S)
RevenueOf(S) == SumFunctionOnSet([o \in S |-> Revenue(o)], S)

\* queryBusiness and queryFunnel
Results(view, from, to) ==
    LET S == Placed(view, from, to)
        live == {o \in S : Live(o)}
    IN [orders |-> Cardinality(live), cancelled |-> Cardinality(S \ live), net |-> NetOf(live)]

Funnel(view, from, to) ==
    LET S == Placed(view, from, to)
        live == {o \in S : Live(o)}
    IN [total |-> Cardinality(S), active |-> Cardinality(live),
        confirmed |-> Cardinality({o \in live : order[o].confirmed # Never})]

\* queryRevenueSeries and querySeries, summed over the columns there are
Charted(p, start, at) == BucketIdx(p.bucket, start, at) \in 0..Size(p) - 1

ChartOfPlaced(p, view, from, to) ==
    NetOf({o \in Placed(view, from, to) : Live(o) /\ Charted(p, from, order[o].created)})
ChartOfClosed(p, view, from, to) ==
    RevenueOf({o \in Closed(view, from, to) : Charted(p, from, ClosedAt(o))})

\* queryClosed: by warehouse, staff and channel
CellOf(o) == [location |-> KindOf[o].location, staff |-> KindOf[o].staff,
              channel |-> KindOf[o].channel]
Cells(view, from, to) ==
    LET S == Closed(view, from, to)
    IN [c \in {CellOf(o) : o \in S} |->
            LET here == {o \in S : CellOf(o) = c}
            IN [orders |-> Cardinality(here), revenue |-> RevenueOf(here)]]

\* queryCloseRate: of the orders created in the period, cancelled ones included
Cohorts(view, from, to) ==
    [s \in Staff |->
        LET S == {o \in Placed(view, from, to) : KindOf[o].staff = s}
        IN [total |-> Cardinality(S),
            closed |-> Cardinality({o \in S : Live(o) /\ ClosedAt(o) # Never})]]

-----------------------------------------------------------------------------
(* The dashboards.                                                         *)

QueriesOf == [overview |-> <<"results", "prevResults", "funnel", "chart", "prevChart">>,
              sales |-> <<"cells", "prevCells", "rates", "chart", "prevChart", "today">>]

Answer(r, query) ==
    LET p == r.period
        view == r.view
        today == StartOfDay(r.at)
    IN CASE query = "results" -> Results(view, p.from, p.to)
         [] query = "prevResults" -> Results(view, p.prevFrom, p.prevTo)
         [] query = "funnel" -> Funnel(view, p.from, p.to)
         [] query = "cells" -> Cells(view, p.from, p.to)
         [] query = "prevCells" -> Cells(view, p.prevFrom, p.prevTo)
         [] query = "rates" -> Cohorts(view, p.from, p.to)
         [] query = "today" -> RevenueOf(Closed(view, today, today + Day))
         [] query = "chart" /\ r.of = "overview" -> ChartOfPlaced(p, view, p.from, p.to)
         [] query = "prevChart" /\ r.of = "overview" ->
              ChartOfPlaced(p, view, p.prevFrom, p.prevTo)
         [] query = "chart" /\ r.of = "sales" -> ChartOfClosed(p, view, p.from, p.to)
         [] query = "prevChart" /\ r.of = "sales" ->
              ChartOfClosed(p, view, p.prevFrom, p.prevTo)

\* dashboardOverview: a period that does not begin before it ends is refused
Ask(of, view, period) ==
    /\ req = Idle
    /\ period.from < period.to
    /\ req' = [pc |-> "query", of |-> of, view |-> view, period |-> period, at |-> now,
               alone |-> TRUE, got |-> <<>>]
    /\ told' = Nothing
    /\ UNCHANGED <<order, past>>

Query ==
    /\ req.pc = "query" /\ Len(req.got) < Len(QueriesOf[req.of])
    /\ LET query == QueriesOf[req.of][Len(req.got) + 1]
       IN  req' = [req EXCEPT !.got = Append(req.got, Answer(req, query))]
    /\ UNCHANGED <<order, past, told>>

CellSum(cells, S) == SumFunctionOnSet([c \in S |-> cells[c].revenue], S)

\* buildLocationRows and buildStaffRows: who has sold something, in the period or (for a
\* warehouse) in the one before, and who was given an order in it
LocationRows(cells, prev) ==
    [l \in {c.location : c \in DOMAIN cells \union DOMAIN prev} |->
        CellSum(cells, {c \in DOMAIN cells : c.location = l})]
StaffRows(cells, rates) ==
    [s \in {c.staff : c \in DOMAIN cells} \union {s \in Staff : rates[s].total > 0} |->
        CellSum(cells, {c \in DOMAIN cells : c.staff = s})]

\* runDashboardOverview
TellOverview(r) ==
    [of |-> "overview", period |-> r.period, view |-> r.view, at |-> r.at, alone |-> r.alone,
     results |-> r.got[1], prevResults |-> r.got[2], funnel |-> r.got[3],
     chart |-> r.got[4], prevChart |-> r.got[5]]

\* runDashboardSales
TellSales(r) ==
    LET cells == r.got[1]
        prev == r.got[2]
        online == {c \in DOMAIN cells : c.channel # "pos"}
    IN  [of |-> "sales", period |-> r.period, view |-> r.view, at |-> r.at, alone |-> r.alone,
         total |-> CellSum(cells, DOMAIN cells), prevTotal |-> CellSum(prev, DOMAIN prev),
         online |-> CellSum(cells, online), pos |-> CellSum(cells, DOMAIN cells \ online),
         locations |-> LocationRows(cells, prev), staff |-> StaffRows(cells, r.got[3]),
         rates |-> r.got[3], chart |-> r.got[4], prevChart |-> r.got[5], today |-> r.got[6]]

Tell ==
    /\ req.pc = "query" /\ Len(req.got) = Len(QueriesOf[req.of])
    /\ told' = IF req.of = "overview" THEN TellOverview(req) ELSE TellSales(req)
    /\ req' = Idle
    /\ UNCHANGED <<order, past>>

Next ==
    \/ \E o \in Orders : \/ \E at \in Range(Moments) : Create(o, at)
                         \/ Confirm(o) \/ Cancel(o)
    \/ Tick
    \/ \E of \in DOMAIN QueriesOf, view \in Views, p \in PeriodsOf(now) : Ask(of, view, p)
    \/ Query \/ Tell

Spec == Init /\ [][Next]_vars

-----------------------------------------------------------------------------
\* The clock stands at one of the moments, and no order is of the future.
TypeOK ==
    /\ past \in DOMAIN Moments
    /\ \A o \in There : order[o].created <= now /\ order[o].confirmed <= now

\* The period compared with is over before the other begins, unless the month or the year
\* has outlasted the one before; and what runs now continues what was last, from where it
\* is compared with it.
PeriodsApart ==
    LET all == PeriodsOf(now)
        Of(range) == CHOOSE p \in all : p.range = range
        Last == [this_week |-> "last_week", this_month |-> "last_month",
                 this_year |-> "last_year", today |-> "yesterday"]
    IN  /\ \A p \in all : p.from < p.to =>
            \/ p.prevFrom <= p.prevTo /\ p.prevTo <= p.from
            \/ /\ p.range \in {"this_month", "this_year"}
               /\ now - p.from > Of(Last[p.range]).to - Of(Last[p.range]).from
        /\ \A r \in DOMAIN Last : /\ Of(Last[r]).to = Of(r).from
                                  /\ Of(Last[r]).from = Of(r).prevFrom

\* Every order has its column, so that a chart sums to the figure above it, unless its
\* columns are months of a period that begins in the middle of one.  So does the chart of
\* the period before, which has the same columns, unless that is longer or reaches into
\* more months: as the year before does on the last days of months of a leap year.
FirstOfMonth(t) == t = MonthStart[MonthOf(t)]
LastMonth(from, to) == MonthOf(to - 1) - MonthOf(from)
ChartsAddUp ==
    told.of \in {"overview", "sales"} /\ told.alone =>
        LET p == told.period
            of == IF told.of = "overview" THEN told.results.net ELSE told.total
            prevOf == IF told.of = "overview" THEN told.prevResults.net ELSE told.prevTotal
        IN  (p.bucket = "month" => FirstOfMonth(p.from)) =>
                /\ told.chart = of
                /\ (IF p.bucket = "month"
                    THEN LastMonth(p.prevFrom, p.prevTo) <= LastMonth(p.from, p.to)
                    ELSE p.prevTo - p.prevFrom <= p.to - p.from) => told.prevChart = prevOf

\* The rows of warehouses and of staff and the two channels each add up to the total, and
\* nobody closes more orders than came in, whatever goes on beside the queries.
RowsAddUp ==
    told.of = "sales" =>
        /\ told.total = told.online + told.pos
        /\ told.total = SumFunction(told.locations)
        /\ told.total = SumFunction(told.staff)
        /\ \A s \in Staff : told.rates[s].closed <= told.rates[s].total

\* The funnel counts the orders the results tell of, and today's sales are those of the
\* period that is today.
BlocksAgree ==
    /\ told.of = "overview" /\ told.alone =>
            /\ told.funnel.active = told.results.orders
            /\ told.funnel.total = told.results.orders + told.results.cancelled
    /\ told.of = "sales" /\ told.alone /\ told.period.range = "today" =>
            told.today = told.total + RevenueOf(Closed(told.view, told.at, told.at + 1))
=============================================================================
