----------------------------- MODULE TimeSeries -----------------------------
(***************************************************************************)
(* What the analytics of an organization count of its events               *)
(* (analytics/services.py), and the listing of the events by pages         *)
(* (ingestion/views.py).  A request reads the clock again for each of its  *)
(* parts, and events arrive in between.  Times are in ticks, in UTC; each  *)
(* number of a chart or a KPI is the set of the events that make it up.    *)
(***************************************************************************)
EXTENDS Integers, FiniteSets

CONSTANTS
  Events,      \* events, of the type that the request is about
  StampsOf,    \* by event, the timestamps that it may carry
  Clock,       \* the times at which requests may look at the clock
  Hour,        \* ticks in an hour
  Months,      \* months by number, 12 * year + month: an interval
  MonthStart,  \* by month, its first tick
  Ranges,      \* the ranges that clients ask for
  MaxLimit,    \* the largest page, 100 in the code
  Limits,      \* the page sizes that clients ask for
  None         \* no timestamp, no cursor

Day == 24 * Hour

(* The year and the month of a time, as the number of the month.           *)
MonthOf(t) == CHOOSE n \in Months :
                MonthStart[n] <= t /\ n + 1 \in Months /\ t < MonthStart[n + 1]

ASSUME TimeSeriesConstants ==
  /\ Hour \in Nat \ {0} /\ Clock \subseteq Int /\ IsFiniteSet(Events)
  /\ StampsOf \in [Events -> SUBSET Int] /\ None \notin Int
  /\ MaxLimit \in Nat /\ Limits \subseteq Nat
  /\ MonthStart \in [Months -> Int] /\ Months \subseteq Int
  /\ \A n \in Months :
       /\ n + 1 \in Months => MonthStart[n] < MonthStart[n + 1]
       /\ n + 12 \in Months => MonthStart[n + 12] - MonthStart[n] \in {365 * Day, 366 * Day}
  /\ \A t \in Clock : LET n == MonthOf(t) IN
       /\ (n - 11)..(n + 1) \subseteq Months /\ n \in Int
       /\ MonthStart[n] <= t /\ t < MonthStart[n + 1]

VARIABLES
  now,     \* the clock
  stamp,   \* by event, its timestamp once it is stored
  rep,     \* a request for an overview or for the revenue
  list     \* a client that walks through the pages of the listing

vars == <<now, stamp, rep, list>>

Stored == {e \in Events : stamp[e] # None}

-----------------------------------------------------------------------------
(* Ranges, buckets and months.                                             *)

Duration(range) == CASE range = "24h" -> Day      [] range = "30d" -> 30 * Day
                     [] range = "90d" -> 90 * Day [] range = "12m" -> 365 * Day
                     [] OTHER -> 7 * Day

RangeStart(range, t) == t - Duration(range)

Midnight(t) == t - (t % Day)

Spans(n, start, length) ==
  [i \in 1..n |-> [start |-> start + (i - 1) * length, end |-> start + i * length]]

(* Mutant: the first day is that of the beginning of the range.            *)
BucketSpecsEarly(range, t) ==
  CASE range = "24h" -> Spans(24, t - (t % Hour) - 24 * Hour, Hour)
    [] range = "90d" -> Spans(13, Midnight(t - 90 * Day), 7 * Day)
    [] range = "30d" -> Spans(30, Midnight(t - 30 * Day), Day)
    [] OTHER         -> Spans(7, Midnight(t - 7 * Day), Day)

BucketSpecs(range, t) ==
  CASE range = "24h" -> Spans(24, t - (t % Hour) - 23 * Hour, Hour)
    [] range = "90d" -> Spans(13, Midnight(t - 89 * Day), 7 * Day)
    [] range = "30d" -> Spans(30, Midnight(t - 29 * Day), Day)
    [] OTHER         -> Spans(7, Midnight(t - 6 * Day), Day)

Date(t)    == [year |-> (MonthOf(t) - 1) \div 12, month |-> ((MonthOf(t) - 1) % 12) + 1]
First(date) == MonthStart[12 * date.year + date.month]

(* Mutant: the year is forgotten.                                          *)
WrappedOnly(date) == IF date.month <= 0 THEN [date EXCEPT !.month = @ + 12] ELSE date

(* The loop that turns months before January into those of the year        *)
(* before; with twelve months it runs at most once.                        *)
Wrapped(date) == IF date.month <= 0
                 THEN [year |-> date.year - 1, month |-> date.month + 12] ELSE date

MonthBegin(date, offset) == First(Wrapped([date EXCEPT !.month = @ - offset]))
MonthEnd(date) == IF date.month = 12 THEN First([year |-> date.year + 1, month |-> 1])
                  ELSE First([date EXCEPT !.month = @ + 1])

MonthSpecs(t) ==
  LET date == Date(t) IN
    [i \in 1..12 |-> [start |-> MonthBegin(date, 12 - i),
                      end   |-> IF i < 12 THEN MonthBegin(date, 11 - i)
                                ELSE MonthEnd(date)]]

ChartSpecs(range, t) == IF range = "12m" THEN MonthSpecs(t) ELSE BucketSpecs(range, t)

(* The events that bucket_index finds a bucket for.                        *)
Bucketed(events, specs) ==
  {e \in events : \E i \in DOMAIN specs :
                    specs[i].start <= stamp[e] /\ stamp[e] < specs[i].end}

InRange(range, t) == {e \in Stored : stamp[e] >= RangeStart(range, t)}

PreviousPeriod(range, t) ==
  {e \in Stored : /\ stamp[e] >= RangeStart(range, t) - Duration(range)
                  /\ stamp[e] < RangeStart(range, t)}

-----------------------------------------------------------------------------
IdleReport == [pc |-> "idle", kind |-> None, range |-> None, sessions |-> {},
               total |-> {}, previous |-> {}, chart |-> {}, before |-> {}, known |-> {},
               began |-> 0, previousAt |-> 0, chartAt |-> 0, beforeAt |-> 0]
IdleList   == [pc |-> "idle", limit |-> 0, cursor |-> None, shown |-> {},
               repeated |-> {}, cursors |-> {}, known |-> {}]

Init == /\ now \in Clock /\ stamp = [e \in Events |-> None]
        /\ rep = IdleReport /\ list = IdleList

(* Time passes, and an event is stored, whatever timestamp it carries.     *)
Tick == /\ \E t \in Clock : t > now /\ now' = t
        /\ UNCHANGED <<stamp, rep, list>>

Arrive(e) == /\ stamp[e] = None
             /\ \E t \in StampsOf[e] : stamp' = [stamp EXCEPT ![e] = t]
             /\ UNCHANGED <<now, rep, list>>

Report(row) == rep' = row /\ UNCHANGED <<now, stamp, list>>

(* Requests write nothing that others read: one at a time is enough.       *)
Quiet == rep.pc = "idle" /\ list.pc = "idle"

(* A request that missed the cache; the overview begins with its buckets,  *)
(* which are those of the time it began.                                   *)
BeginOverview(range) ==
  /\ Quiet
  /\ Report([IdleReport EXCEPT !.pc = "events", !.kind = "overview", !.range = range,
               !.known = Stored, !.began = now])

BeginRevenue(range) ==
  /\ Quiet
  /\ Report([IdleReport EXCEPT !.pc = "events", !.kind = "revenue", !.range = range,
               !.known = Stored, !.began = now])

(* org_events(), of which the sessions are what falls in a bucket.         *)
ReadEvents ==
  /\ rep.pc = "events"
  /\ Report([rep EXCEPT !.pc = IF rep.kind = "overview" THEN "previous" ELSE "chart",
               !.total = InRange(rep.range, now),
               !.sessions = Bucketed(InRange(rep.range, now),
                                       BucketSpecs(rep.range, rep.began))])

ReadPrevious ==
  /\ rep.pc = "previous"
  /\ Report([rep EXCEPT !.pc = "chart", !.previousAt = now,
               !.previous = PreviousPeriod(rep.range, now)])

(* revenue_series(): the buckets, and then its own query.                  *)
ReadChart ==
  /\ rep.pc = "chart"
  /\ LET specs == ChartSpecs(rep.range, now) IN
       Report([rep EXCEPT !.pc = IF rep.kind = "overview" THEN "before" ELSE "done",
                 !.chartAt = now,
                 !.chart = Bucketed({e \in Stored : stamp[e] >= specs[1].start}, specs)])

ReadBefore ==
  /\ rep.pc = "before"
  /\ Report([rep EXCEPT !.pc = "done", !.beforeAt = now,
               !.before = PreviousPeriod(rep.range, now)])

ReportStep == ReadEvents \/ ReadPrevious \/ ReadChart \/ ReadBefore

-----------------------------------------------------------------------------
(* The listing.                                                            *)

BeginList(limit) ==
  /\ Quiet
  /\ list' = [IdleList EXCEPT !.pc = "open", !.known = Stored,
                !.limit = IF limit < MaxLimit THEN limit ELSE MaxLimit]
  /\ UNCHANGED <<now, stamp, rep>>

(* Mutant: the page begins with the cursor.                                *)
MatchingFrom(cursor) == {e \in Stored : cursor = None \/ stamp[e] <= cursor}

Matching(cursor) == {e \in Stored : cursor = None \/ stamp[e] < cursor}

(* The first n rows in the order of the query, which leaves ties open.     *)
Newest(n, rows, fetched) ==
  /\ fetched \subseteq rows
  /\ Cardinality(fetched) = IF n < Cardinality(rows) THEN n ELSE Cardinality(rows)
  /\ \A e \in fetched, f \in rows \ fetched : stamp[e] >= stamp[f]

Show(page) == [list EXCEPT !.shown = @ \union page, !.repeated = @ \union (list.shown \intersect page)]

(* A page, and there is more: one row too many was read, and its timestamp *)
(* is the cursor of the next page.                                         *)
FullPage ==
  /\ list.pc = "open"
  /\ \E fetched \in SUBSET Events : \E last \in fetched :
       /\ Newest(list.limit + 1, Matching(list.cursor), fetched)
       /\ Cardinality(fetched) > list.limit
       /\ \A e \in fetched : stamp[e] >= stamp[last]
       /\ list' = [Show(fetched \ {last}) EXCEPT !.cursor = stamp[last],
                     !.cursors = @ \union {stamp[last]}]
  /\ UNCHANGED <<now, stamp, rep>>

LastPage ==
  /\ list.pc = "open"
  /\ \E fetched \in SUBSET Events :
       /\ Newest(list.limit + 1, Matching(list.cursor), fetched)
       /\ Cardinality(fetched) <= list.limit
       /\ list' = [Show(fetched) EXCEPT !.pc = "end"]
  /\ UNCHANGED <<now, stamp, rep>>

Next == \/ Tick \/ \E e \in Events : Arrive(e)
        \/ \E range \in Ranges : BeginOverview(range) \/ BeginRevenue(range)
        \/ ReportStep
        \/ \E limit \in Limits : BeginList(limit)
        \/ FullPage \/ LastPage

Spec == Init /\ [][Next]_vars

-----------------------------------------------------------------------------
(* Properties.                                                             *)

(* Buckets follow one another, without gaps and without overlaps.          *)
Tiling(specs) ==
  /\ \A i \in DOMAIN specs :
       /\ specs[i].start \in Int /\ specs[i].end \in Int
       /\ specs[i].start < specs[i].end
  /\ \A i \in DOMAIN specs : i + 1 \in DOMAIN specs => specs[i + 1].start = specs[i].end

ReportRow == [pc : {"idle", "events", "previous", "chart", "before", "done"},
              kind : {"overview", "revenue", None}, range : Ranges \union {None},
              sessions : SUBSET Events, total : SUBSET Events, previous : SUBSET Events,
              chart : SUBSET Events, before : SUBSET Events, known : SUBSET Events,
              began : Int, previousAt : Int, chartAt : Int, beforeAt : Int]
ListRow   == [pc : {"idle", "open", "end"}, limit : 0..MaxLimit,
              cursor : Int \union {None}, shown : SUBSET Events,
              repeated : SUBSET Events, cursors : SUBSET Int, known : SUBSET Events]

(* Types; the buckets of every request tile an interval of time.           *)
TypeOK ==
  /\ now \in Clock /\ stamp \in [Events -> Int \union {None}]
  /\ rep \in ReportRow /\ list \in ListRow
  /\ rep.pc # "idle" => rep.began \in Clock /\ Tiling(BucketSpecs(rep.range, rep.began))
  /\ rep.pc \in {"before", "done"} =>
       rep.chartAt \in Clock /\ Tiling(ChartSpecs(rep.range, rep.chartAt))

Unit(range)   == IF range = "24h" THEN Hour ELSE Day
NextUnit(range, t) == t - (t % Unit(range)) + Unit(range)

(* The sessions of an overview and those of the period before have no      *)
(* event in common and leave out only those of less than a day (24h: an    *)
(* hour) before the first bucket, unless the request saw a midnight (the   *)
(* hour) pass.  "12m" is an exception: its overview has seven buckets.     *)
SessionsCountedOnce ==
  rep.kind = "overview" /\ rep.pc \in {"chart", "before", "done"}
  /\ rep.previousAt < NextUnit(rep.range, rep.began) =>
    /\ rep.sessions \intersect rep.previous = {}
    /\ LET first == BucketSpecs(rep.range, rep.began)[1].start IN
       rep.range # "12m" =>
         \A e \in rep.known \ (rep.sessions \union rep.previous) :
           \/ stamp[e] < rep.previousAt - 2 * Duration(rep.range)
           \/ stamp[e] >= NextUnit(rep.range, rep.began)
           \/ first - Unit(rep.range) <= stamp[e] /\ stamp[e] < first

(* The revenue of an overview and that of the period before overlook no    *)
(* event, however late the second one is computed.                         *)
RevenueOverlooksNone ==
  rep.kind = "overview" /\ rep.pc = "done" =>
    \A e \in rep.known :
      \/ e \in rep.total \union rep.before
      \/ stamp[e] < rep.beforeAt - 2 * Duration(rep.range)

(* Whatever was stored when the request came and is in the revenue chart   *)
(* is in the total next to it, except when the chart's twelve months have  *)
(* a 29th of February and the range of 365 days is a day too short.        *)
ChartWithinTotal ==
  rep.pc \in {"before", "done"} =>
    \/ rep.chart \intersect rep.known \subseteq rep.total
    \/ /\ rep.range = "12m"
       /\ LET n == MonthOf(rep.chartAt) IN MonthStart[n + 1] - MonthStart[n - 11] > 365 * Day

(* What one overview, or one page of revenue, shows of the same events is  *)
(* consistent, although each part looks at the clock again                 *)
(* (overview_widgets, revenue).                                            *)
CountsAgree == SessionsCountedOnce /\ RevenueOverlooksNone /\ ChartWithinTotal

(* Page by page, no event is listed twice, and an event that was there     *)
(* from the beginning is left out only if it has the timestamp of one of   *)
(* the cursors (EventsView: the first row left out is never shown).        *)
PagesMissOnlyCursors ==
  /\ list.repeated = {}
  /\ list.pc = "end" =>
       \A e \in list.known : e \in list.shown \/ stamp[e] \in list.cursors
=============================================================================
