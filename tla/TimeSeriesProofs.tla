-------------------------- MODULE TimeSeriesProofs --------------------------
(***************************************************************************)
(* Proofs about TimeSeries: buckets and months tile time in any calendar,  *)
(* pages miss nothing but what has the timestamp of a cursor, and the      *)
(* numbers that one overview shows agree, although its parts read the      *)
(* clock one after the other.                                              *)
(***************************************************************************)
EXTENDS TimeSeries, FiniteSetTheorems, TLAPS

LEMMA DayPositive == Day \in Nat \ {0} /\ Day = 24 * Hour /\ Hour \in Nat \ {0}
BY TimeSeriesConstants DEF Day

LEMMA SpansTile ==
  ASSUME NEW n \in Nat, NEW start \in Int, NEW length \in Nat \ {0}
  PROVE  Tiling(Spans(n, start, length))
<1> DEFINE s == Spans(n, start, length)
<1>1. /\ DOMAIN s = 1..n
      /\ \A i \in 1..n : /\ s[i].start = start + (i - 1) * length
                         /\ s[i].end = start + i * length
  BY DEF Spans
<1>2. ASSUME NEW i \in 1..n
      PROVE  /\ (i - 1) * length \in Int /\ i * length \in Int
             /\ i * length = (i - 1) * length + length
             /\ ((i + 1) - 1) * length = i * length
  OBVIOUS
<1> HIDE DEF s
<1>3. ASSUME NEW i \in 1..n
      PROVE  s[i].start \in Int /\ s[i].end \in Int /\ s[i].start < s[i].end
  BY <1>1, <1>2
<1>4. ASSUME NEW i \in 1..n, i + 1 \in 1..n PROVE s[i + 1].start = s[i].end
  BY <1>1, <1>2, <1>4
<1>5. Tiling(s)
  BY <1>1, <1>3, <1>4 DEF Tiling
<1> QED
  BY <1>5 DEF s

(* The remainder of a division lies below the divisor.                     *)
LEMMA Remainder ==
  ASSUME NEW t \in Int, NEW d \in Nat \ {0}
  PROVE  t % d \in 0..(d - 1)
OBVIOUS

LEMMA BucketsTile ==
  ASSUME NEW range, NEW t \in Int
  PROVE  Tiling(BucketSpecs(range, t))
<1>1. /\ Day \in Nat \ {0} /\ Hour \in Nat \ {0} /\ 7 * Day \in Nat \ {0}
      /\ 23 * Hour \in Int
  BY DayPositive
<1>2. t - (t % Hour) - 23 * Hour \in Int
  <2>1. t % Hour \in Int
    BY <1>1, Remainder
  <2> QED  BY <1>1, <2>1
<1>3. \A u \in Int : Midnight(u) \in Int
  <2>1. ASSUME NEW u \in Int PROVE u % Day \in Int
    BY <1>1, Remainder
  <2> QED  BY <2>1 DEF Midnight
<1>4. t - 89 * Day \in Int /\ t - 29 * Day \in Int /\ t - 6 * Day \in Int
  BY <1>1
<1>5. \A k \in {89, 29, 6} : Midnight(t - k * Day) \in Int
  BY <1>3, <1>4
<1> QED
  BY <1>1, <1>2, <1>5, SpansTile DEF BucketSpecs

(* The date of a time, and the month that lies some months before it.      *)
LEMMA MonthAt ==
  ASSUME NEW t \in Clock
  PROVE  /\ MonthOf(t) \in Int /\ \A i \in -11..1 : MonthOf(t) + i \in Months
         /\ MonthStart[MonthOf(t)] <= t /\ t < MonthStart[MonthOf(t) + 1]
         /\ Date(t).month \in 1..12 /\ Date(t).year \in Int
         /\ 12 * Date(t).year + Date(t).month = MonthOf(t)
         /\ DOMAIN Date(t) = {"year", "month"}
<1> DEFINE n == MonthOf(t)
<1>1. n \in Int /\ MonthStart[n] <= t /\ t < MonthStart[n + 1] /\ (n - 11)..(n + 1) \subseteq Months
  BY TimeSeriesConstants
<1> HIDE DEF n
<1>2. \A i \in -11..1 : n + i \in Months
  BY <1>1
<1>3. /\ ((n - 1) % 12) + 1 \in 1..12 /\ (n - 1) \div 12 \in Int
      /\ 12 * ((n - 1) \div 12) + (((n - 1) % 12) + 1) = n
  BY <1>1
<1> QED
  BY <1>1, <1>2, <1>3 DEF n, Date

LEMMA MonthBeginIs ==
  ASSUME NEW t \in Clock, NEW o \in 0..11
  PROVE  MonthBegin(Date(t), o) = MonthStart[MonthOf(t) - o]
<1> DEFINE d == [Date(t) EXCEPT !.month = @ - o]
<1>1. d.month = Date(t).month - o /\ d.year = Date(t).year
  BY MonthAt
<1>2. Date(t).month \in 1..12 /\ Date(t).year \in Int /\ MonthOf(t) \in Int
      /\ 12 * Date(t).year + Date(t).month = MonthOf(t)
  BY MonthAt
<1> HIDE DEF d
<1>3. 12 * Wrapped(d).year + Wrapped(d).month = MonthOf(t) - o
  BY <1>1, <1>2 DEF Wrapped
<1> QED
  BY <1>3 DEF d, MonthBegin, First

LEMMA MonthEndIs ==
  ASSUME NEW t \in Clock
  PROVE  MonthEnd(Date(t)) = MonthStart[MonthOf(t) + 1]
<1> DEFINE d == [Date(t) EXCEPT !.month = @ + 1]
<1>1. d.month = Date(t).month + 1 /\ d.year = Date(t).year
  BY MonthAt
<1>2. Date(t).month \in 1..12 /\ Date(t).year \in Int /\ MonthOf(t) \in Int
      /\ 12 * Date(t).year + Date(t).month = MonthOf(t)
  BY MonthAt
<1>3. 12 * (Date(t).year + 1) + 1 = 12 * Date(t).year + 12 + 1
  BY <1>2
<1> QED
  BY <1>1, <1>2, <1>3 DEF MonthEnd, First

LEMMA NextMonth ==
  ASSUME NEW n \in Months, n + 1 \in Months
  PROVE  MonthStart[n] \in Int /\ MonthStart[n + 1] \in Int /\ MonthStart[n] < MonthStart[n + 1]
<1>1. \A k \in Months : k + 1 \in Months => MonthStart[k] < MonthStart[k + 1]
  BY TimeSeriesConstants
<1>2. MonthStart \in [Months -> Int]
  BY TimeSeriesConstants
<1> QED
  BY <1>1, <1>2

LEMMA MonthsTile ==
  ASSUME NEW t \in Clock
  PROVE  /\ Tiling(MonthSpecs(t)) /\ MonthSpecs(t)[1].start = MonthStart[MonthOf(t) - 11]
         /\ DOMAIN MonthSpecs(t) = 1..12
<1> DEFINE n == MonthOf(t)
           s == MonthSpecs(t)
<1>1. n \in Int /\ \A i \in -11..1 : n + i \in Months
  BY MonthAt
<1>2. \A i \in 1..12 : s[i].start = MonthBegin(Date(t), 12 - i)
      /\ s[i].end = IF i < 12 THEN MonthBegin(Date(t), 11 - i) ELSE MonthEnd(Date(t))
  BY DEF MonthSpecs
<1>3. DOMAIN s = 1..12
  BY DEF MonthSpecs
<1> HIDE DEF n, s
<1>4. \A i \in 1..12 : 12 - i \in 0..11 /\ (i < 12 => 11 - i \in 0..11)
  OBVIOUS
<1>5. ASSUME NEW i \in 1..12 PROVE s[i].start = MonthStart[n - (12 - i)]
  BY <1>2, <1>4, MonthBeginIs DEF n
<1>6. ASSUME NEW i \in 1..12 PROVE s[i].end = MonthStart[n - (11 - i)]
  <2>1. CASE i < 12
    BY <1>2, <1>4, <2>1, MonthBeginIs DEF n
  <2>2. CASE i = 12
    <3>1. n - (11 - 12) = n + 1
      BY <1>1
    <3> QED  BY <1>2, <2>2, <3>1, MonthEndIs DEF n
  <2> QED  BY <2>1, <2>2
<1>7. ASSUME NEW i \in 1..12
      PROVE  s[i].start \in Int /\ s[i].end \in Int /\ s[i].start < s[i].end
  <2>1. i - 12 \in -11..1 /\ i - 11 \in -11..1
    OBVIOUS
  <2>2. /\ n - (12 - i) = n + (i - 12) /\ n - (11 - i) = n + (i - 11)
        /\ n - (11 - i) = (n - (12 - i)) + 1
    BY <1>1
  <2>3. n - (12 - i) \in Months /\ n - (11 - i) \in Months
    BY <1>1, <2>1, <2>2
  <2>4. (n - (12 - i)) + 1 \in Months
    BY <2>2, <2>3
  <2> HIDE DEF n
  <2>5. /\ MonthStart[n - (12 - i)] \in Int
        /\ MonthStart[n - (12 - i)] < MonthStart[(n - (12 - i)) + 1]
        /\ MonthStart[(n - (12 - i)) + 1] \in Int
    BY <2>3, <2>4, NextMonth
  <2> QED  BY <1>5, <1>6, <2>2, <2>5
<1>8. ASSUME NEW i \in 1..12, i + 1 \in 1..12 PROVE s[i + 1].start = s[i].end
  <2>1. n - (12 - (i + 1)) = n - (11 - i)
    BY <1>1
  <2> QED  BY <1>5, <1>6, <1>8, <2>1
<1>9. Tiling(s)
  BY <1>3, <1>7, <1>8 DEF Tiling
<1>10. n - (12 - 1) = n - 11
  BY <1>1
<1> QED
  BY <1>3, <1>5, <1>9, <1>10 DEF s, n

LEMMA ChartsTile ==
  ASSUME NEW t \in Clock, NEW range
  PROVE  Tiling(ChartSpecs(range, t))
BY BucketsTile, MonthsTile, TimeSeriesConstants DEF ChartSpecs

-----------------------------------------------------------------------------
LEMMA IdleReportRow == IdleReport \in ReportRow
BY DEF IdleReport, ReportRow

LEMMA InitType == Init => TypeOK
<1> SUFFICES ASSUME Init
             PROVE  TypeOK
  OBVIOUS
<1>1. rep \in ReportRow /\ rep.pc = "idle"
  BY DEF Init, IdleReport, ReportRow
<1>2. list \in ListRow
  BY TimeSeriesConstants DEF Init, IdleList, ListRow
<1> QED
  BY <1>1, <1>2 DEF Init, TypeOK

LEMMA TypeStep == TypeOK /\ [Next]_vars => TypeOK'
<1> SUFFICES ASSUME TypeOK, [Next]_vars
             PROVE  TypeOK'
  OBVIOUS
<1>a. /\ now \in Clock /\ now \in Int /\ rep \in ReportRow /\ list \in ListRow
      /\ stamp \in [Events -> Int \union {None}]
  BY TimeSeriesConstants DEF TypeOK
<1>b. Stored \subseteq Events
  BY DEF Stored
(* A step of a report.                                                     *)
<1>c. ASSUME NEW row \in ReportRow, Report(row), row.range = rep.range,
             row.began = rep.began, rep.pc # "idle",
             row.pc \in {"before", "done"} =>
               row.chartAt = now \/ (row.chartAt = rep.chartAt /\ rep.pc = "before")
      PROVE  TypeOK'
  <2>1. rep' = row /\ UNCHANGED <<now, stamp, list>>
    BY <1>c DEF Report
  <2>2. row.pc \in {"before", "done"} =>
          row.chartAt \in Clock /\ Tiling(ChartSpecs(row.range, row.chartAt))
    BY <1>a, <1>c, ChartsTile DEF TypeOK
  <2> QED  BY <1>c, <2>1, <2>2 DEF TypeOK
<1>1. CASE Tick
  BY <1>1 DEF Tick, TypeOK
<1>2. ASSUME NEW e \in Events, Arrive(e) PROVE TypeOK'
  <2>1. stamp' \in [Events -> Int \union {None}]
    BY <1>2, <1>a, TimeSeriesConstants DEF Arrive
  <2> QED  BY <1>2, <2>1 DEF Arrive, TypeOK
<1>3. ASSUME NEW range \in Ranges, BeginOverview(range) \/ BeginRevenue(range)
      PROVE  TypeOK'
  <2>1. PICK kind \in {"overview", "revenue"} :
          Report([IdleReport EXCEPT !.pc = "events", !.kind = kind, !.range = range,
                    !.known = Stored, !.began = now])
    BY <1>3 DEF BeginOverview, BeginRevenue
  <2> DEFINE row == [IdleReport EXCEPT !.pc = "events", !.kind = kind, !.range = range,
                       !.known = Stored, !.began = now]
  <2>2. /\ row \in ReportRow /\ row.pc = "events" /\ row.range = range
        /\ row.began = now
    BY <1>a, <1>b, IdleReportRow DEF ReportRow
  <2>3. rep' = row /\ UNCHANGED <<now, stamp, list>>
    BY <2>1 DEF Report
  <2> HIDE DEF row
  <2> QED  BY <1>a, <2>2, <2>3, BucketsTile DEF TypeOK
<1>4. CASE ReadEvents
  <2> DEFINE row == [rep EXCEPT !.pc = IF rep.kind = "overview" THEN "previous" ELSE "chart",
                       !.total = InRange(rep.range, now),
                       !.sessions = Bucketed(InRange(rep.range, now),
                                             BucketSpecs(rep.range, rep.began))]
  <2>1. InRange(rep.range, now) \subseteq Events
    BY <1>b DEF InRange
  <2>2. Bucketed(InRange(rep.range, now), BucketSpecs(rep.range, rep.began)) \subseteq Events
    BY <2>1 DEF Bucketed
  <2>3. /\ row \in ReportRow /\ row.range = rep.range /\ row.began = rep.began
        /\ row.pc \in {"previous", "chart"}
    BY <1>a, <2>1, <2>2 DEF ReportRow
  <2>4. rep.pc # "idle" /\ Report(row)
    BY <1>4 DEF ReadEvents
  <2> HIDE DEF row
  <2> QED  BY <1>c, <2>3, <2>4
<1>5. CASE ReadPrevious
  <2> DEFINE row == [rep EXCEPT !.pc = "chart", !.previousAt = now,
                       !.previous = PreviousPeriod(rep.range, now)]
  <2>1. PreviousPeriod(rep.range, now) \subseteq Events
    BY <1>b DEF PreviousPeriod
  <2>2. /\ row \in ReportRow /\ row.range = rep.range /\ row.began = rep.began
        /\ row.pc = "chart"
    BY <1>a, <2>1 DEF ReportRow
  <2>3. rep.pc # "idle" /\ Report(row)
    BY <1>5 DEF ReadPrevious
  <2> HIDE DEF row
  <2> QED  BY <1>c, <2>2, <2>3
<1>6. CASE ReadChart
  <2> DEFINE specs == ChartSpecs(rep.range, now)
             chart == Bucketed({e \in Stored : stamp[e] >= specs[1].start}, specs)
             row == [rep EXCEPT !.pc = IF rep.kind = "overview" THEN "before" ELSE "done",
                       !.chartAt = now, !.chart = chart]
  <2>1. chart \subseteq Events
    BY <1>b DEF Bucketed
  <2>2. rep.pc # "idle" /\ Report(row)
    BY <1>6 DEF ReadChart
  <2> HIDE DEF chart
  <2>3. /\ row \in ReportRow /\ row.range = rep.range /\ row.began = rep.began
        /\ row.chartAt = now
    BY <1>a, <2>1 DEF ReportRow
  <2> HIDE DEF row
  <2> QED  BY <1>c, <2>2, <2>3
<1>7. CASE ReadBefore
  <2> DEFINE row == [rep EXCEPT !.pc = "done", !.beforeAt = now,
                       !.before = PreviousPeriod(rep.range, now)]
  <2>1. PreviousPeriod(rep.range, now) \subseteq Events
    BY <1>b DEF PreviousPeriod
  <2>2. /\ row \in ReportRow /\ row.range = rep.range /\ row.began = rep.began
        /\ row.chartAt = rep.chartAt
    BY <1>a, <2>1 DEF ReportRow
  <2>3. rep.pc = "before" /\ Report(row)
    BY <1>7 DEF ReadBefore
  <2> HIDE DEF row
  <2> QED  BY <1>c, <2>2, <2>3
<1>8. ASSUME NEW limit \in Limits, BeginList(limit) PROVE TypeOK'
  <2>1. (IF limit < MaxLimit THEN limit ELSE MaxLimit) \in 0..MaxLimit
    BY TimeSeriesConstants
  <2>2. list' \in ListRow
    BY <1>8, <1>b, <2>1 DEF BeginList, IdleList, ListRow
  <2> QED  BY <1>8, <2>2 DEF BeginList, TypeOK
<1>d. ASSUME NEW page \in SUBSET Events
      PROVE  /\ Show(page) \in ListRow
             /\ Show(page).cursors = list.cursors
             /\ Show(page).pc = list.pc /\ Show(page).cursor = list.cursor
  BY <1>a, <1>d DEF Show, ListRow
<1>9. CASE FullPage
  <2>1. PICK fetched \in SUBSET Events : \E last \in fetched :
          /\ Newest(list.limit + 1, Matching(list.cursor), fetched)
          /\ list' = [Show(fetched \ {last}) EXCEPT !.cursor = stamp[last],
                        !.cursors = @ \union {stamp[last]}]
    BY <1>9 DEF FullPage
  <2>2. PICK last \in fetched :
          /\ Newest(list.limit + 1, Matching(list.cursor), fetched)
          /\ list' = [Show(fetched \ {last}) EXCEPT !.cursor = stamp[last],
                        !.cursors = @ \union {stamp[last]}]
    BY <2>1
  <2>3. stamp[last] \in Int
    BY <1>a, <2>2 DEF Newest, Matching, Stored
  <2> DEFINE page == Show(fetched \ {last})
  <2>4. page \in ListRow /\ list' = [page EXCEPT !.cursor = stamp[last],
                                       !.cursors = @ \union {stamp[last]}]
    BY <1>d, <2>2
  <2> HIDE DEF page
  <2>5. page.cursors \union {stamp[last]} \in SUBSET Int
    BY <2>3, <2>4 DEF ListRow
  <2>6. list' \in ListRow
    BY <2>3, <2>4, <2>5 DEF ListRow
  <2> QED  BY <1>9, <2>6 DEF FullPage, TypeOK
<1>10. CASE LastPage
  <2>1. PICK fetched \in SUBSET Events : list' = [Show(fetched) EXCEPT !.pc = "end"]
    BY <1>10 DEF LastPage
  <2>2. list' \in ListRow
    BY <1>d, <2>1 DEF ListRow
  <2> QED  BY <1>10, <2>2 DEF LastPage, TypeOK
<1>11. CASE UNCHANGED vars
  BY <1>11 DEF vars, TypeOK
<1> QED
  BY <1>1, <1>2, <1>3, <1>4, <1>5, <1>6, <1>7, <1>8, <1>9, <1>10, <1>11
  DEF Next, ReportStep

(* The model is type correct, and the buckets of every chart are intervals *)
(* that follow one another, in any calendar: month_specs wraps its months  *)
(* into the right year.                                                    *)
THEOREM TimeSeriesTypeCorrect == Spec => []TypeOK
BY InitType, TypeStep, PTL DEF Spec

-----------------------------------------------------------------------------
(* The listing.                                                            *)

(* What a walk has passed, it has shown, but for the timestamps of its     *)
(* cursors; what it has shown lies at or above its cursor.                 *)
Walked ==
  /\ list.repeated = {}
  /\ list.pc # "idle" =>
      /\ list.known \union list.shown \subseteq Stored
      /\ list.cursor = None /\ list.pc = "open" => list.shown = {}
      /\ list.cursor # None /\ list.pc = "open" => \A e \in list.shown : stamp[e] >= list.cursor
      /\ \A e \in list.known :
           \/ e \in list.shown \/ stamp[e] \in list.cursors
           \/ list.pc = "open" /\ e \in Matching(list.cursor)

LEMMA WalkStep == TypeOK /\ Walked /\ [Next]_vars => Walked'
<1> SUFFICES ASSUME TypeOK, Walked, [Next]_vars
             PROVE  Walked'
  OBVIOUS
<1>a. /\ list \in ListRow /\ stamp \in [Events -> Int \union {None}]
      /\ None \notin Int /\ IsFiniteSet(Events) /\ Stored \subseteq Events
  BY TimeSeriesConstants DEF TypeOK, Stored
<1>b. \A e \in Stored : stamp[e] \in Int
  BY <1>a DEF Stored
<1>c. ASSUME UNCHANGED <<list, stamp>> PROVE Walked'
  BY <1>c DEF Walked, Stored, Matching
<1>1. ASSUME NEW e \in Events, Arrive(e) PROVE Walked'
  <2>1. /\ stamp[e] = None /\ list' = list
        /\ \A f \in Events \ {e} : stamp'[f] = stamp[f]
        /\ stamp'[e] # None
    BY <1>1, <1>a, TimeSeriesConstants DEF Arrive
  <2>2. Stored \subseteq Stored' /\ \A f \in Stored : f # e /\ stamp'[f] = stamp[f]
    BY <2>1 DEF Stored
  <2>3. \A f \in Matching(list.cursor) : f \in Matching(list.cursor)'
    BY <2>1, <2>2 DEF Matching
  <2> QED  BY <2>1, <2>2, <2>3 DEF Walked
<1>2. ASSUME NEW limit \in Limits, BeginList(limit) PROVE Walked'
  <2>1. /\ list'.pc = "open" /\ list'.known = Stored /\ list'.shown = {}
        /\ list'.repeated = {} /\ list'.cursor = None /\ stamp' = stamp
    BY <1>2 DEF BeginList, IdleList
  <2> QED  BY <2>1 DEF Walked, Matching, Stored
<1>d. ASSUME NEW page \in SUBSET Events
      PROVE  /\ Show(page).shown = list.shown \union page
             /\ Show(page).repeated = list.repeated \union (list.shown \intersect page)
             /\ Show(page).known = list.known /\ Show(page).cursors = list.cursors
             /\ Show(page).pc = list.pc /\ Show(page).cursor = list.cursor
             /\ Show(page) \in ListRow
  BY <1>a, <1>d DEF Show, ListRow
(* A page shows nothing that was shown before.                             *)
<1>e. ASSUME list.pc = "open", NEW page \in SUBSET Matching(list.cursor)
      PROVE  list.shown \intersect page = {}
  <2>1. CASE list.cursor = None
    BY <1>e, <2>1 DEF Walked
  <2>2. CASE list.cursor # None
    <3>1. list.cursor \in Int
      BY <1>a, <2>2 DEF ListRow
    <3>2. \A e \in list.shown : e \in Stored /\ stamp[e] >= list.cursor
      BY <1>e, <2>2 DEF Walked
    <3>3. \A e \in page : stamp[e] < list.cursor
      BY <2>2 DEF Matching
    <3>4. \A e \in Stored : stamp[e] >= list.cursor => ~ (stamp[e] < list.cursor)
      BY <1>b, <3>1
    <3> QED  BY <3>2, <3>3, <3>4
  <2> QED  BY <2>1, <2>2
<1>3. CASE FullPage
  <2>1. PICK fetched \in SUBSET Events : \E last \in fetched :
          /\ Newest(list.limit + 1, Matching(list.cursor), fetched)
          /\ \A e \in fetched : stamp[e] >= stamp[last]
          /\ list' = [Show(fetched \ {last}) EXCEPT !.cursor = stamp[last],
                        !.cursors = @ \union {stamp[last]}]
    BY <1>3 DEF FullPage
  <2>2. PICK last \in fetched :
          /\ Newest(list.limit + 1, Matching(list.cursor), fetched)
          /\ \A e \in fetched : stamp[e] >= stamp[last]
          /\ list' = [Show(fetched \ {last}) EXCEPT !.cursor = stamp[last],
                        !.cursors = @ \union {stamp[last]}]
    BY <2>1
  <2> DEFINE page == fetched \ {last}
             rows == Matching(list.cursor)
  <2>3. /\ fetched \subseteq rows /\ rows \subseteq Stored
        /\ \A e \in fetched, f \in rows \ fetched : stamp[e] >= stamp[f]
    BY <2>2 DEF Newest, Matching
  <2>4. /\ list.pc = "open" /\ stamp' = stamp /\ page \in SUBSET Events
    BY <1>3 DEF FullPage
  <2>5. list.shown \intersect page = {}
    BY <1>e, <2>3, <2>4
  <2>6. /\ list'.shown = list.shown \union page /\ list'.repeated = list.repeated
        /\ list'.known = list.known /\ list'.pc = "open"
        /\ list'.cursor = stamp[last] /\ list'.cursors = list.cursors \union {stamp[last]}
    <3> DEFINE base == Show(page)
    <3>1. /\ base.shown = list.shown \union page
          /\ base.repeated = list.repeated \union (list.shown \intersect page)
          /\ base.known = list.known /\ base.cursors = list.cursors
          /\ base.pc = list.pc /\ base \in ListRow
      BY <1>d, <2>4
    <3>2. list' = [base EXCEPT !.cursor = stamp[last], !.cursors = @ \union {stamp[last]}]
      BY <2>2
    <3> HIDE DEF base, page
    <3> QED  BY <2>4, <2>5, <3>1, <3>2 DEF ListRow
  <2>7. stamp[last] \in Int /\ last \in rows
    BY <1>b, <2>3
  <2>8. \A e \in list.shown \union page : stamp[e] >= stamp[last]
    <3>1. \A e \in page : stamp[e] >= stamp[last]
      BY <2>2
    <3>2. CASE list.cursor = None
      BY <2>4, <3>1, <3>2 DEF Walked
    <3>3. CASE list.cursor # None
      <4>1. list.cursor \in Int /\ stamp[last] < list.cursor
        BY <1>a, <2>7, <3>3 DEF ListRow, Matching
      <4>2. \A e \in list.shown : stamp[e] \in Int /\ stamp[e] >= list.cursor
        BY <1>b, <2>4, <3>3 DEF Walked
      <4>3. \A e \in list.shown : stamp[e] >= stamp[last]
        BY <2>7, <4>1, <4>2
      <4> QED  BY <3>1, <4>3
    <3> QED  BY <3>2, <3>3
  <2>9. ASSUME NEW e \in rows, e \notin page, stamp[e] # stamp[last]
        PROVE  stamp[e] < stamp[last]
    <3>1. e \notin fetched
      BY <2>9
    <3>2. stamp[last] >= stamp[e] /\ stamp[e] \in Int
      BY <1>b, <2>3, <2>9, <3>1
    <3> QED  BY <2>7, <2>9, <3>2
  <2>10. \A e \in rows : e \in page \/ stamp[e] = stamp[last]
                           \/ stamp[e] < stamp[last]
    BY <2>9
  <2>14. Stored' = Stored /\ stamp[last] # None
    BY <1>a, <2>4, <2>7 DEF Stored
  <2>11. \A e \in Stored : stamp'[e] < list'.cursor => e \in Matching(list.cursor)'
    BY <2>4, <2>6, <2>14 DEF Matching, Stored
  <2>12. \A e \in list.known : \/ e \in list.shown \/ stamp[e] \in list.cursors
                                \/ e \in rows
    BY <2>4 DEF Walked
  <2>13. list.known \union list.shown \union page \subseteq Stored /\ list.repeated = {}
    BY <2>3, <2>4 DEF Walked
  <2> HIDE DEF page, rows
  <2> QED  BY <2>4, <2>6, <2>8, <2>10, <2>11, <2>12, <2>13, <2>14 DEF Walked
<1>4. CASE LastPage
  <2>1. PICK fetched \in SUBSET Events :
          /\ Newest(list.limit + 1, Matching(list.cursor), fetched)
          /\ Cardinality(fetched) <= list.limit
          /\ list' = [Show(fetched) EXCEPT !.pc = "end"]
    BY <1>4 DEF LastPage
  <2> DEFINE rows == Matching(list.cursor)
  <2>2. list.pc = "open" /\ stamp' = stamp /\ Stored' = Stored
    BY <1>4 DEF LastPage, Stored
  <2>3. /\ fetched \subseteq rows /\ rows \subseteq Stored
        /\ Cardinality(fetched) = IF list.limit + 1 < Cardinality(rows)
                                  THEN list.limit + 1 ELSE Cardinality(rows)
    BY <2>1 DEF Newest, Matching
  <2>4. IsFiniteSet(rows) /\ Cardinality(rows) \in Nat
    BY <1>a, <2>3, FS_Subset, FS_CardinalityType
  <2>5. Cardinality(fetched) = Cardinality(rows)
    <3>1. list.limit \in Nat
      BY <1>a, TimeSeriesConstants DEF ListRow
    <3> QED  BY <2>1, <2>3, <3>1
  <2>6. fetched = rows
    BY <2>3, <2>4, <2>5, FS_Subset
  <2>7. list.shown \intersect fetched = {}
    BY <1>e, <2>2, <2>6
  <2>8. /\ list'.shown = list.shown \union fetched /\ list'.repeated = list.repeated
        /\ list'.known = list.known /\ list'.pc = "end" /\ list'.cursors = list.cursors
    <3> DEFINE base == Show(fetched)
    <3>1. /\ base.shown = list.shown \union fetched
          /\ base.repeated = list.repeated \union (list.shown \intersect fetched)
          /\ base.known = list.known /\ base.cursors = list.cursors /\ base \in ListRow
      BY <1>d
    <3>2. list' = [base EXCEPT !.pc = "end"]
      BY <2>1
    <3> HIDE DEF base
    <3> QED  BY <2>7, <3>1, <3>2 DEF ListRow
  <2>9. \A e \in list.known : \/ e \in list.shown \/ stamp[e] \in list.cursors
                               \/ e \in rows
    BY <2>2 DEF Walked
  <2>10. list.known \union list.shown \union fetched \subseteq Stored /\ list.repeated = {}
    BY <2>2, <2>3 DEF Walked
  <2> HIDE DEF rows
  <2> QED  BY <2>2, <2>6, <2>8, <2>9, <2>10 DEF Walked
<1>5. CASE Tick
  BY <1>5, <1>c DEF Tick
<1>6. ASSUME NEW range \in Ranges, BeginOverview(range) \/ BeginRevenue(range)
      PROVE  Walked'
  BY <1>6, <1>c DEF BeginOverview, BeginRevenue, Report
<1>7. CASE ReportStep
  BY <1>7, <1>c DEF ReportStep, ReadEvents, ReadPrevious, ReadChart, ReadBefore, Report
<1>8. CASE UNCHANGED vars
  BY <1>8, <1>c DEF vars
<1> QED
  BY <1>1, <1>2, <1>3, <1>4, <1>5, <1>6, <1>7, <1>8 DEF Next

(* Whatever arrives while a client walks through the pages, of any size,   *)
(* it sees no event twice, and misses only events whose timestamp is that  *)
(* of a cursor (EventsView filters by timestamp__lt).                      *)
THEOREM PagesMissNothingElse == Spec => []PagesMissOnlyCursors
<1>1. Init => Walked
  BY DEF Init, Walked, IdleList
<1>2. ASSUME TypeOK, Walked PROVE PagesMissOnlyCursors
  BY <1>2 DEF Walked, PagesMissOnlyCursors, TypeOK
<1> QED
  BY <1>1, <1>2, InitType, TypeStep, WalkStep, PTL DEF Spec

-----------------------------------------------------------------------------
(* Division.                                                               *)

LEMMA Division ==
  ASSUME NEW t \in Int, NEW d \in Nat \ {0}
  PROVE  t \div d \in Int /\ t = (t \div d) * d + (t % d)
OBVIOUS

LEMMA MultiplesApart ==
  ASSUME NEW n \in Int, NEW d \in Nat \ {0}, n * d < d, -d < n * d
  PROVE  n = 0
<1>1. ASSUME n >= 1 PROVE n * d >= d
  BY <1>1
<1>2. ASSUME n <= -1 PROVE n * d <= -d
  BY <1>2
<1>3. n * d \in Int
  OBVIOUS
<1> QED
  BY <1>1, <1>2, <1>3

(* A whole number of units before a time, what is left over is the same.   *)
LEMMA SameRemainder ==
  ASSUME NEW t \in Int, NEW k \in Int, NEW d \in Nat \ {0}
  PROVE  (t - k * d) % d = t % d
<1> DEFINE u == t - k * d
           x == t \div d
           y == u \div d
           r == t % d
           s == u % d
<1>1. u \in Int /\ k * d \in Int /\ u = t - k * d
  OBVIOUS
<1> HIDE DEF u
<1>2. /\ r \in 0..(d - 1) /\ s \in 0..(d - 1) /\ x \in Int /\ y \in Int
      /\ t = x * d + r /\ u = y * d + s
  BY <1>1, Remainder, Division
<1> HIDE DEF x, y, r, s
<1>3. x - k - y \in Int /\ (x - k - y) * d = x * d - k * d - y * d
  BY <1>2
<1>4. x * d \in Int /\ y * d \in Int
  BY <1>2
<1>5. (x - k - y) * d = s - r
  BY <1>1, <1>2, <1>3, <1>4
<1>6. (x - k - y) * d < d /\ -d < (x - k - y) * d
  BY <1>2, <1>5
<1>7. x - k - y = 0
  BY <1>3, <1>6, MultiplesApart
<1>8. (x - k - y) * d = 0
  BY <1>7
<1> QED
  BY <1>2, <1>5, <1>8 DEF u, r, s

(* Spans leave no gap: what lies between their ends lies in one of them,   *)
(* and none begins before the first.                                       *)
LEMMA SpansCover ==
  ASSUME NEW n \in Nat \ {0}, NEW start \in Int, NEW length \in Nat \ {0}
  PROVE  /\ DOMAIN Spans(n, start, length) = 1..n
         /\ Spans(n, start, length)[1].start = start
         /\ \A i \in 1..n : Spans(n, start, length)[i].start >= start
         /\ \A s \in Int : start <= s /\ s < start + n * length =>
              \E i \in 1..n : /\ Spans(n, start, length)[i].start <= s
                              /\ s < Spans(n, start, length)[i].end
<1> DEFINE p == Spans(n, start, length)
<1>1. /\ DOMAIN p = 1..n
      /\ \A i \in 1..n : /\ p[i].start = start + (i - 1) * length
                         /\ p[i].end = start + i * length
  BY DEF Spans
<1> HIDE DEF p
<1>2. \A i \in 1..n : (i - 1) * length \in Nat /\ start + (i - 1) * length >= start
  OBVIOUS
<1>3. p[1].start = start
  BY <1>1
<1>4. ASSUME NEW s \in Int, start <= s, s < start + n * length
      PROVE  \E i \in 1..n : p[i].start <= s /\ s < p[i].end
  <2> DEFINE k == (s - start) \div length
             r == (s - start) % length
  <2>1. s - start \in Int /\ s - start >= 0
    BY <1>4
  <2>2. k \in Int /\ s - start = k * length + r /\ r \in 0..(length - 1)
    BY <2>1, Division, Remainder
  <2> HIDE DEF k, r
  <2>3. k >= 0
    <3>1. ASSUME k <= -1 PROVE k * length <= -length
      BY <2>2, <3>1
    <3>2. k * length \in Int
      BY <2>2
    <3> QED  BY <2>1, <2>2, <3>1, <3>2
  <2>4. k < n
    <3>1. ASSUME k >= n PROVE k * length >= n * length
      BY <2>2, <3>1
    <3>2. k * length \in Int /\ n * length \in Int
      BY <2>2
    <3> QED  BY <1>4, <2>2, <3>1, <3>2
  <2>5. k + 1 \in 1..n /\ (k + 1) - 1 = k
    BY <2>2, <2>3, <2>4
  <2>6. (k + 1) * length = k * length + length
        /\ k * length \in Int
    BY <2>2
  <2>7. p[k + 1].start = start + k * length /\ p[k + 1].end = start + k * length + length
    BY <1>1, <2>5, <2>6
  <2>8. s = start + k * length + r
    BY <2>2, <2>6
  <2> QED  BY <2>2, <2>5, <2>6, <2>7, <2>8
<1> QED
  BY <1>1, <1>2, <1>3, <1>4 DEF p

(* Buckets that begin at first and leave out nothing up to next.           *)
Reaches(specs, first, next) ==
  /\ specs[1].start = first
  /\ \A i \in DOMAIN specs : specs[i].start >= first
  /\ \A s \in Int : first <= s /\ s < next =>
       \E i \in DOMAIN specs : specs[i].start <= s /\ s < specs[i].end

(* The buckets that reach back k units from the one that begins at floor.  *)
LEMMA SpansBack ==
  ASSUME NEW floor \in Int, NEW u \in Nat \ {0}, NEW k \in Nat,
         NEW n \in Nat \ {0}, NEW length \in Nat \ {0}, n * length >= (k + 1) * u
  PROVE  Reaches(Spans(n, floor - k * u, length), floor - k * u, floor + u)
<1> DEFINE first == floor - k * u
           reach == n * length
<1>1. first \in Int /\ reach \in Int
  OBVIOUS
<1>2. floor + u <= first + reach
  <2>1. k * u \in Int /\ (k + 1) * u = k * u + u
    OBVIOUS
  <2> QED  BY <1>1, <2>1
<1>3. /\ DOMAIN Spans(n, first, length) = 1..n
      /\ Spans(n, first, length)[1].start = first
      /\ \A i \in 1..n : Spans(n, first, length)[i].start >= first
      /\ \A s \in Int : first <= s /\ s < first + reach =>
           \E i \in 1..n : /\ Spans(n, first, length)[i].start <= s
                           /\ s < Spans(n, first, length)[i].end
  BY <1>1, SpansCover
<1> HIDE DEF first, reach
<1>4. \A s \in Int : s < floor + u => s < first + reach
  BY <1>1, <1>2
<1>5. Reaches(Spans(n, first, length), first, floor + u)
  BY <1>3, <1>4 DEF Reaches
<1> QED
  BY <1>5 DEF first

(* The window of an overview: its buckets begin no earlier than the period *)
(* before could end, reach to the end of the day (24h: the hour), and      *)
(* begin less than a day (an hour) after its range does.                   *)
InWindow(range, t, first, next) ==
  /\ first \in Int /\ next \in Int /\ t < next
  /\ next - Duration(range) <= first
  /\ range # "12m" => /\ first - Unit(range) <= t - Duration(range)
                      /\ t - Duration(range) <= first

LEMMA Window ==
  ASSUME NEW range, NEW t \in Int
  PROVE  /\ Duration(range) \in Nat
         /\ \E first : /\ InWindow(range, t, first, NextUnit(range, t))
                       /\ Reaches(BucketSpecs(range, t), first, NextUnit(range, t))
<1>1. /\ Day \in Nat \ {0} /\ Hour \in Nat \ {0} /\ 24 * Hour = Day
      /\ 7 * Day \in Nat \ {0}
  BY DayPositive
(* Of the k units before that of t, with a duration of k + 1 of them.      *)
<1>2. ASSUME NEW u \in Nat \ {0}, NEW k \in Nat, NEW d \in Int, d >= (k + 1) * u
      PROVE  /\ t - (t % u) \in Int /\ t - (t % u) - k * u \in Int
             /\ t < t - (t % u) + u
             /\ t - (t % u) + u - d <= t - (t % u) - k * u
             /\ d = (k + 1) * u => /\ t - (t % u) - k * u - u <= t - d
                                   /\ t - d <= t - (t % u) - k * u
  <2>1. t % u \in 0..(u - 1)
    BY Remainder
  <2>2. k * u \in Int /\ (k + 1) * u = k * u + u
    OBVIOUS
  <2> DEFINE r == t % u
             a == k * u
  <2>3. r \in Int /\ 0 <= r /\ r < u /\ a \in Int /\ d >= a + u /\ (k + 1) * u = a + u
    BY <1>2, <2>1, <2>2
  <2> HIDE DEF r, a
  <2>4. /\ t - r \in Int /\ t - r - a \in Int /\ t < t - r + u
        /\ t - r + u - d <= t - r - a
        /\ d = a + u => t - r - a - u <= t - d /\ t - d <= t - r - a
    BY <2>3
  <2> QED  BY <2>3, <2>4 DEF r, a
<1>3. ASSUME NEW k \in Nat PROVE Midnight(t - k * Day) = t - (t % Day) - k * Day
  <2>1. t % Day \in Int
    BY <1>1, Remainder
  <2>2. (t - k * Day) % Day = t % Day
    <3>1. k \in Int /\ Day \in Nat \ {0}
      BY <1>1
    <3> QED  BY <3>1, SameRemainder, Zenon
  <2>3. k * Day \in Int
    BY <1>1
  <2> QED  BY <2>1, <2>2, <2>3 DEF Midnight
<1>4. CASE range = "24h"
  <2> DEFINE floor == t - (t % Hour)
             first == floor - 23 * Hour
  <2>1. /\ BucketSpecs(range, t) = Spans(24, first, Hour)
        /\ Unit(range) = Hour /\ Duration(range) = Day /\ NextUnit(range, t) = floor + Hour
    BY <1>4 DEF BucketSpecs, Unit, Duration, NextUnit
  <2>2. Day = (23 + 1) * Hour /\ 24 * Hour >= (23 + 1) * Hour /\ Day \in Int
    BY <1>1
  <2>3. /\ floor \in Int /\ first \in Int /\ t < floor + Hour /\ floor + Hour - Day <= first
        /\ first - Hour <= t - Day /\ t - Day <= first
    BY <1>1, <1>2, <2>2
  <2> HIDE DEF floor
  <2>4. Reaches(Spans(24, first, Hour), first, floor + Hour)
    <3>1. 24 \in Nat \ {0} /\ 23 \in Nat
      OBVIOUS
    <3> QED  BY <1>1, <2>2, <2>3, <3>1, SpansBack, Zenon
  <2> HIDE DEF first
  <2>5. InWindow(range, t, first, floor + Hour)
    BY <1>1, <2>1, <2>3 DEF InWindow
  <2> QED  BY <1>1, <2>1, <2>4, <2>5
<1>5. CASE range = "90d"
  <2> DEFINE floor == t - (t % Day)
             first == floor - 89 * Day
  <2>1. /\ BucketSpecs(range, t) = Spans(13, first, 7 * Day)
        /\ Unit(range) = Day /\ Duration(range) = 90 * Day
        /\ NextUnit(range, t) = floor + Day
    BY <1>3, <1>5 DEF BucketSpecs, Unit, Duration, NextUnit
  <2>2. /\ 90 * Day = (89 + 1) * Day /\ 13 * (7 * Day) >= (89 + 1) * Day
        /\ 90 * Day \in Nat
    BY <1>1
  <2>3. /\ floor \in Int /\ first \in Int /\ t < floor + Day
        /\ floor + Day - 90 * Day <= first
        /\ first - Day <= t - 90 * Day /\ t - 90 * Day <= first
    BY <1>1, <1>2, <2>2
  <2> HIDE DEF floor
  <2>4. Reaches(Spans(13, first, 7 * Day), first, floor + Day)
    <3>1. 13 \in Nat \ {0} /\ 89 \in Nat
      OBVIOUS
    <3> QED  BY <1>1, <2>2, <2>3, <3>1, SpansBack, Zenon
  <2> HIDE DEF first
  <2>5. InWindow(range, t, first, floor + Day)
    BY <1>1, <2>1, <2>3 DEF InWindow
  <2> QED  BY <2>1, <2>2, <2>4, <2>5
<1>6. CASE range = "30d"
  <2> DEFINE floor == t - (t % Day)
             first == floor - 29 * Day
  <2>1. /\ BucketSpecs(range, t) = Spans(30, first, Day)
        /\ Unit(range) = Day /\ Duration(range) = 30 * Day
        /\ NextUnit(range, t) = floor + Day
    BY <1>3, <1>6 DEF BucketSpecs, Unit, Duration, NextUnit
  <2>2. /\ 30 * Day = (29 + 1) * Day /\ 30 * Day >= (29 + 1) * Day
        /\ 30 * Day \in Nat
    BY <1>1
  <2>3. /\ floor \in Int /\ first \in Int /\ t < floor + Day
        /\ floor + Day - 30 * Day <= first
        /\ first - Day <= t - 30 * Day /\ t - 30 * Day <= first
    BY <1>1, <1>2, <2>2
  <2> HIDE DEF floor
  <2>4. Reaches(Spans(30, first, Day), first, floor + Day)
    <3>1. 30 \in Nat \ {0} /\ 29 \in Nat
      OBVIOUS
    <3> QED  BY <1>1, <2>2, <2>3, <3>1, SpansBack, Zenon
  <2> HIDE DEF first
  <2>5. InWindow(range, t, first, floor + Day)
    BY <1>1, <2>1, <2>3 DEF InWindow
  <2> QED  BY <2>1, <2>2, <2>4, <2>5
<1>7. CASE range \notin {"24h", "90d", "30d"}
  <2> DEFINE floor == t - (t % Day)
             first == floor - 6 * Day
             d == Duration(range)
  <2>1. /\ BucketSpecs(range, t) = Spans(7, first, Day)
        /\ Unit(range) = Day /\ NextUnit(range, t) = floor + Day
        /\ d = IF range = "12m" THEN 365 * Day ELSE 7 * Day
    BY <1>3, <1>7 DEF BucketSpecs, Unit, Duration, NextUnit
  <2>2. /\ 7 * Day = (6 + 1) * Day /\ 7 * Day >= (6 + 1) * Day
        /\ 365 * Day >= (6 + 1) * Day /\ 7 * Day \in Nat /\ 365 * Day \in Nat
    BY <1>1
  <2> HIDE DEF d
  <2>3. d \in Nat /\ d >= (6 + 1) * Day /\ (range # "12m" => d = (6 + 1) * Day)
    BY <2>1, <2>2
  <2>4. /\ floor \in Int /\ first \in Int /\ t < floor + Day /\ floor + Day - d <= first
        /\ range # "12m" => first - Day <= t - d /\ t - d <= first
    BY <1>1, <1>2, <2>3
  <2> HIDE DEF floor
  <2>5. Reaches(Spans(7, first, Day), first, floor + Day)
    <3>1. 7 \in Nat \ {0} /\ 6 \in Nat
      OBVIOUS
    <3> QED  BY <1>1, <2>2, <2>4, <3>1, SpansBack, Zenon
  <2> HIDE DEF first
  <2>6. InWindow(range, t, first, floor + Day)
    BY <1>1, <2>1, <2>4 DEF InWindow, d
  <2> QED  BY <2>1, <2>3, <2>5, <2>6 DEF d
<1> QED
  BY <1>4, <1>5, <1>6, <1>7

(* A revenue chart begins no earlier than its range, but for twelve months *)
(* with a 29th of February.                                                *)
LEMMA ChartBegins ==
  ASSUME NEW range, NEW t \in Clock
  PROVE  \/ ChartSpecs(range, t)[1].start >= t - Duration(range)
         \/ /\ range = "12m"
            /\ MonthStart[MonthOf(t) + 1] - MonthStart[MonthOf(t) - 11] > 365 * Day
<1>1. t \in Int /\ 365 * Day \in Int
  BY DayPositive, TimeSeriesConstants
<1>2. CASE range # "12m"
  <2>1. ChartSpecs(range, t) = BucketSpecs(range, t)
    BY <1>2 DEF ChartSpecs
  <2>2. /\ BucketSpecs(range, t)[1].start \in Int /\ Duration(range) \in Nat
        /\ t - Duration(range) <= BucketSpecs(range, t)[1].start
    BY <1>1, <1>2, Window DEF InWindow, Reaches
  <2> QED  BY <1>1, <2>1, <2>2
<1>3. CASE range = "12m"
  <2> DEFINE n == MonthOf(t)
  <2>1. ChartSpecs(range, t)[1].start = MonthStart[n - 11]
    BY <1>3, MonthsTile DEF ChartSpecs
  <2>2. Duration(range) = 365 * Day
    BY <1>3 DEF Duration
  <2>3. t < MonthStart[n + 1] /\ n + (-11) \in Months /\ n + 1 \in Months /\ n \in Int
    BY MonthAt
  <2>4. n - 11 \in Months
    BY <2>3
  <2> HIDE DEF n
  <2>5. MonthStart[n - 11] \in Int /\ MonthStart[n + 1] \in Int
    BY <2>3, <2>4, TimeSeriesConstants
  <2>6. \/ MonthStart[n - 11] >= t - 365 * Day
        \/ MonthStart[n + 1] - MonthStart[n - 11] > 365 * Day
    BY <1>1, <2>3, <2>5
  <2> QED  BY <1>3, <2>1, <2>2, <2>6 DEF n
<1> QED
  BY <1>2, <1>3

-----------------------------------------------------------------------------
(* What a report knows, as far as the parts that it has read go.           *)

FirstBucket == BucketSpecs(rep.range, rep.began)[1].start

(* The total has what is known and as recent as the range, now or later.   *)
TotalReaches ==
  \A e \in rep.known : stamp[e] >= now - Duration(rep.range) => e \in rep.total

(* The sessions are what is known from the first bucket on, the range      *)
(* being counted from time t.                                              *)
SessionsReach(t) ==
  /\ \A e \in rep.sessions : e \in Stored /\ stamp[e] >= FirstBucket
  /\ rep.range # "12m" =>
       \A e \in rep.known :
         FirstBucket <= stamp[e] /\ stamp[e] < NextUnit(rep.range, rep.began)
         /\ stamp[e] >= t - Duration(rep.range) => e \in rep.sessions

Counted ==
  /\ CountsAgree
  /\ rep.pc # "idle" =>
       /\ rep.known \union rep.sessions \union rep.previous \subseteq Stored
       /\ rep.began <= now
  /\ rep.pc \notin {"idle", "events"} => TotalReaches
  /\ rep.pc = "previous" => SessionsReach(now)

LEMMA ReportFacts ==
  ASSUME TypeOK
  PROVE  /\ rep \in ReportRow /\ now \in Int /\ now \in Clock
         /\ Stored \subseteq Events /\ \A e \in Stored : stamp[e] \in Int
         /\ Duration(rep.range) \in Nat
         /\ rep.pc # "idle" => rep.began \in Int
<1>1. /\ rep \in ReportRow /\ now \in Int /\ now \in Clock
      /\ Stored \subseteq Events /\ \A e \in Stored : stamp[e] \in Int
  BY TimeSeriesConstants DEF TypeOK, Stored
<1>2. Duration(rep.range) \in Nat
  BY <1>1, Window
<1>3. rep.pc # "idle" => rep.began \in Int
  BY TimeSeriesConstants DEF TypeOK
<1> QED
  BY <1>1, <1>2, <1>3

(* Time and arrivals take nothing back.                                    *)
LEMMA CountedLater ==
  ASSUME TypeOK, Counted, rep' = rep, now' \in Int, now <= now',
         Stored \subseteq Stored', \A e \in Stored : stamp'[e] = stamp[e]
  PROVE  Counted'
<1>1. CASE rep.pc = "idle"
  BY <1>1 DEF Counted, CountsAgree, SessionsCountedOnce, RevenueOverlooksNone,
     ChartWithinTotal
<1>2. CASE rep.pc # "idle"
  <2>1. /\ rep.known \subseteq Stored /\ rep.sessions \subseteq Stored
        /\ rep.previous \subseteq Stored /\ rep.began <= now
    BY <1>2 DEF Counted
  <2>2. \A e \in rep.known \union rep.sessions : stamp'[e] = stamp[e]
    BY <2>1
  <2>3. rep.began <= now' /\ \A e \in Stored :
          stamp[e] >= now' - Duration(rep.range) => stamp[e] >= now - Duration(rep.range)
    BY <1>2, <2>1, ReportFacts
  <2>4. SessionsCountedOnce' /\ RevenueOverlooksNone' /\ ChartWithinTotal'
    <3>1. SessionsCountedOnce /\ RevenueOverlooksNone /\ ChartWithinTotal
      BY DEF Counted, CountsAgree
    <3>2. SessionsCountedOnce'
      BY <2>2, <3>1 DEF SessionsCountedOnce
    <3>3. RevenueOverlooksNone'
      BY <2>2, <3>1 DEF RevenueOverlooksNone
    <3>4. ChartWithinTotal'
      BY <3>1 DEF ChartWithinTotal
    <3> QED  BY <3>2, <3>3, <3>4
  <2>5. TotalReaches => TotalReaches'
    BY <2>1, <2>2, <2>3 DEF TotalReaches
  <2>6. SessionsReach(now) => SessionsReach(now)'
    BY <2>1, <2>2, <2>3 DEF SessionsReach, FirstBucket
  <2> QED  BY <2>1, <2>3, <2>4, <2>5, <2>6 DEF Counted, CountsAgree
<1> QED
  BY <1>1, <1>2

LEMMA EventsCounted ==
  ASSUME TypeOK, Counted, ReadEvents
  PROVE  Counted'
<1> DEFINE specs == BucketSpecs(rep.range, rep.began)
           total == InRange(rep.range, now)
           sessions == Bucketed(total, specs)
           pc == IF rep.kind = "overview" THEN "previous" ELSE "chart"
           row == [rep EXCEPT !.pc = pc, !.total = total, !.sessions = sessions]
<1>1. rep.pc = "events" /\ rep' = row /\ UNCHANGED <<now, stamp>>
  BY DEF ReadEvents, Report
<1>2. /\ rep.known \subseteq Stored /\ rep.previous \subseteq Stored /\ rep.began <= now
  BY <1>1 DEF Counted
<1>3. /\ \A e \in Stored : e \in total <=> stamp[e] >= now - Duration(rep.range)
      /\ total \subseteq Stored
  BY DEF InRange, RangeStart
<1>4. \A e \in total : e \in sessions <=> \E i \in DOMAIN specs :
                          specs[i].start <= stamp[e] /\ stamp[e] < specs[i].end
  BY DEF Bucketed
<1>5. sessions \subseteq total
  BY DEF Bucketed
<1>6. /\ row.pc = pc /\ row.total = total /\ row.sessions = sessions
      /\ row.kind = rep.kind /\ row.range = rep.range /\ row.known = rep.known
      /\ row.previous = rep.previous /\ row.began = rep.began
  BY ReportFacts DEF ReportRow
<1>7. pc \in {"previous", "chart"} /\ (pc # "previous" => rep.kind # "overview")
  OBVIOUS
<1>8. PICK first : /\ InWindow(rep.range, rep.began, first, NextUnit(rep.range, rep.began))
                   /\ Reaches(specs, first, NextUnit(rep.range, rep.began))
  BY <1>1, ReportFacts, Window
<1>9. FirstBucket = first /\ first \in Int
  BY <1>8 DEF FirstBucket, Reaches, InWindow
<1>10. \A i \in DOMAIN specs : specs[i].start \in Int
  BY <1>1 DEF TypeOK, Tiling
<1> HIDE DEF specs, total, sessions, pc, row
<1>11. ASSUME NEW e \in sessions PROVE e \in Stored /\ stamp[e] >= first
  <2>1. e \in total /\ e \in Stored
    BY <1>3, <1>5, <1>11
  <2>2. PICK i \in DOMAIN specs : specs[i].start <= stamp[e]
    BY <1>4, <1>11, <2>1
  <2>3. specs[i].start >= first /\ specs[i].start \in Int /\ stamp[e] \in Int
    BY <1>8, <1>10, <2>1, ReportFacts DEF Reaches
  <2> QED  BY <1>9, <2>1, <2>2, <2>3
<1>12. ASSUME NEW e \in rep.known, first <= stamp[e],
              stamp[e] < NextUnit(rep.range, rep.began),
              stamp[e] >= now - Duration(rep.range)
       PROVE  e \in sessions
  <2>1. e \in total /\ stamp[e] \in Int
    BY <1>2, <1>3, <1>12, ReportFacts
  <2>2. \E i \in DOMAIN specs : specs[i].start <= stamp[e] /\ stamp[e] < specs[i].end
    BY <1>8, <1>12, <2>1 DEF Reaches
  <2> QED  BY <1>4, <2>1, <2>2
<1>13. FirstBucket' = first
  BY <1>1, <1>6, <1>9 DEF FirstBucket
<1>14. TotalReaches'
  BY <1>1, <1>2, <1>3, <1>6 DEF TotalReaches
<1>15. Stored' = Stored /\ now' = now /\ stamp' = stamp
  BY <1>1 DEF Stored
<1>16. SessionsReach(now)'
  BY <1>1, <1>6, <1>11, <1>12, <1>13, <1>15 DEF SessionsReach
<1>17. CountsAgree'
  BY <1>1, <1>6, <1>7 DEF CountsAgree, SessionsCountedOnce, RevenueOverlooksNone,
     ChartWithinTotal
<1> QED
  BY <1>1, <1>2, <1>6, <1>11, <1>14, <1>15, <1>16, <1>17 DEF Counted

LEMMA PreviousCounted ==
  ASSUME TypeOK, Counted, ReadPrevious
  PROVE  Counted'
<1> DEFINE previous == PreviousPeriod(rep.range, now)
           row == [rep EXCEPT !.pc = "chart", !.previousAt = now, !.previous = previous]
           d == Duration(rep.range)
           next == NextUnit(rep.range, rep.began)
<1>1. rep.pc = "previous" /\ rep' = row /\ UNCHANGED <<now, stamp>>
  BY DEF ReadPrevious, Report
<1>2. /\ rep.known \subseteq Stored /\ rep.sessions \subseteq Stored /\ rep.began <= now
      /\ SessionsReach(now) /\ TotalReaches
  BY <1>1 DEF Counted
<1>3. /\ previous \subseteq Stored
      /\ \A e \in Stored : e \in previous <=> stamp[e] >= now - d - d /\ stamp[e] < now - d
  BY DEF PreviousPeriod, RangeStart
<1>4. /\ row.pc = "chart" /\ row.previous = previous /\ row.previousAt = now
      /\ row.kind = rep.kind /\ row.range = rep.range /\ row.known = rep.known
      /\ row.total = rep.total /\ row.sessions = rep.sessions /\ row.began = rep.began
  BY ReportFacts DEF ReportRow
<1>5. PICK first : /\ InWindow(rep.range, rep.began, first, next)
                   /\ Reaches(BucketSpecs(rep.range, rep.began), first, next)
  BY <1>1, ReportFacts, Window
<1>6. FirstBucket = first /\ first \in Int /\ next \in Int
  BY <1>5 DEF FirstBucket, Reaches, InWindow
<1>7. /\ d \in Nat /\ now \in Int /\ rep.began \in Int /\ \A e \in Stored : stamp[e] \in Int
  BY <1>1, ReportFacts
<1>8. /\ next - d <= first
      /\ rep.range # "12m" => first - Unit(rep.range) <= rep.began - d
  BY <1>5 DEF InWindow
<1> HIDE DEF previous, row, d, next
<1>9. ASSUME now < next PROVE rep.sessions \intersect previous = {}
  <2> SUFFICES ASSUME NEW e \in rep.sessions, e \in previous PROVE FALSE
    OBVIOUS
  <2>1. e \in Stored /\ stamp[e] >= first
    BY <1>2, <1>6 DEF SessionsReach
  <2>2. stamp[e] < now - d
    BY <1>3, <2>1
  <2> QED  BY <1>6, <1>7, <1>8, <1>9, <2>1, <2>2
<1>10. Unit(rep.range) \in Int
  BY DayPositive DEF Unit
<1>11. ASSUME rep.range # "12m", NEW e \in rep.known \ (rep.sessions \union previous)
       PROVE  \/ stamp[e] < now - 2 * d \/ stamp[e] >= next
              \/ first - Unit(rep.range) <= stamp[e] /\ stamp[e] < first
  <2>1. e \in Stored /\ stamp[e] \in Int
    BY <1>2, <1>7
  <2>2. stamp[e] < now - d - d \/ stamp[e] >= now - d
    BY <1>3, <1>7, <1>11, <2>1
  <2>3. CASE stamp[e] < now - d - d
    BY <1>7, <2>1, <2>3
  <2>4. CASE stamp[e] >= now - d
    <3>1. ~ (first <= stamp[e] /\ stamp[e] < next)
      BY <1>2, <1>6, <1>11, <2>4 DEF SessionsReach, d, next
    <3>2. first - Unit(rep.range) <= stamp[e]
      BY <1>2, <1>6, <1>7, <1>8, <1>10, <1>11, <2>1, <2>4
    <3> QED  BY <1>6, <2>1, <3>1, <3>2
  <2> QED  BY <2>2, <2>3, <2>4
<1>12. Stored' = Stored /\ now' = now /\ stamp' = stamp
  BY <1>1 DEF Stored
<1>13. BucketSpecs(row.range, row.began)[1].start = first
  BY <1>4, <1>6 DEF FirstBucket
<1>14. SessionsCountedOnce'
  <2> SUFFICES ASSUME now < next
               PROVE  /\ rep'.sessions \intersect rep'.previous = {}
                      /\ rep'.range # "12m" =>
                           \A e \in rep'.known \ (rep'.sessions \union rep'.previous) :
                             \/ stamp'[e] < rep'.previousAt - 2 * Duration(rep'.range)
                             \/ stamp'[e] >= NextUnit(rep'.range, rep'.began)
                             \/ first - Unit(rep'.range) <= stamp'[e] /\ stamp'[e] < first
    BY <1>1, <1>4, <1>13 DEF SessionsCountedOnce, next
  <2> QED  BY <1>1, <1>4, <1>9, <1>11, <1>12 DEF d, next
<1>15. RevenueOverlooksNone' /\ ChartWithinTotal'
  BY <1>1, <1>4 DEF RevenueOverlooksNone, ChartWithinTotal
<1>16. TotalReaches'
  BY <1>1, <1>2, <1>4 DEF TotalReaches
<1> QED
  BY <1>1, <1>2, <1>3, <1>4, <1>12, <1>14, <1>15, <1>16 DEF Counted, CountsAgree

LEMMA ChartCounted ==
  ASSUME TypeOK, Counted, ReadChart
  PROVE  Counted'
<1> DEFINE specs == ChartSpecs(rep.range, now)
           chart == Bucketed({e \in Stored : stamp[e] >= specs[1].start}, specs)
           pc == IF rep.kind = "overview" THEN "before" ELSE "done"
           row == [rep EXCEPT !.pc = pc, !.chartAt = now, !.chart = chart]
<1>1. rep.pc = "chart" /\ rep' = row /\ UNCHANGED <<now, stamp>>
  BY DEF ReadChart, Report
<1>2. /\ rep.known \union rep.sessions \union rep.previous \subseteq Stored
      /\ rep.began <= now /\ TotalReaches /\ SessionsCountedOnce
  BY <1>1 DEF Counted, CountsAgree
<1>3. \A e \in chart : e \in Stored /\ stamp[e] >= specs[1].start
  BY DEF Bucketed
<1>4. /\ row.pc = pc /\ row.chart = chart /\ row.chartAt = now
      /\ row.kind = rep.kind /\ row.range = rep.range /\ row.known = rep.known
      /\ row.total = rep.total /\ row.sessions = rep.sessions /\ row.began = rep.began
      /\ row.previous = rep.previous /\ row.previousAt = rep.previousAt
  BY ReportFacts DEF ReportRow
<1>5. \/ specs[1].start >= now - Duration(rep.range)
      \/ /\ rep.range = "12m"
         /\ MonthStart[MonthOf(now) + 1] - MonthStart[MonthOf(now) - 11] > 365 * Day
  BY ReportFacts, ChartBegins
<1>6. specs[1].start \in Int
  <2>1. Tiling(specs)
    BY ReportFacts, ChartsTile
  <2>2. 1 \in DOMAIN specs
    <3>1. DOMAIN MonthSpecs(now) = 1..12
      BY DEF MonthSpecs
    <3>2. 1 \in DOMAIN BucketSpecs(rep.range, now)
      BY DEF BucketSpecs, Spans
    <3> QED  BY <3>1, <3>2 DEF ChartSpecs
  <2> QED  BY <2>1, <2>2 DEF Tiling
<1>7. pc \in {"before", "done"} /\ (rep.kind = "overview" => pc = "before")
  OBVIOUS
<1> HIDE DEF specs, chart, pc, row
<1>8. ASSUME specs[1].start >= now - Duration(rep.range)
      PROVE  rep'.chart \intersect rep'.known \subseteq rep'.total
  <2>1. ASSUME NEW e \in chart, e \in rep.known PROVE e \in rep.total
    <3>1. e \in Stored /\ stamp[e] >= specs[1].start /\ stamp[e] \in Int
      BY <1>3, <2>1, ReportFacts
    <3>2. stamp[e] >= now - Duration(rep.range)
      BY <1>6, <1>8, <3>1, ReportFacts
    <3> QED  BY <1>2, <2>1, <3>2 DEF TotalReaches
  <2> QED  BY <1>1, <1>4, <2>1
<1>9. ChartWithinTotal'
  <2>1. rep'.chartAt = now /\ rep'.range = rep.range
    BY <1>1, <1>4
  <2>2. \/ rep'.chart \intersect rep'.known \subseteq rep'.total
        \/ /\ rep'.range = "12m"
           /\ MonthStart[MonthOf(rep'.chartAt) + 1] - MonthStart[MonthOf(rep'.chartAt) - 11]
                > 365 * Day
    BY <1>5, <1>8, <2>1
  <2> QED  BY <2>2 DEF ChartWithinTotal
<1>10. SessionsCountedOnce'
  BY <1>1, <1>2, <1>4, <1>7 DEF SessionsCountedOnce
<1>11. RevenueOverlooksNone'
  BY <1>1, <1>4, <1>7 DEF RevenueOverlooksNone
<1>12. TotalReaches'
  BY <1>1, <1>2, <1>4 DEF TotalReaches
<1>13. Stored' = Stored
  BY <1>1 DEF Stored
<1> QED
  BY <1>1, <1>2, <1>4, <1>7, <1>9, <1>10, <1>11, <1>12, <1>13 DEF Counted, CountsAgree

LEMMA BeforeCounted ==
  ASSUME TypeOK, Counted, ReadBefore
  PROVE  Counted'
<1> DEFINE before == PreviousPeriod(rep.range, now)
           row == [rep EXCEPT !.pc = "done", !.beforeAt = now, !.before = before]
           d == Duration(rep.range)
<1>1. rep.pc = "before" /\ rep' = row /\ UNCHANGED <<now, stamp>>
  BY DEF ReadBefore, Report
<1>2. /\ rep.known \union rep.sessions \union rep.previous \subseteq Stored
      /\ rep.began <= now /\ TotalReaches /\ SessionsCountedOnce /\ ChartWithinTotal
  BY <1>1 DEF Counted, CountsAgree
<1>3. \A e \in Stored : e \in before <=> stamp[e] >= now - d - d /\ stamp[e] < now - d
  BY DEF PreviousPeriod, RangeStart
<1>4. /\ row.pc = "done" /\ row.before = before /\ row.beforeAt = now
      /\ row.kind = rep.kind /\ row.range = rep.range /\ row.known = rep.known
      /\ row.total = rep.total /\ row.sessions = rep.sessions /\ row.began = rep.began
      /\ row.previous = rep.previous /\ row.previousAt = rep.previousAt
      /\ row.chart = rep.chart /\ row.chartAt = rep.chartAt
  BY ReportFacts DEF ReportRow
<1>5. d \in Nat /\ now \in Int /\ \A e \in Stored : stamp[e] \in Int
  BY ReportFacts
<1> HIDE DEF before, row, d
<1>6. ASSUME NEW e \in rep.known
      PROVE  e \in rep.total \union before \/ stamp[e] < now - 2 * d
  <2>1. e \in Stored /\ stamp[e] \in Int
    BY <1>2, <1>5
  <2>2. stamp[e] >= now - d => e \in rep.total
    BY <1>2 DEF TotalReaches, d
  <2> QED  BY <1>3, <1>5, <2>1, <2>2
<1>7. RevenueOverlooksNone'
  BY <1>1, <1>4, <1>6 DEF RevenueOverlooksNone, d
<1>8. SessionsCountedOnce'
  BY <1>1, <1>2, <1>4 DEF SessionsCountedOnce
<1>9. ChartWithinTotal'
  BY <1>1, <1>2, <1>4 DEF ChartWithinTotal
<1>10. TotalReaches'
  BY <1>1, <1>2, <1>4 DEF TotalReaches
<1>11. Stored' = Stored
  BY <1>1 DEF Stored
<1> QED
  BY <1>1, <1>2, <1>4, <1>7, <1>8, <1>9, <1>10, <1>11 DEF Counted, CountsAgree

LEMMA CountedStep == TypeOK /\ Counted /\ [Next]_vars => Counted'
<1> SUFFICES ASSUME TypeOK, Counted, [Next]_vars
             PROVE  Counted'
  OBVIOUS
<1>a. ASSUME UNCHANGED <<now, stamp, rep>> PROVE Counted'
  <2>1. now \in Int /\ now' = now
    BY <1>a, ReportFacts
  <2> QED  BY <1>a, <2>1, CountedLater DEF Stored
<1>1. CASE Tick
  <2>1. /\ rep' = rep /\ stamp' = stamp /\ now' \in Int /\ now <= now'
    BY <1>1, ReportFacts, TimeSeriesConstants DEF Tick
  <2> QED  BY <2>1, CountedLater DEF Stored
<1>2. ASSUME NEW e \in Events, Arrive(e) PROVE Counted'
  <2>1. /\ now \in Int /\ now' = now /\ rep' = rep
    BY <1>2, ReportFacts DEF Arrive
  <2>2. \A f \in Stored : stamp'[f] = stamp[f]
    BY <1>2 DEF Arrive, Stored, TypeOK
  <2>3. Stored \subseteq Stored'
    BY <2>2 DEF Stored
  <2> QED  BY <2>1, <2>2, <2>3, CountedLater
<1>3. ASSUME NEW range \in Ranges, BeginOverview(range) \/ BeginRevenue(range)
      PROVE  Counted'
  <2>1. /\ rep'.pc = "events" /\ rep'.known = Stored /\ rep'.sessions = {}
        /\ rep'.previous = {} /\ rep'.began = now /\ UNCHANGED <<now, stamp>>
    BY <1>3 DEF BeginOverview, BeginRevenue, Report, IdleReport
  <2>2. Stored' = Stored /\ now <= now
    BY <2>1, ReportFacts DEF Stored
  <2> QED  BY <2>1, <2>2 DEF Counted, CountsAgree, SessionsCountedOnce,
              RevenueOverlooksNone, ChartWithinTotal
<1>4. CASE ReportStep
  BY <1>4, EventsCounted, PreviousCounted, ChartCounted, BeforeCounted DEF ReportStep
<1>5. ASSUME NEW limit \in Limits, BeginList(limit) PROVE Counted'
  BY <1>5, <1>a DEF BeginList
<1>6. CASE FullPage \/ LastPage
  BY <1>6, <1>a DEF FullPage, LastPage
<1>7. CASE UNCHANGED vars
  BY <1>7, <1>a DEF vars
<1> QED
  BY <1>1, <1>2, <1>3, <1>4, <1>5, <1>6, <1>7 DEF Next

(* What an overview shows agrees, at whatever moments its parts look at    *)
(* the clock and whatever arrives meanwhile, in any calendar: no session   *)
(* is counted in both periods, no revenue falls between them, and the      *)
(* chart shows nothing that the total leaves out, with the exceptions      *)
(* that CountsAgree names.                                                 *)
THEOREM OverviewsAgree == Spec => []CountsAgree
<1>1. Init => Counted
  BY DEF Init, IdleReport, Counted, CountsAgree, SessionsCountedOnce,
     RevenueOverlooksNone, ChartWithinTotal
<1>2. Counted => CountsAgree
  BY DEF Counted
<1> QED
  BY <1>1, <1>2, InitType, TypeStep, CountedStep, PTL DEF Spec
=============================================================================
