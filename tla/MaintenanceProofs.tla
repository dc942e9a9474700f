------------------------- MODULE MaintenanceProofs -------------------------
(***************************************************************************)
(* Partitions are there when reports need them, aggregates outlive the raw *)
(* rows, and a report committed before the last reading of its hour is in  *)
(* the aggregates, for any calendar, window and retention that satisfy the *)
(* module's assumptions.                                                   *)
(***************************************************************************)
EXTENDS Maintenance, TLAPS

-----------------------------------------------------------------------------
(***************************************************************************)
(* Hours, days and months: truncation of times.                            *)
(***************************************************************************)

LEMMA DivBounds ==
    ASSUME NEW d \in Nat \ {0}, NEW a \in Int
    PROVE  a \div d \in Int /\ d * (a \div d) <= a /\ a < d * (a \div d) + d
OBVIOUS

LEMMA TimesMonotone ==
    ASSUME NEW d \in Nat \ {0}, NEW p \in Int, NEW q \in Int
    PROVE  (p <= q => d * p <= d * q) /\ (d * p < d * q => p < q)
<1>1. \A n \in Nat : d * n >= 0
  OBVIOUS
<1>2. ASSUME p <= q PROVE d * p <= d * q
  <2>1. q - p \in Nat /\ d * (q - p) >= 0
    BY <1>1, <1>2
  <2>2. d * (q - p) = d * q - d * p
    OBVIOUS
  <2> QED BY <2>1, <2>2
<1>3. ASSUME q <= p PROVE d * q <= d * p
  <2>1. p - q \in Nat /\ d * (p - q) >= 0
    BY <1>1, <1>3
  <2>2. d * (p - q) = d * p - d * q
    OBVIOUS
  <2> QED BY <2>1, <2>2
<1> QED BY <1>2, <1>3

\* The quotient is the number of whole units before a.
LEMMA DivAtLeast ==
    ASSUME NEW d \in Nat \ {0}, NEW a \in Int, NEW q \in Int
    PROVE  q <= a \div d <=> d * q <= a
<1> DEFINE k == a \div d
<1>1. k \in Int /\ d * k <= a /\ a < d * k + d
  BY DivBounds
<1> HIDE DEF k
<1>2. q <= k => d * q <= d * k
  BY <1>1, TimesMonotone
<1>3. d * q < d * (k + 1) => q < k + 1
  BY <1>1, TimesMonotone
<1>4. d * (k + 1) = d * k + d /\ d * q \in Int /\ d * k \in Int
  BY <1>1
<1> QED BY <1>1, <1>2, <1>3, <1>4 DEF k

LEMMA DivMonotone ==
    ASSUME NEW d \in Nat \ {0}, NEW a \in Int, NEW b \in Int, a <= b
    PROVE  a \div d <= b \div d
<1>1. a \div d \in Int /\ d * (a \div d) <= a /\ d * (a \div d) \in Int
  BY DivBounds
<1>2. d * (a \div d) <= b
  BY <1>1
<1> QED BY <1>1, <1>2, DivAtLeast

\* Whole units more are as many more in the quotient.
LEMMA DivShift ==
    ASSUME NEW d \in Nat \ {0}, NEW a \in Int, NEW k \in Int
    PROVE  (a + k * d) \div d = a \div d + k
<1> DEFINE q == a \div d
           p == (a + k * d) \div d
<1>0. a + k * d \in Int /\ k * d = d * k /\ k * d \in Int
  OBVIOUS
<1>1. q \in Int /\ d * q <= a /\ a < d * q + d
  BY DivBounds
<1>2. p \in Int /\ d * p <= a + k * d /\ a + k * d < d * p + d
  BY <1>0, DivBounds
<1> HIDE DEF p, q
<1>3. d * (q + k) = d * q + d * k /\ d * (q + k + 1) = d * q + d * k + d /\ d * (p + 1) = d * p + d
  BY <1>1, <1>2
<1>4. d * p < d * (q + k + 1) /\ d * (q + k) < d * (p + 1)
  BY <1>0, <1>1, <1>2, <1>3
<1>5. p < q + k + 1 /\ q + k < p + 1
  BY <1>1, <1>2, <1>4, TimesMonotone
<1> QED BY <1>1, <1>2, <1>5 DEF p, q

\* Truncating to a unit first does not change the quotient by a multiple of it.
LEMMA DivNested ==
    ASSUME NEW d \in Nat \ {0}, NEW D \in Nat \ {0}, D % d = 0, NEW a \in Int
    PROVE  ((a \div d) * d) \div D = a \div D
<1> DEFINE n == D \div d
           h == a \div d
           q == a \div D
<1>1. n \in Int /\ D = d * n
  OBVIOUS
<1>2. h \in Int /\ d * h <= a /\ a < d * h + d
  BY DivBounds
<1>3. q \in Int /\ D * q <= a /\ a < D * q + D
  BY DivBounds
<1> HIDE DEF n, h, q
<1>4. D * q = d * (n * q) /\ n * q \in Int /\ d * (h + 1) = d * h + d /\ h * d = d * h
  BY <1>1, <1>2, <1>3
<1>5. d * (n * q) < d * (h + 1)
  BY <1>2, <1>3, <1>4
<1>6. n * q <= h
  BY <1>2, <1>4, <1>5, TimesMonotone
<1>7. D * q <= h * d /\ h * d < D * q + D /\ h * d \in Int
  BY <1>2, <1>3, <1>4, <1>6, TimesMonotone
<1>8. q <= (h * d) \div D
  BY <1>3, <1>7, DivAtLeast
<1>9. (h * d) \div D \in Int /\ (q + 1 <= (h * d) \div D => D * (q + 1) <= h * d)
  BY <1>3, <1>7, DivAtLeast, DivBounds
<1>10. D * (q + 1) = D * q + D
  BY <1>3
<1> QED BY <1>3, <1>7, <1>8, <1>9, <1>10 DEF h, q

LEMMA Calendar ==
    ASSUME NEW t \in Int
    PROVE  HourOf(t) \in Int /\ DayOf(t) \in Int /\ MonthOf(t) \in Int
BY CalendarAssumption, DivBounds DEF HourOf, DayOf, MonthOf

\* Times pass in every unit.
LEMMA LaterTime ==
    ASSUME NEW s \in Int, NEW t \in Int, s <= t
    PROVE  HourOf(s) <= HourOf(t) /\ DayOf(s) <= DayOf(t) /\ MonthOf(s) <= MonthOf(t)
BY CalendarAssumption, DivMonotone DEF HourOf, DayOf, MonthOf

\* Minutes of one day are in one month, minutes of one hour in one day.
LEMMA SameDay ==
    ASSUME NEW s \in Int, NEW t \in Int, DayOf(s) = DayOf(t)
    PROVE  MonthOf(s) = MonthOf(t)
<1>1. MonthOf(s) = (DayOf(s) * Day) \div Month /\ MonthOf(t) = (DayOf(t) * Day) \div Month
  BY CalendarAssumption, DivNested DEF DayOf, MonthOf
<1> QED BY <1>1

LEMMA SameHour ==
    ASSUME NEW s \in Int, NEW t \in Int, HourOf(s) = HourOf(t)
    PROVE  DayOf(s) = DayOf(t) /\ MonthOf(s) = MonthOf(t)
<1>1. DayOf(s) = (HourOf(s) * Hour) \div Day /\ DayOf(t) = (HourOf(t) * Hour) \div Day
  BY CalendarAssumption, DivNested DEF HourOf, DayOf
<1>2. DayOf(s) = DayOf(t)
  BY <1>1
<1> QED BY <1>2, SameDay

\* The hour hr begins at hr * Hour.
LEMMA HourBegins ==
    ASSUME NEW hr \in Int
    PROVE  hr * Hour \in Int /\ HourOf(hr * Hour) = hr
<1>1. hr * Hour \in Int /\ Hour \in Nat \ {0} /\ 0 + hr * Hour = hr * Hour
  BY CalendarAssumption
<1>2. 0 \div Hour \in Int /\ Hour * (0 \div Hour) <= 0 /\ 0 < Hour * (0 \div Hour) + Hour
  BY <1>1, DivBounds
<1>3. 0 <= 0 \div Hour
  BY <1>1, DivAtLeast
<1>4. ~(1 <= 0 \div Hour)
  BY <1>1, DivAtLeast
<1>5. 0 \div Hour = 0
  BY <1>2, <1>3, <1>4
<1>6. (0 + hr * Hour) \div Hour = 0 \div Hour + hr
  BY <1>1, DivShift
<1> QED BY <1>1, <1>5, <1>6 DEF HourOf

LEMMA DayStep ==
    ASSUME NEW s \in Int, NEW t \in Int, s <= t + Day
    PROVE  DayOf(s) <= DayOf(t) + 1
<1>1. t + 1 * Day \in Int /\ s <= t + 1 * Day
  BY CalendarAssumption
<1>2. s \div Day <= (t + 1 * Day) \div Day
  BY <1>1, CalendarAssumption, DivMonotone
<1>3. (t + 1 * Day) \div Day = t \div Day + 1
  BY CalendarAssumption, DivShift
<1> QED BY <1>2, <1>3 DEF DayOf

LEMMA WindowStep ==
    ASSUME NEW s \in Int, NEW t \in Int, s <= t + Window * Hour
    PROVE  HourOf(s) <= HourOf(t) + Window
<1>1. t + Window * Hour \in Int /\ Window \in Int
  BY CalendarAssumption, BoundAssumption
<1>2. s \div Hour <= (t + Window * Hour) \div Hour
  BY <1>1, CalendarAssumption, DivMonotone
<1>3. (t + Window * Hour) \div Hour = t \div Hour + Window
  BY <1>1, CalendarAssumption, DivShift
<1> QED BY <1>2, <1>3 DEF HourOf

\* An hour within the window is in a day that retention keeps.
LEMMA WindowKept ==
    ASSUME NEW s \in Int, NEW t \in Int, HourOf(t) <= HourOf(s) + Window
    PROVE  RawCutoff(t) <= DayOf(s)
<1> DEFINE x == HourOf(s) * Hour
           y == HourOf(t) * Hour
<1>0. /\ HourOf(s) \in Int /\ HourOf(t) \in Int /\ Window \in Int /\ RawKeep \in Int
      /\ Hour \in Nat \ {0} /\ Day \in Nat \ {0} /\ Window * Hour <= RawKeep * Day
      /\ Window * Hour \in Int /\ RawKeep * Day \in Int
  BY Calendar, CalendarAssumption, BoundAssumption, RetentionAssumption
<1>1. x \in Int /\ y \in Int
  BY <1>0
<1>2. y <= x + Window * Hour
  <2>1. Hour * HourOf(t) <= Hour * (HourOf(s) + Window)
    BY <1>0, TimesMonotone
  <2>2. Hour * (HourOf(s) + Window) = HourOf(s) * Hour + Window * Hour /\ Hour * HourOf(t) = HourOf(t) * Hour
    BY <1>0
  <2> QED BY <2>1, <2>2
<1>3. x \div Day = DayOf(s) /\ y \div Day = DayOf(t)
  BY CalendarAssumption, DivNested DEF HourOf, DayOf
<1> HIDE DEF x, y
<1>4. y <= x + RawKeep * Day /\ x + RawKeep * Day \in Int
  BY <1>0, <1>1, <1>2
<1>5. y \div Day <= (x + RawKeep * Day) \div Day
  BY <1>0, <1>1, <1>4, DivMonotone
<1>6. (x + RawKeep * Day) \div Day = x \div Day + RawKeep
  BY <1>0, <1>1, DivShift
<1>7. DayOf(s) \in Int /\ DayOf(t) \in Int
  BY Calendar
<1> QED BY <1>0, <1>3, <1>5, <1>6, <1>7 DEF RawCutoff

\* A day that retention keeps is in a month that it keeps.
LEMMA MonthKept ==
    ASSUME NEW s \in Int, NEW t \in Int, RawCutoff(t) <= DayOf(s)
    PROVE  HourlyCutoff(t) <= MonthOf(s)
<1> DEFINE x == DayOf(s) * Day
           y == DayOf(t) * Day
<1>0. /\ DayOf(s) \in Int /\ DayOf(t) \in Int /\ RawKeep \in Int /\ HourlyKeep \in Int
      /\ Day \in Nat \ {0} /\ Month \in Nat \ {0} /\ RawKeep * Day <= HourlyKeep * Month
      /\ RawKeep * Day \in Int /\ HourlyKeep * Month \in Int
  BY Calendar, CalendarAssumption, BoundAssumption, RetentionAssumption
<1>1. x \in Int /\ y \in Int /\ DayOf(t) <= DayOf(s) + RawKeep
  BY <1>0 DEF RawCutoff
<1>2. y <= x + RawKeep * Day
  <2>1. Day * DayOf(t) <= Day * (DayOf(s) + RawKeep)
    BY <1>0, <1>1, TimesMonotone
  <2>2. Day * (DayOf(s) + RawKeep) = DayOf(s) * Day + RawKeep * Day /\ Day * DayOf(t) = DayOf(t) * Day
    BY <1>0
  <2> QED BY <2>1, <2>2
<1>3. x \div Month = MonthOf(s) /\ y \div Month = MonthOf(t)
  BY CalendarAssumption, DivNested DEF DayOf, MonthOf
<1> HIDE DEF x, y
<1>4. y <= x + HourlyKeep * Month /\ x + HourlyKeep * Month \in Int
  BY <1>0, <1>1, <1>2
<1>5. y \div Month <= (x + HourlyKeep * Month) \div Month
  BY <1>0, <1>1, <1>4, DivMonotone
<1>6. (x + HourlyKeep * Month) \div Month = x \div Month + HourlyKeep
  BY <1>0, <1>1, DivShift
<1>7. MonthOf(s) \in Int /\ MonthOf(t) \in Int
  BY Calendar
<1> QED BY <1>0, <1>3, <1>5, <1>6, <1>7 DEF HourlyCutoff

-----------------------------------------------------------------------------
(***************************************************************************)
(* The goroutine: what its steps do to its state.                          *)
(***************************************************************************)

LEMMA Buckets == Bucket \subseteq Nat /\ Bucket \subseteq Int
BY BoundAssumption DEF Bucket

LEMMA NoRowsType == NoRows \in [Bucket -> Row] /\ \A b \in Bucket : NoRows[b] = None
BY DEF NoRows, Row

LEMMA TaskFields ==
    ASSUME TypeOK
    PROVE  /\ task.pc \in {"stopped", "wait", "partitions", "hour", "upsert", "delete"}
           /\ task.began \in Nat /\ task.due \in Nat \cup {None} /\ task.cur \in Int
           /\ task.offset \in 0 .. Window /\ task.upsert \in [Bucket -> Row]
           /\ LoopHour \in Int
<1>1. task \in Task
  BY DEF TypeOK
<1>2. task.cur \in Int /\ task.offset \in 0 .. Window
  BY <1>1 DEF Task
<1> QED BY <1>1, <1>2, BoundAssumption DEF Task, LoopHour

LEMMA ReportFields ==
    ASSUME TypeOK, NEW h \in Handler, req[h] # None
    PROVE  /\ req[h].bucket \in Bucket /\ req[h].row \in Row /\ req[h].since \in Nat
           /\ req[h].upkept \in BOOLEAN
BY DEF TypeOK, Report

LEMMA BeginStep ==
    ASSUME TypeOK, TaskTimely, BeginCycle
    PROVE  /\ task.pc = "wait" /\ task.due \in Nat /\ now >= task.due
           /\ task' \in Task /\ task'.pc = "partitions" /\ task'.began = now
           /\ task'.due = task.due + Hour
<1>1. task \in Task /\ now \in Nat
  BY DEF TypeOK
<1>2. task.pc = "wait" /\ task.due \in Nat /\ now >= task.due
  BY TaskFields DEF TaskTimely, BeginCycle
<1> DEFINE d == task.due + Hour
<1>3. task' = [task EXCEPT !.pc = "partitions", !.began = now, !.due = d]
  BY DEF BeginCycle
<1>4. d \in Nat \cup {None} /\ d = task.due + Hour
  BY <1>2, CalendarAssumption
<1> HIDE DEF d
<1>5. task' \in Task /\ task'.pc = "partitions" /\ task'.began = now /\ task'.due = d
  BY <1>1, <1>3, <1>4 DEF Task
<1> QED BY <1>2, <1>4, <1>5

LEMMA MaintainStep ==
    ASSUME TypeOK, MaintainPartitions
    PROVE  /\ task.pc = "partitions"
           /\ task' \in Task /\ task'.pc = "hour" /\ task'.began = task.began /\ task'.due = task.due
<1>1. task \in Task
  BY DEF TypeOK
<1> QED BY <1>1 DEF MaintainPartitions, Task

LEMMA StartStep ==
    ASSUME TypeOK, StartRollup
    PROVE  /\ task.pc = "hour"
           /\ task' \in Task /\ task'.pc = "upsert" /\ task'.began = task.began /\ task'.due = task.due
           /\ task'.cur = HourOf(now) /\ task'.offset = 1
<1>1. task \in Task /\ now \in Int
  BY DEF TypeOK
<1>2. HourOf(now) \in Int /\ 1 \in 0 .. Window
  BY <1>1, Calendar, BoundAssumption
<1>3. task' = [task EXCEPT !.pc = "upsert", !.cur = HourOf(now), !.offset = 1]
  BY DEF StartRollup, CurrentHour
<1> QED BY <1>1, <1>2, <1>3 DEF StartRollup, Task

LEMMA UpsertStep ==
    ASSUME TypeOK, RollupUpsert
    PROVE  /\ task.pc = "upsert"
           /\ task' \in Task /\ task'.pc = "delete" /\ task'.began = task.began /\ task'.due = task.due
           /\ task'.cur = task.cur /\ task'.offset = task.offset
           /\ \A b \in Bucket : task'.upsert[b] = IF OfHour(b, LoopHour) THEN raw[b] ELSE None
<1> DEFINE u == [b \in Bucket |-> IF OfHour(b, LoopHour) THEN raw[b] ELSE None]
<1>1. task \in Task /\ u \in [Bucket -> Row]
  BY DEF TypeOK, Row
<1>2. task' = [task EXCEPT !.pc = "delete", !.upsert = u]
  BY DEF RollupUpsert
<1>3. \A b \in Bucket : u[b] = IF OfHour(b, LoopHour) THEN raw[b] ELSE None
  OBVIOUS
<1> HIDE DEF u
<1>4. task'.upsert = u
  BY <1>1, <1>2 DEF Task
<1>5. /\ task' \in Task /\ task'.pc = "delete" /\ task'.began = task.began /\ task'.due = task.due
      /\ task'.cur = task.cur /\ task'.offset = task.offset
  BY <1>1, <1>2 DEF Task
<1> QED BY <1>3, <1>4, <1>5 DEF RollupUpsert

LEMMA EndStep ==
    ASSUME TypeOK,
           task' = Idle("wait", NextDue)
    PROVE  task' \in Task /\ task'.pc = "wait" /\ task'.due = NextDue /\ NextDue \in Nat
<1>1. task \in Task /\ now \in Nat
  BY DEF TypeOK
<1>2. NextDue \in Nat
  BY <1>1, TaskFields, CalendarAssumption DEF NextDue
<1>3. 0 \in 0 .. Window /\ NoRows \in [Bucket -> Row]
  BY NoRowsType, BoundAssumption
<1> QED BY <1>1, <1>2, <1>3 DEF Task, Idle

LEMMA CommitStep ==
    ASSUME TypeOK, RollupCommit
    PROVE  /\ task.pc = "delete"
           /\ task' \in Task
           /\ \/ /\ task.offset < Window
                 /\ task'.pc = "upsert" /\ task'.began = task.began /\ task'.due = task.due
                 /\ task'.cur = task.cur /\ task'.offset = task.offset + 1
              \/ /\ ~(task.offset < Window)
                 /\ task'.pc = "wait" /\ task'.due = NextDue /\ NextDue \in Nat
<1>1. task \in Task
  BY DEF TypeOK
<1>2. CASE task.offset < Window
  <2>1. task' = [task EXCEPT !.pc = "upsert", !.offset = task.offset + 1, !.upsert = NoRows]
    BY <1>2 DEF RollupCommit, AfterHour
  <2>2. task.offset + 1 \in 0 .. Window
    BY <1>2, TaskFields, BoundAssumption
  <2> QED BY <1>1, <1>2, <2>1, <2>2, NoRowsType DEF RollupCommit, Task
<1>3. CASE ~(task.offset < Window)
  <2>1. task' = Idle("wait", NextDue)
    BY <1>3 DEF RollupCommit, AfterHour
  <2> QED BY <1>3, <2>1, EndStep DEF RollupCommit
<1> QED BY <1>2, <1>3

LEMMA NewProcess ==
    ASSUME NEW t \in Nat
    PROVE  /\ FirstCycle(t) \in Task /\ FirstCycle(t).pc = "partitions"
           /\ FirstCycle(t).began = t /\ FirstCycle(t).due = None
           /\ Stopped \in Task /\ Stopped.pc = "stopped"
BY NoRowsType, BoundAssumption DEF FirstCycle, Stopped, Idle, Task

-----------------------------------------------------------------------------
(***************************************************************************)
(* Types.                                                                  *)
(***************************************************************************)

\* The limit of an hour is a time.
LEMMA LimitType ==
    ASSUME NEW hr \in Hours, NEW t \in Nat
    PROVE  NextRead(hr, t) \in Nat /\ ReadLimit(hr, t) \in Nat \cup {None}
<1>1. hr \in Int
  BY Buckets, CalendarAssumption DEF Hours
<1> DEFINE over == (hr + 1) * Hour
<1>2. over \in Int /\ Hour \in Nat /\ CycleTimeout \in Nat
  BY <1>1, CalendarAssumption, BoundAssumption
<1>3. NextRead(hr, t) = (IF t > over THEN t ELSE over) + Hour + 2 * CycleTimeout
  BY DEF NextRead
<1> HIDE DEF over
<1>4. NextRead(hr, t) \in Nat
  BY <1>2, <1>3
<1> QED BY <1>4 DEF ReadLimit

LEMMA PostponedType ==
    ASSUME TypeOK, NEW t \in Nat
    PROVE  Postponed(t) \in [Hours -> Nat \cup {None}]
BY LimitType DEF TypeOK, Postponed

LEMMA InitIInv == Init => IInv
<1> SUFFICES ASSUME Init PROVE IInv
  OBVIOUS
<1> USE BoundAssumption, CalendarAssumption
<1>0. now = MaxLate /\ now \in Nat /\ now \in Int
  BY DEF Init
<1>1. HourOf(now) \in Int /\ DayOf(now) \in Int /\ MonthOf(now) \in Int
  BY <1>0, Calendar
<1>2. task \in Task /\ task.pc = "partitions" /\ task.began = now /\ task.due = None
  BY <1>0, NewProcess DEF Init
<1>3. rawParts \subseteq Int /\ hourParts \subseteq Int
  BY <1>1 DEF Init, EnsuredDays, EnsuredMonths
<1>4. TypeOK
  <2>1. /\ raw = NoRows /\ hourly = NoRows /\ maintained \in Nat /\ disrupted \in BOOLEAN
        /\ readBy \in [Hours -> Nat \cup {None}]
    BY <1>0 DEF Init
  <2>2. req \in [Handler -> Report \cup {None}] /\ sent \in 0 .. MaxReports
    BY DEF Init
  <2> QED BY <1>0, <1>2, <1>3, <2>1, <2>2, NoRowsType DEF TypeOK
<1>5. RequestsTimely /\ PartitionReady
  BY DEF Init, RequestsTimely, PartitionReady
<1>6. TaskTimely
  BY <1>0, <1>2 DEF Init, TaskTimely, Running
<1>7. LoopInWindow /\ AggregatesOwned
  BY <1>2, NoRowsType DEF Init, LoopInWindow, AggregatesOwned
<1>8. PartsEnsured
  BY DEF Init, PartsEnsured
<1> QED BY <1>4, <1>5, <1>6, <1>7, <1>8 DEF IInv

\* What rollup_hour leaves in the hourly table: old aggregates, what it selected,
\* or nothing.
LEMMA RolledUpRows ==
    ASSUME TypeOK, NEW hr
    PROVE  /\ RolledUp(hr) \in [Bucket -> Row]
           /\ \A b \in Bucket :
                /\ ~OfHour(b, hr) => RolledUp(hr)[b] = hourly[b]
                /\ RolledUp(hr)[b] \in {hourly[b], task.upsert[b], None}
<1>1. hourly \in [Bucket -> Row] /\ task.upsert \in [Bucket -> Row] /\ None \in Row
  BY TaskFields DEF TypeOK, Row
<1>2. CASE \A b \in Bucket : OfHour(b, hr) => raw[b] = None
  BY <1>1, <1>2 DEF RolledUp
<1>3. CASE /\ ~(\A b \in Bucket : OfHour(b, hr) => raw[b] = None)
           /\ \E b \in Bucket : OfHour(b, hr) /\ task.upsert[b] # None
  <2>1. RolledUp(hr) = [b \in Bucket |-> IF OfHour(b, hr) THEN task.upsert[b] ELSE hourly[b]]
    BY <1>3, Zenon DEF RolledUp
  <2> QED BY <1>1, <2>1
<1>4. CASE /\ ~(\A b \in Bucket : OfHour(b, hr) => raw[b] = None)
           /\ ~(\E b \in Bucket : OfHour(b, hr) /\ task.upsert[b] # None)
  <2>1. RolledUp(hr) = hourly
    BY <1>4, Zenon DEF RolledUp
  <2> QED BY <1>1, <2>1
<1> QED BY <1>2, <1>3, <1>4

\* The minutes of the hour at hand are in its month.
LEMMA LoopMonth ==
    ASSUME NEW hr \in Int, NEW b \in Int, OfHour(b, hr)
    PROVE  MonthOf(hr * Hour) = MonthOf(b) /\ MonthOf(hr * Hour) \in Int
BY HourBegins, SameHour, Calendar DEF OfHour

LEMMA NextTypeOK ==
    TypeOK /\ TaskTimely /\ [Next]_vars => TypeOK'
<1> SUFFICES ASSUME TypeOK, TaskTimely, [Next]_vars PROVE TypeOK'
  OBVIOUS
<1>0. /\ now \in Nat /\ now \in Int /\ raw \in [Bucket -> Row] /\ hourly \in [Bucket -> Row]
      /\ rawParts \subseteq Int /\ hourParts \subseteq Int /\ req \in [Handler -> Report \cup {None}]
      /\ sent \in 0 .. MaxReports /\ task \in Task /\ disrupted \in BOOLEAN /\ maintained \in Nat
      /\ readBy \in [Hours -> Nat \cup {None}]
      /\ \A b \in Bucket : raw[b] # None => DayOf(b) \in rawParts
      /\ \A b \in Bucket : hourly[b] # None => MonthOf(b) \in hourParts
  BY DEF TypeOK
<1> USE BoundAssumption
<1>1. ASSUME NEW h \in Handler, NEW b \in Bucket, NEW x \in Value \cup {None}, ReceiveReport(h, b, x)
      PROVE  TypeOK'
  <2> DEFINE q == [bucket |-> b, row |-> x, since |-> now,
                   upkept |-> DayOf(now) < DayOf(maintained) + AheadDays]
  <2>1. q \in Report
    BY <1>0 DEF Report, Row
  <2>2. req' = [req EXCEPT ![h] = q] /\ sent' = sent + 1 /\ sent < MaxReports
    BY <1>1 DEF ReceiveReport
  <2> HIDE DEF q
  <2>3. req' \in [Handler -> Report \cup {None}] /\ sent' \in 0 .. MaxReports
    BY <1>0, <2>1, <2>2
  <2> QED BY <1>0, <1>1, <2>3 DEF ReceiveReport, TypeOK, tables
<1>2. ASSUME NEW h \in Handler, CommitReport(h) PROVE TypeOK'
  <2>1. req[h].bucket \in Bucket /\ req[h].row \in Row /\ DayOf(req[h].bucket) \in rawParts
    BY <1>2, ReportFields DEF CommitReport
  <2>2. HourOf(req[h].bucket) \in Hours
    BY <2>1 DEF Hours, HourOf
  <2>3. readBy' \in [Hours -> Nat \cup {None}]
    BY <1>0, <1>2, <2>2, LimitType DEF CommitReport
  <2> QED BY <1>0, <1>2, <2>1, <2>3 DEF CommitReport, TypeOK
<1>3. ASSUME NEW h \in Handler, FailReport(h) PROVE TypeOK'
  BY <1>0, <1>3 DEF FailReport, TypeOK, tables
<1>4. CASE BeginCycle
  BY <1>0, <1>4, BeginStep DEF BeginCycle, TypeOK, tables
<1>5. CASE MaintainPartitions
  <2>0. \A b \in Bucket : DayOf(b) \in Int /\ MonthOf(b) \in Int
    BY Buckets, Calendar
  <2>1. DayOf(now) \in Int /\ MonthOf(now) \in Int
    BY <1>0, Calendar
  <2>2. RawCutoff(now) \in Int /\ HourlyCutoff(now) \in Int
    BY <2>1 DEF RawCutoff, HourlyCutoff
  <2>3. rawParts' \subseteq Int /\ hourParts' \subseteq Int
    BY <1>0, <1>5, <2>1 DEF MaintainPartitions, EnsuredDays, EnsuredMonths
  <2>4. raw' \in [Bucket -> Row] /\ hourly' \in [Bucket -> Row]
    BY <1>0, <1>5 DEF MaintainPartitions, Row
  <2>5. ASSUME NEW b \in Bucket, raw'[b] # None PROVE DayOf(b) \in rawParts'
    BY <1>0, <1>5, <2>0, <2>2, <2>5 DEF MaintainPartitions
  <2>6. ASSUME NEW b \in Bucket, hourly'[b] # None PROVE MonthOf(b) \in hourParts'
    BY <1>0, <1>5, <2>0, <2>2, <2>6 DEF MaintainPartitions
  <2> QED BY <1>0, <1>5, <2>3, <2>4, <2>5, <2>6, MaintainStep DEF MaintainPartitions, TypeOK
<1>6. CASE StartRollup
  BY <1>0, <1>6, StartStep DEF StartRollup, TypeOK, tables
<1>7. CASE RollupUpsert
  BY <1>0, <1>7, UpsertStep DEF RollupUpsert, TypeOK, tables
<1>8. CASE RollupCommit
  <2> DEFINE hr == LoopHour
  <2>1. hr \in Int /\ hr * Hour \in Int /\ MonthOf(hr * Hour) \in Int
    BY TaskFields, HourBegins, Calendar
  <2>2. hourly' = RolledUp(hr) /\ hourParts' = hourParts \cup {MonthOf(hr * Hour)}
    BY <1>8 DEF RollupCommit
  <2> HIDE DEF hr
  <2>3. hourly' \in [Bucket -> Row] /\ hourParts' \subseteq Int
    BY <1>0, <2>1, <2>2, RolledUpRows
  <2>4. ASSUME NEW b \in Bucket, hourly'[b] # None PROVE MonthOf(b) \in hourParts'
    <3>1. CASE OfHour(b, hr)
      BY <2>1, <2>2, <3>1, LoopMonth, Buckets
    <3>2. CASE ~OfHour(b, hr)
      BY <1>0, <2>2, <2>4, <3>2, RolledUpRows
    <3> QED BY <3>1, <3>2
  <2> QED BY <1>0, <1>8, <2>3, <2>4, CommitStep DEF RollupCommit, TypeOK
<1>9. CASE FailCycle
  BY <1>0, <1>9, EndStep, PostponedType DEF FailCycle, TypeOK, tables
<1>10. CASE Stop
  BY <1>0, <1>10, NewProcess, PostponedType DEF Stop, TypeOK, tables
<1>11. CASE Start
  BY <1>0, <1>11, NewProcess DEF Start, TypeOK, tables
<1>12. CASE Tick
  <2>1. now' \in Nat /\ readBy' \in [Hours -> Nat \cup {None}]
    BY <1>0, <1>12, PostponedType DEF Tick
  <2> QED BY <1>0, <1>12, <2>1 DEF Tick, TypeOK, tables
<1>13. CASE UNCHANGED vars
  BY <1>13 DEF vars, TypeOK
<1> QED BY <1>1, <1>2, <1>3, <1>4, <1>5, <1>6, <1>7, <1>8, <1>9, <1>10, <1>11, <1>12, <1>13
        DEF Next

-----------------------------------------------------------------------------
(***************************************************************************)
(* Requests and cycles in time.                                            *)
(***************************************************************************)

LEMMA NextRequests ==
    TypeOK /\ RequestsTimely /\ TaskTimely /\ [Next]_vars => RequestsTimely'
<1> SUFFICES ASSUME TypeOK, RequestsTimely, TaskTimely, [Next]_vars PROVE RequestsTimely'
  OBVIOUS
<1>0. now \in Nat /\ MaxLate <= now /\ req \in [Handler -> Report \cup {None}]
  BY DEF TypeOK, TaskTimely
<1> USE BoundAssumption
<1>1. ASSUME NEW h \in Handler, NEW b \in Bucket, NEW x \in Value \cup {None}, ReceiveReport(h, b, x)
      PROVE  RequestsTimely'
  <2> DEFINE q == [bucket |-> b, row |-> x, since |-> now,
                   upkept |-> DayOf(now) < DayOf(maintained) + AheadDays]
  <2>1. q.bucket = b /\ q.since = now
    OBVIOUS
  <2>2. req' = [req EXCEPT ![h] = q] /\ now' = now /\ b <= now + MaxAhead /\ b >= now - MaxLate
    BY <1>1 DEF ReceiveReport
  <2> HIDE DEF q
  <2>3. req'[h] = q /\ \A g \in Handler : g # h => req'[g] = req[g]
    BY <1>0, <2>2
  <2> QED BY <1>0, <2>1, <2>2, <2>3, Buckets DEF RequestsTimely
<1>2. CASE Tick
  <2>1. /\ now' = now + 1 /\ req' = req
        /\ \A h \in Handler : req[h] # None => now < req[h].since + ReqTimeout
    BY <1>2 DEF Tick
  <2> QED BY <1>0, <2>1, ReportFields DEF RequestsTimely
<1>3. CASE now' = now /\ \A h \in Handler : req'[h] \in {req[h], None}
  BY <1>3 DEF RequestsTimely
<1>4. ASSUME NEW h \in Handler, CommitReport(h) \/ FailReport(h) PROVE RequestsTimely'
  <2>1. now' = now /\ \A g \in Handler : req'[g] \in {req[g], None}
    BY <1>0, <1>4 DEF CommitReport, FailReport
  <2> QED BY <1>3, <2>1
<1>5. CASE Stop
  <2>1. now' = now /\ \A g \in Handler : req'[g] \in {req[g], None}
    BY <1>0, <1>5 DEF Stop
  <2> QED BY <1>3, <2>1
<1>6. CASE UNCHANGED <<now, req>>
  BY <1>3, <1>6
<1> QED BY <1>1, <1>2, <1>4, <1>5, <1>6
        DEF Next, BeginCycle, MaintainPartitions, StartRollup, RollupUpsert, RollupCommit, FailCycle,
            Start, vars

\* The ticker that a cycle leaves behind.
LEMMA EndTimely ==
    ASSUME TypeOK, TaskTimely, Running, task'.pc = "wait", task'.due = NextDue, NextDue \in Nat,
           UNCHANGED <<now, maintained>>
    PROVE  TaskTimely'
<1>0. now \in Nat /\ task.began \in Nat /\ task.due \in Nat \cup {None} /\ None \notin Nat
  BY TaskFields, NoneAssumption DEF TypeOK
<1>1. now <= NextDue /\ NextDue <= now + Hour /\ NextDue # None
  BY <1>0, BoundAssumption, CalendarAssumption DEF TaskTimely, NextDue
<1> QED BY <1>1 DEF TaskTimely, Running

LEMMA NextTask ==
    TypeOK /\ TaskTimely /\ [Next]_vars => TaskTimely'
<1> SUFFICES ASSUME TypeOK, TaskTimely, [Next]_vars PROVE TaskTimely'
  OBVIOUS
<1>0. /\ now \in Nat /\ maintained \in Nat /\ task.began \in Nat /\ task.due \in Nat \cup {None}
      /\ None \notin Nat
      /\ task.pc \in {"stopped", "wait", "partitions", "hour", "upsert", "delete"}
  BY TaskFields, NoneAssumption DEF TypeOK
<1> USE BoundAssumption, CalendarAssumption
<1>1. CASE BeginCycle
  BY <1>0, <1>1, BeginStep DEF BeginCycle, TaskTimely, Running
<1>2. CASE MaintainPartitions
  BY <1>0, <1>2, MaintainStep DEF MaintainPartitions, TaskTimely, Running
<1>3. CASE StartRollup
  BY <1>0, <1>3, StartStep DEF StartRollup, TaskTimely, Running
<1>4. CASE RollupUpsert
  BY <1>0, <1>4, UpsertStep DEF RollupUpsert, TaskTimely, Running
<1>5. CASE RollupCommit
  <2>1. UNCHANGED <<now, maintained>> /\ Running /\ task.pc = "delete"
    BY <1>5 DEF RollupCommit, Running
  <2>2. CASE task'.pc = "upsert" /\ task'.began = task.began /\ task'.due = task.due
    BY <2>1, <2>2 DEF TaskTimely, Running
  <2>3. CASE task'.pc = "wait" /\ task'.due = NextDue /\ NextDue \in Nat
    BY <2>1, <2>3, EndTimely
  <2> QED BY <1>5, <2>2, <2>3, CommitStep
<1>6. CASE FailCycle
  BY <1>6, EndStep, EndTimely DEF FailCycle
<1>7. CASE Stop
  BY <1>0, <1>7, NewProcess DEF Stop, TaskTimely, Running
<1>8. CASE Start
  BY <1>0, <1>8, NewProcess DEF Start, TaskTimely, Running
<1>9. CASE Tick
  BY <1>0, <1>9 DEF Tick, TaskTimely, Running
<1>10. CASE /\ UNCHANGED <<now, task, maintained>>
            /\ task.pc = "stopped" => \A h \in Handler : req'[h] = None
  BY <1>10 DEF TaskTimely, Running
<1>11. ASSUME NEW h \in Handler, CommitReport(h) \/ FailReport(h) PROVE TaskTimely'
  BY <1>10, <1>11 DEF TypeOK, TaskTimely, CommitReport, FailReport
<1>12. ASSUME NEW h \in Handler, NEW b \in Bucket, NEW x \in Value \cup {None}, ReceiveReport(h, b, x)
       PROVE  TaskTimely'
  BY <1>10, <1>12 DEF ReceiveReport
<1>13. CASE UNCHANGED vars
  BY <1>10, <1>13 DEF TaskTimely, vars
<1> QED BY <1>1, <1>2, <1>3, <1>4, <1>5, <1>6, <1>7, <1>8, <1>9, <1>11, <1>12, <1>13 DEF Next

LEMMA NextLoopInWindow ==
    TypeOK /\ TaskTimely /\ LoopInWindow /\ [Next]_vars => LoopInWindow'
<1> SUFFICES ASSUME TypeOK, TaskTimely, LoopInWindow, [Next]_vars PROVE LoopInWindow'
  OBVIOUS
<1>0. /\ now \in Nat /\ now \in Int /\ maintained \in Int /\ maintained <= now
      /\ HourOf(now) \in Int /\ HourOf(maintained) \in Int /\ task.cur \in Int
  BY TaskFields, Calendar DEF TypeOK, TaskTimely
<1> USE BoundAssumption
<1>1. CASE StartRollup
  <2>1. HourOf(maintained) <= HourOf(now) /\ 1 \in 1 .. Window
    BY <1>0, LaterTime
  <2> QED BY <1>0, <1>1, <2>1, StartStep DEF StartRollup, LoopInWindow
<1>2. CASE RollupUpsert
  BY <1>2, UpsertStep DEF RollupUpsert, LoopInWindow
<1>3. CASE RollupCommit
  <2>1. task.offset \in 1 .. Window /\ UNCHANGED <<now, maintained>>
    BY <1>3 DEF RollupCommit, LoopInWindow
  <2> QED BY <1>3, <2>1, CommitStep DEF LoopInWindow
<1>4. CASE Tick
  <2>1. now' = now + 1 /\ UNCHANGED <<task, maintained>>
    BY <1>4 DEF Tick
  <2>2. HourOf(now) <= HourOf(now)' /\ HourOf(now)' \in Int
    <3>0. now + 1 \in Int /\ now <= now + 1
      BY <1>0
    <3>1. HourOf(now) <= HourOf(now + 1)
      BY <1>0, <3>0, LaterTime
    <3>2. HourOf(now + 1) \in Int
      BY <3>0, Calendar
    <3> QED BY <2>1, <3>1, <3>2 DEF HourOf
  <2> QED BY <1>0, <2>1, <2>2 DEF LoopInWindow, HourOf
<1>5. CASE UNCHANGED <<now, task, maintained>>
  BY <1>5 DEF LoopInWindow, HourOf
<1>6. CASE task'.pc \notin {"upsert", "delete"}
  BY <1>6 DEF LoopInWindow
<1>7. CASE BeginCycle \/ MaintainPartitions \/ FailCycle \/ Stop \/ Start
  BY <1>0, <1>6, <1>7, BeginStep, MaintainStep, EndStep, NewProcess DEF FailCycle, Stop, Start
<1> QED BY <1>1, <1>2, <1>3, <1>4, <1>5, <1>7 DEF Next, ReceiveReport, CommitReport, FailReport, vars

-----------------------------------------------------------------------------
(***************************************************************************)
(* Partitions and what they hold.                                          *)
(***************************************************************************)

\* Only maintain_partitions touches the partitions of the raw tables.
LEMMA OnlyMaintainDrops ==
    ASSUME [Next]_vars
    PROVE  MaintainPartitions \/ UNCHANGED <<rawParts, maintained>>
BY DEF Next, ReceiveReport, CommitReport, FailReport, BeginCycle, StartRollup, RollupUpsert,
   RollupCommit, FailCycle, Stop, Start, Tick, vars, tables

LEMMA NextParts ==
    TypeOK /\ PartsEnsured /\ [Next]_vars => PartsEnsured'
<1> SUFFICES ASSUME TypeOK, PartsEnsured, [Next]_vars PROVE PartsEnsured'
  OBVIOUS
<1>1. CASE MaintainPartitions
  <2>1. DayOf(now) \in Int /\ RawKeep \in Nat /\ RawKeep >= 1 /\ AheadDays \in Nat
    BY Calendar, BoundAssumption, RetentionAssumption DEF TypeOK
  <2>2. \A d \in EnsuredDays(now) : d >= RawCutoff(now)
    BY <2>1 DEF EnsuredDays, RawCutoff
  <2>3. EnsuredDays(now) \subseteq rawParts' /\ maintained' = now
    BY <1>1, <2>2 DEF MaintainPartitions
  <2> QED BY <2>3 DEF PartsEnsured, EnsuredDays, DayOf
<1>2. CASE UNCHANGED <<rawParts, maintained>>
  BY <1>2 DEF PartsEnsured, EnsuredDays, DayOf
<1> QED BY <1>1, <1>2, OnlyMaintainDrops

\* The day of a request is at most one away from the day on which it came, and that
\* from today.
LEMMA RequestDays ==
    ASSUME TypeOK, RequestsTimely, NEW h \in Handler, req[h] # None
    PROVE  /\ DayOf(req[h].bucket) \in Int /\ DayOf(req[h].since) \in Int /\ DayOf(now) \in Int
           /\ DayOf(req[h].since) - 1 <= DayOf(req[h].bucket)
           /\ DayOf(req[h].bucket) <= DayOf(req[h].since) + 1
           /\ DayOf(now) <= DayOf(req[h].since) + 1
<1>1. /\ req[h].bucket \in Int /\ req[h].since \in Int /\ now \in Int
      /\ req[h].since <= req[h].bucket + Day /\ now <= req[h].since + Day
      /\ req[h].bucket <= req[h].since + Day
  <2>1. req[h].bucket \in Nat /\ req[h].since \in Nat /\ now \in Nat
    BY ReportFields, Buckets DEF TypeOK
  <2>2. /\ now <= req[h].since + ReqTimeout
        /\ req[h].since - MaxLate <= req[h].bucket /\ req[h].bucket <= req[h].since + MaxAhead
    BY DEF RequestsTimely
  <2> QED BY <2>1, <2>2, BoundAssumption, CalendarAssumption
<1>2. DayOf(req[h].bucket) \in Int /\ DayOf(req[h].since) \in Int /\ DayOf(now) \in Int
  BY <1>1, Calendar
<1>3. DayOf(req[h].since) <= DayOf(req[h].bucket) + 1 /\ DayOf(req[h].bucket) <= DayOf(req[h].since) + 1
  BY <1>1, DayStep
<1>4. DayOf(now) <= DayOf(req[h].since) + 1
  BY <1>1, DayStep
<1> QED BY <1>2, <1>3, <1>4

LEMMA NextPartitionReady ==
    TypeOK /\ RequestsTimely /\ TaskTimely /\ PartsEnsured /\ PartitionReady /\ [Next]_vars
        => PartitionReady'
<1> SUFFICES ASSUME TypeOK, RequestsTimely, TaskTimely, PartsEnsured, PartitionReady, [Next]_vars
             PROVE  PartitionReady'
  OBVIOUS
<1>0. /\ now \in Int /\ maintained \in Int /\ maintained <= now
      /\ req \in [Handler -> Report \cup {None}] /\ rawParts \subseteq Int
  BY DEF TypeOK, TaskTimely
<1> USE BoundAssumption, CalendarAssumption
<1>1. ASSUME NEW h \in Handler, NEW b \in Bucket, NEW x \in Value \cup {None}, ReceiveReport(h, b, x)
      PROVE  PartitionReady'
  <2> DEFINE k == DayOf(now) < DayOf(maintained) + AheadDays
             q == [bucket |-> b, row |-> x, since |-> now, upkept |-> k]
  <2>1. q.bucket = b /\ q.upkept = k /\ q.since = now
    OBVIOUS
  <2>2. req' = [req EXCEPT ![h] = q] /\ UNCHANGED <<rawParts, maintained>>
    BY <1>1 DEF ReceiveReport, tables
  <2>3. k \/ DayOf(maintained) = DayOf(now) => DayOf(b) \in rawParts
    <3>0. b \in Int /\ b <= now + Day /\ now <= b + Day
      BY <1>0, <1>1, Buckets DEF ReceiveReport
    <3>1. DayOf(b) \in Int /\ DayOf(now) \in Int /\ DayOf(maintained) \in Int
      BY <1>0, <3>0, Calendar
    <3>2. DayOf(b) <= DayOf(now) + 1 /\ DayOf(now) <= DayOf(b) + 1
      BY <1>0, <3>0, DayStep
    <3>3. DayOf(maintained) <= DayOf(now)
      BY <1>0, LaterTime
    <3>4. k \/ DayOf(maintained) = DayOf(now) => DayOf(b) \in EnsuredDays(maintained)
      BY <3>1, <3>2, <3>3 DEF EnsuredDays
    <3> QED BY <3>4 DEF PartsEnsured
  <2> HIDE DEF q, k
  <2>4. req'[h] = q /\ \A g \in Handler : g # h => req'[g] = req[g]
    BY <1>0, <2>2
  <2>5. DayOf(maintained)' = DayOf(maintained)
    BY <2>2 DEF DayOf
  <2> QED BY <2>1, <2>2, <2>3, <2>4, <2>5 DEF PartitionReady, DayOf
<1>2. CASE MaintainPartitions
  <2>1. /\ UNCHANGED <<now, req>> /\ maintained' = now
        /\ rawParts' = {d \in rawParts \cup EnsuredDays(now) : d >= RawCutoff(now)}
    BY <1>2 DEF MaintainPartitions
  <2>2. ASSUME NEW h \in Handler, req[h] # None, req[h].upkept \/ DayOf(now) = DayOf(req[h].since)
        PROVE  DayOf(req[h].bucket) \in rawParts'
    <3>1. DayOf(req[h].bucket) \in rawParts \cup EnsuredDays(now)
      <4>1. CASE req[h].upkept
        BY <2>2, <4>1 DEF PartitionReady
      <4>2. CASE DayOf(now) = DayOf(req[h].since)
        BY <2>2, <4>2, RequestDays DEF EnsuredDays
      <4> QED BY <2>2, <4>1, <4>2
    <3>2. DayOf(req[h].bucket) >= RawCutoff(now)
      BY <2>2, RequestDays, RetentionAssumption DEF RawCutoff
    <3> QED BY <2>1, <3>1, <3>2
  <2> QED BY <2>1, <2>2 DEF PartitionReady, DayOf
<1>3. CASE UNCHANGED <<rawParts, maintained>> /\ \A h \in Handler : req'[h] \in {req[h], None}
  BY <1>3 DEF PartitionReady, DayOf
<1>4. ASSUME NEW h \in Handler, CommitReport(h) \/ FailReport(h) PROVE PartitionReady'
  BY <1>0, <1>3, <1>4 DEF CommitReport, FailReport, tables
<1>5. CASE Stop
  BY <1>0, <1>3, <1>5 DEF Stop, tables
<1>6. CASE UNCHANGED <<rawParts, maintained, req>>
  BY <1>3, <1>6
<1> QED BY <1>1, <1>2, <1>4, <1>5, <1>6
        DEF Next, BeginCycle, StartRollup, RollupUpsert, RollupCommit, FailCycle, Start, Tick, vars, tables

\* The aggregates that are there or in the making belong to days with partitions.
LEMMA NextAggregates ==
    TypeOK /\ TaskTimely /\ AggregatesOwned /\ [Next]_vars => AggregatesOwned'
<1> SUFFICES ASSUME TypeOK, TaskTimely, AggregatesOwned, [Next]_vars PROVE AggregatesOwned'
  OBVIOUS
<1>0. /\ now \in Int /\ maintained \in Int /\ maintained <= now
      /\ \A b \in Bucket : raw[b] # None => DayOf(b) \in rawParts
      /\ \A b \in Bucket : DayOf(b) \in Int
  BY Buckets, Calendar DEF TypeOK, TaskTimely
<1>1. CASE MaintainPartitions
  <2>1. task'.pc = "hour" /\ maintained' = now
    BY <1>1, MaintainStep DEF MaintainPartitions
  <2>2. RawCutoff(maintained) <= RawCutoff(now) /\ RawCutoff(maintained) \in Int /\ RawCutoff(now) \in Int
    <3>1. DayOf(maintained) \in Int /\ DayOf(now) \in Int
      BY <1>0, Calendar
    <3>2. DayOf(maintained) <= DayOf(now)
      BY <1>0, LaterTime
    <3> QED BY <3>1, <3>2, BoundAssumption DEF RawCutoff
  <2>3. ASSUME NEW b \in Bucket, hourly'[b] # None
        PROVE  DayOf(b) \in rawParts' \/ DayOf(b) < RawCutoff(now)
    <3>1. hourly[b] # None
      BY <1>1, <2>3 DEF MaintainPartitions
    <3> QED BY <1>0, <1>1, <2>2, <3>1 DEF MaintainPartitions, AggregatesOwned
  <2> QED BY <2>1, <2>3 DEF AggregatesOwned, RawCutoff, DayOf
<1>2. CASE RollupUpsert
  <2>1. UNCHANGED <<hourly, rawParts, maintained>>
    BY <1>2 DEF RollupUpsert, tables
  <2>2. \A b \in Bucket : task'.upsert[b] # None => DayOf(b) \in rawParts
    BY <1>0, <1>2, UpsertStep
  <2> QED BY <2>1, <2>2 DEF AggregatesOwned, RawCutoff, DayOf
<1>3. CASE RollupCommit
  <2>1. UNCHANGED <<rawParts, maintained>> /\ hourly' = RolledUp(LoopHour) /\ task.pc = "delete"
    BY <1>3 DEF RollupCommit
  <2>2. task'.pc # "delete"
    BY <1>3, CommitStep
  <2>3. \A b \in Bucket : hourly'[b] \in {hourly[b], task.upsert[b], None}
    BY <2>1, RolledUpRows
  <2>4. \A b \in Bucket : hourly'[b] # None => DayOf(b) \in rawParts \/ DayOf(b) < RawCutoff(maintained)
    BY <2>1, <2>3 DEF AggregatesOwned
  <2> QED BY <2>1, <2>2, <2>4 DEF AggregatesOwned, RawCutoff, DayOf
<1>4. CASE UNCHANGED <<hourly, rawParts, maintained>> /\ (task' = task \/ task'.pc # "delete")
  BY <1>4 DEF AggregatesOwned, RawCutoff, DayOf
<1>5. CASE BeginCycle \/ StartRollup \/ FailCycle \/ Stop \/ Start
  <2>1. UNCHANGED <<hourly, rawParts, maintained>>
    BY <1>5 DEF BeginCycle, StartRollup, FailCycle, Stop, Start, tables
  <2>2. task'.pc # "delete"
    <3>1. now \in Nat
      BY DEF TypeOK
    <3> QED BY <1>5, <3>1, BeginStep, StartStep, EndStep, NewProcess DEF FailCycle, Stop, Start
  <2> QED BY <1>4, <2>1, <2>2
<1>6. CASE UNCHANGED <<hourly, rawParts, maintained, task>>
  BY <1>4, <1>6
<1> QED BY <1>1, <1>2, <1>3, <1>5, <1>6
        DEF Next, ReceiveReport, CommitReport, FailReport, Tick, vars, tables

LEMMA NextIInv == IInv /\ [Next]_vars => IInv'
<1> SUFFICES ASSUME IInv, [Next]_vars PROVE IInv'
  OBVIOUS
<1>1. TypeOK' /\ RequestsTimely' /\ TaskTimely' /\ LoopInWindow'
  BY NextTypeOK, NextRequests, NextTask, NextLoopInWindow DEF IInv
<1>2. PartsEnsured' /\ AggregatesOwned' /\ PartitionReady'
  BY NextParts, NextAggregates, NextPartitionReady DEF IInv
<1> QED BY <1>1, <1>2 DEF IInv

LEMMA MaintenanceInvariant == Spec => []IInv
BY InitIInv, NextIInv, PTL DEF Spec

\* The tables, the requests and the goroutine keep their types, and rows exist only
\* where their partitions do.
THEOREM MaintenanceTypeCorrect == Spec => []TypeOK
<1>1. IInv => TypeOK
  BY DEF IInv
<1> QED BY <1>1, MaintenanceInvariant, PTL

\* Every report that passed the age check finds its partition, if maintenance had
\* succeeded in the AheadDays days before it came, or on the day it came, be it
\* before or after it: an outage refuses reports until the first cycle.
THEOREM PartitionsReady == Spec => []PartitionReady
<1>1. IInv => PartitionReady
  BY DEF IInv
<1> QED BY <1>1, MaintenanceInvariant, PTL

\* No step takes an aggregate whose raw rows are dropped: maintain_partitions keeps
\* the months that stay, and an hour of a dropped day is before the window.
LEMMA AggregateKept ==
    ASSUME IInv, [Next]_vars, NEW b \in Bucket, DayOf(b) \notin rawParts, MonthOf(b) \in hourParts'
    PROVE  hourly'[b] = hourly[b]
<1>0. b \in Int /\ now \in Int /\ maintained \in Int
  BY Buckets DEF IInv, TypeOK
<1>1. CASE MaintainPartitions
  <2>1. MonthOf(b) \in Int /\ MonthOf(now) \in Int
    BY <1>0, Calendar
  <2>2. ~(MonthOf(b) < HourlyCutoff(now))
    BY <1>1, <2>1, BoundAssumption DEF MaintainPartitions, HourlyCutoff
  <2> QED BY <1>1, <2>2 DEF MaintainPartitions
<1>2. CASE RollupCommit
  <2>1. hourly' = RolledUp(LoopHour) /\ task.pc = "delete"
    BY <1>2 DEF RollupCommit
  <2>2. CASE ~OfHour(b, LoopHour)
    BY <2>1, <2>2, RolledUpRows DEF IInv
  <2>3. CASE OfHour(b, LoopHour)
    <3>1. /\ HourOf(b) = task.cur - task.offset /\ task.cur \in Int
          /\ task.offset \in 1 .. Window /\ HourOf(maintained) <= task.cur
      BY <2>1, <2>3, TaskFields DEF IInv, LoopInWindow, OfHour, LoopHour
    <3>2. HourOf(maintained) \in Int /\ HourOf(b) \in Int
      BY <1>0, Calendar
    <3>3. HourOf(maintained) <= HourOf(b) + Window
      BY <3>1, <3>2, BoundAssumption
    <3>4. RawCutoff(maintained) <= DayOf(b)
      BY <1>0, <3>3, WindowKept
    <3>5. RawCutoff(maintained) \in Int /\ DayOf(b) \in Int
      BY <1>0, Calendar, BoundAssumption DEF RawCutoff
    <3>6. hourly[b] = None /\ task.upsert[b] = None
      BY <2>1, <3>4, <3>5 DEF IInv, AggregatesOwned
    <3>7. hourly'[b] \in {hourly[b], task.upsert[b], None}
      BY <2>1, RolledUpRows DEF IInv
    <3> QED BY <3>6, <3>7
  <2> QED BY <2>2, <2>3
<1>3. CASE hourly' = hourly
  BY <1>3
<1> QED BY <1>1, <1>2, <1>3
        DEF Next, ReceiveReport, CommitReport, FailReport, BeginCycle, StartRollup, RollupUpsert,
            FailCycle, Stop, Start, Tick, vars, tables

\* Retention of raw rows never takes the aggregate with it: once an hour's day is
\* dropped, no step of a cycle changes its hourly row until that expires itself.
THEOREM AggregatesOutliveRaw == Spec => AggregateOutlivesRaw
<1>1. IInv /\ [Next]_vars =>
        [\A b \in Bucket :
            DayOf(b) \notin rawParts /\ MonthOf(b) \in hourParts' => hourly'[b] = hourly[b]]_vars
  BY AggregateKept
<1> QED BY <1>1, MaintenanceInvariant, PTL DEF Spec, AggregateOutlivesRaw

-----------------------------------------------------------------------------
(***************************************************************************)
(* Late reports: every minute that is behind is read by a loop to come.    *)
(***************************************************************************)

LEMMA NextLoopCases ==
    ASSUME NEW k \in Task
    PROVE  /\ k.pc \in {"partitions", "hour"} => NextLoop(k) = k.began + CycleTimeout
           /\ k.pc \in {"upsert", "delete"} =>
                NextLoop(k) = (IF k.due = None THEN k.began + CycleTimeout + Hour ELSE k.due) + CycleTimeout
           /\ k.pc = "wait" => NextLoop(k) = k.due + CycleTimeout
BY DEF NextLoop

\* rollup_hour leaves the rows of the hour, if they were the same when it selected.
LEMMA RolledUpExact ==
    ASSUME TypeOK, NEW hr, NEW b \in Bucket, OfHour(b, hr),
           \A c \in Bucket : OfHour(c, hr) => task.upsert[c] = raw[c]
    PROVE  RolledUp(hr)[b] = raw[b]
<1>1. CASE \A c \in Bucket : OfHour(c, hr) => raw[c] = None
  BY <1>1 DEF RolledUp
<1>2. CASE ~(\A c \in Bucket : OfHour(c, hr) => raw[c] = None)
  <2>1. \E c \in Bucket : OfHour(c, hr) /\ task.upsert[c] # None
    BY <1>2
  <2>2. RolledUp(hr) = [c \in Bucket |-> IF OfHour(c, hr) THEN task.upsert[c] ELSE hourly[c]]
    BY <1>2, <2>1, Zenon DEF RolledUp
  <2> QED BY <2>2
<1> QED BY <1>1, <1>2


\* The next loop is still to come, and begins within an hour and two cycles.
LEMMA NextLoopBounds ==
    ASSUME TypeOK, TaskTimely, task.pc # "stopped"
    PROVE  /\ NextLoop(task) \in Int /\ now <= NextLoop(task)
           /\ NextLoop(task) <= now + Hour + 2 * CycleTimeout
<1>0. /\ now \in Nat /\ task \in Task /\ task.began \in Nat /\ task.due \in Nat \cup {None}
      /\ CycleTimeout \in Nat /\ CycleTimeout < Hour /\ Hour \in Nat
  BY TaskFields, BoundAssumption, CalendarAssumption DEF TypeOK
<1>1. CASE task.pc \in {"partitions", "hour"}
  <2>1. task.began <= now /\ now <= task.began + CycleTimeout
    BY <1>1 DEF TaskTimely, Running
  <2> QED BY <1>0, <1>1, <2>1, NextLoopCases
<1>2. CASE task.pc \in {"upsert", "delete"} /\ task.due = None
  <2>1. task.began <= now /\ now <= task.began + CycleTimeout
    BY <1>2 DEF TaskTimely, Running
  <2>2. NextLoop(task) = task.began + CycleTimeout + Hour + CycleTimeout
    BY <1>0, <1>2, NextLoopCases
  <2> QED BY <1>0, <2>1, <2>2
<1>3. CASE task.pc \in {"upsert", "delete"} /\ task.due # None
  <2>1. task.began <= now /\ now <= task.began + CycleTimeout /\ task.due = task.began + Hour
    BY <1>3 DEF TaskTimely, Running
  <2>2. NextLoop(task) = task.due + CycleTimeout
    BY <1>0, <1>3, NextLoopCases
  <2> QED BY <1>0, <2>1, <2>2
<1>4. CASE task.pc = "wait"
  <2>1. task.due \in Nat /\ now <= task.due /\ task.due <= now + Hour
    BY <1>0, <1>4 DEF TaskTimely
  <2> QED BY <1>0, <1>4, <2>1, NextLoopCases
<1> QED BY <1>1, <1>2, <1>3, <1>4, TaskFields

\* The limit of an hour leaves an hour and two cycles from now, and from the end of
\* the hour.
LEMMA NextReadBounds ==
    ASSUME NEW hr \in Hours, NEW t \in Nat
    PROVE  /\ hr \in Int /\ NextRead(hr, t) \in Nat
           /\ t + Hour + 2 * CycleTimeout <= NextRead(hr, t)
           /\ NextRead(hr, 0) <= NextRead(hr, t)
           /\ HourOf(t) <= hr => t + Hour + 2 * CycleTimeout <= NextRead(hr, 0)
<1>1. hr \in Int /\ Hour \in Nat \ {0} /\ CycleTimeout \in Nat /\ NextRead(hr, t) \in Nat
  BY Buckets, CalendarAssumption, BoundAssumption, LimitType DEF Hours
<1> DEFINE over == (hr + 1) * Hour
<1>2. over \in Int
  BY <1>1
<1>3. /\ NextRead(hr, t) = (IF t > over THEN t ELSE over) + Hour + 2 * CycleTimeout
      /\ NextRead(hr, 0) = (IF 0 > over THEN 0 ELSE over) + Hour + 2 * CycleTimeout
  BY DEF NextRead
<1>4. HourOf(t) <= hr => t < over
  <2>1. t \div Hour \in Int /\ t < Hour * (t \div Hour) + Hour
    BY <1>1, DivBounds
  <2> DEFINE q == t \div Hour
  <2>2. q <= hr => Hour * q <= Hour * hr
    BY <1>1, <2>1, TimesMonotone
  <2>3. (hr + 1) * Hour = Hour * hr + Hour
    BY <1>1
  <2>4. HourOf(t) = q
    BY DEF HourOf
  <2> HIDE DEF q
  <2> QED BY <1>1, <2>1, <2>2, <2>3, <2>4 DEF q
<1> HIDE DEF over
<1> QED BY <1>1, <1>2, <1>3, <1>4

LEMMA HoursOfBuckets == \A b \in Bucket : HourOf(b) \in Hours
BY DEF Hours, HourOf

-----------------------------------------------------------------------------
(***************************************************************************)
(* The limits.                                                             *)
(***************************************************************************)

\* A limit given at time t is in the window.
LEMMA FreshLimit ==
    ASSUME NEW hr \in Hours, NEW t \in Nat, ReadLimit(hr, t) # None
    PROVE  /\ ReadLimit(hr, t) = NextRead(hr, t) /\ HourOf(ReadLimit(hr, t)) <= hr + Window
           /\ NextRead(hr, 0) <= ReadLimit(hr, t)
BY NextReadBounds DEF ReadLimit

LEMMA InitLimits == Init => LimitsInWindow
BY DEF Init, LimitsInWindow

LEMMA PostponedLimits ==
    ASSUME TypeOK, LimitsInWindow, NEW t \in Nat, readBy' = Postponed(t)
    PROVE  LimitsInWindow'
<1> SUFFICES ASSUME NEW hr \in Hours, readBy'[hr] # None
             PROVE  HourOf(readBy'[hr]) <= hr + Window /\ NextRead(hr, 0) <= readBy'[hr]
  BY DEF LimitsInWindow, HourOf, NextRead
<1>1. CASE readBy'[hr] = readBy[hr]
  BY <1>1 DEF LimitsInWindow
<1>2. CASE readBy'[hr] = ReadLimit(hr, t)
  BY <1>2, FreshLimit
<1> QED BY <1>1, <1>2 DEF Postponed

LEMMA NextLimits ==
    TypeOK /\ LimitsInWindow /\ [Next]_vars => LimitsInWindow'
<1> SUFFICES ASSUME TypeOK, LimitsInWindow, [Next]_vars PROVE LimitsInWindow'
  OBVIOUS
<1>0. now \in Nat /\ now + 1 \in Nat /\ readBy \in [Hours -> Nat \cup {None}]
  BY DEF TypeOK
<1>1. ASSUME NEW h \in Handler, CommitReport(h) PROVE LimitsInWindow'
  <2> DEFINE r == HourOf(req[h].bucket)
  <2>1. r \in Hours
    BY <1>1, ReportFields, HoursOfBuckets DEF CommitReport
  <2>2. readBy' = [readBy EXCEPT ![r] = ReadLimit(r, now)]
    BY <1>1 DEF CommitReport
  <2> HIDE DEF r
  <2>3. ASSUME NEW hr \in Hours, readBy'[hr] # None
        PROVE  HourOf(readBy'[hr]) <= hr + Window /\ NextRead(hr, 0) <= readBy'[hr]
    <3>1. CASE hr = r
      <4>1. readBy'[hr] = ReadLimit(hr, now)
        BY <1>0, <2>2, <3>1
      <4> QED BY <1>0, <2>3, <4>1, FreshLimit
    <3>2. CASE hr # r
      <4>1. readBy'[hr] = readBy[hr]
        BY <1>0, <2>2, <3>2
      <4> QED BY <2>3, <4>1 DEF LimitsInWindow
    <3> QED BY <3>1, <3>2
  <2> QED BY <2>3 DEF LimitsInWindow, HourOf, NextRead
<1>2. CASE FailCycle \/ Stop
  BY <1>0, <1>2, PostponedLimits DEF FailCycle, Stop
<1>3. CASE readBy' = readBy
  BY <1>3 DEF LimitsInWindow, HourOf, NextRead
<1>4. CASE Tick
  BY <1>0, <1>3, <1>4, PostponedLimits DEF Tick
<1> QED BY <1>1, <1>2, <1>3, <1>4
        DEF Next, ReceiveReport, FailReport, BeginCycle, MaintainPartitions, StartRollup,
            RollupUpsert, RollupCommit, Start, vars

-----------------------------------------------------------------------------
(***************************************************************************)
(* Every minute that is behind is read by its limit.                       *)
(***************************************************************************)

LEMMA InitPending == Init => RollupPending
<1> SUFFICES ASSUME Init PROVE \A b \in Bucket : ~Behind(b)
  BY DEF RollupPending
<1>1. task.pc = "partitions"
  BY NewProcess, BoundAssumption DEF Init
<1> QED BY <1>1 DEF Init, Behind

\* What waits to be read has not passed its limit.
LEMMA LimitAhead ==
    ASSUME TypeOK, TaskTimely, NEW hr \in Hours, readBy[hr] # None, ReadInTime(hr)
    PROVE  readBy[hr] \in Nat /\ now <= readBy[hr]
<1>0. /\ now \in Nat /\ readBy[hr] \in Nat /\ task.began \in Nat /\ Hour \in Nat /\ CycleTimeout \in Nat
  BY TaskFields, CalendarAssumption, BoundAssumption DEF TypeOK
<1>1. CASE ToVisit(hr) /\ task.began + CycleTimeout <= readBy[hr]
  <2>1. now <= task.began + CycleTimeout
    BY <1>1 DEF ToVisit, TaskTimely, Running
  <2> QED BY <1>0, <1>1, <2>1
<1>2. CASE task.pc # "stopped" /\ NextLoop(task) <= readBy[hr]
  BY <1>0, <1>2, NextLoopBounds
<1>3. CASE task.pc = "stopped" /\ NextRead(hr, now) <= readBy[hr]
  BY <1>0, <1>3, NextReadBounds
<1> QED BY <1>0, <1>1, <1>2, <1>3 DEF ReadInTime

LEMMA CommitReportPending ==
    ASSUME IInv, RollupPending, NEW h \in Handler, CommitReport(h)
    PROVE  RollupPending'
<1> DEFINE r == req[h].bucket
<1>0. /\ raw' = [raw EXCEPT ![r] = req[h].row] /\ req[h] # None
      /\ UNCHANGED <<hourly, rawParts, task, now>> /\ now \in Nat
      /\ readBy' = [readBy EXCEPT ![HourOf(r)] = ReadLimit(HourOf(r), now)]
      /\ readBy \in [Hours -> Nat \cup {None}] /\ r \in Bucket
  BY ReportFields DEF CommitReport, IInv, TypeOK
<1>1. task.pc # "stopped"
  BY <1>0 DEF IInv, TaskTimely
<1> SUFFICES ASSUME NEW b \in Bucket, DayOf(b) \in rawParts, Behind(b)', readBy'[HourOf(b)] # None
             PROVE  ReadInTime(HourOf(b))'
  BY <1>0 DEF RollupPending, DayOf, HourOf
<1>2. HourOf(b) \in Hours /\ HourOf(r) \in Hours /\ HourOf(b)' = HourOf(b)
  BY <1>0, HoursOfBuckets DEF HourOf
<1>3. NextLoop(task)' = NextLoop(task)
  BY <1>0 DEF NextLoop
<1> HIDE DEF r
<1>4. CASE HourOf(b) = HourOf(r)
  <2>1. readBy'[HourOf(b)] = ReadLimit(HourOf(b), now)
    BY <1>0, <1>2, <1>4
  <2>2. readBy'[HourOf(b)] = NextRead(HourOf(b), now)
    BY <1>0, <1>2, <2>1, FreshLimit
  <2>3. NextRead(HourOf(b), now) \in Nat /\ now + Hour + 2 * CycleTimeout <= NextRead(HourOf(b), now)
    BY <1>0, <1>2, NextReadBounds
  <2>4. NextLoop(task) \in Int /\ NextLoop(task) <= now + Hour + 2 * CycleTimeout
    BY <1>1, NextLoopBounds DEF IInv
  <2>5. NextLoop(task) <= readBy'[HourOf(b)]
    BY <1>0, <2>2, <2>3, <2>4, CalendarAssumption, BoundAssumption
  <2> QED BY <1>0, <1>1, <1>2, <1>3, <2>5 DEF ReadInTime
<1>5. CASE HourOf(b) # HourOf(r)
  <2>1. \A c \in Bucket : HourOf(c) = HourOf(b) => raw'[c] = raw[c]
    BY <1>0, <1>5 DEF IInv, TypeOK
  <2>2. readBy'[HourOf(b)] = readBy[HourOf(b)]
    BY <1>0, <1>2, <1>5
  <2>3. Behind(b)
    BY <1>0, <2>1 DEF Behind, OfHour, LoopHour, HourOf
  <2>4. ReadInTime(HourOf(b))
    BY <2>2, <2>3 DEF RollupPending
  <2>5. ToVisit(HourOf(b)) => ToVisit(HourOf(b))'
    BY <1>0, <2>1 DEF ToVisit, LoopHour, OfHour, HourOf
  <2> QED BY <1>0, <1>1, <1>2, <1>3, <2>2, <2>4, <2>5 DEF ReadInTime
<1> QED BY <1>4, <1>5

LEMMA BeginPending ==
    ASSUME IInv, RollupPending, BeginCycle
    PROVE  RollupPending'
<1>0. UNCHANGED <<raw, hourly, rawParts, readBy>> /\ now \in Nat /\ task \in Task
  BY DEF BeginCycle, tables, IInv, TypeOK
<1> SUFFICES ASSUME NEW b \in Bucket, DayOf(b) \in rawParts, Behind(b)', readBy[HourOf(b)] # None
             PROVE  ReadInTime(HourOf(b))'
  BY <1>0 DEF RollupPending, DayOf, HourOf
<1>1. /\ task.pc = "wait" /\ task.due \in Nat /\ now >= task.due
      /\ task' \in Task /\ task'.pc = "partitions" /\ task'.began = now
  BY BeginStep DEF IInv
<1>2. now = task.due
  BY <1>0, <1>1 DEF IInv, TaskTimely
<1>3. NextLoop(task') = NextLoop(task)
  BY <1>0, <1>1, <1>2, NextLoopCases
<1>4. ReadInTime(HourOf(b))
  BY <1>0, <1>1 DEF RollupPending, Behind
<1>5. NextLoop(task) <= readBy[HourOf(b)]
  BY <1>1, <1>4 DEF ReadInTime, ToVisit
<1> QED BY <1>0, <1>1, <1>3, <1>5 DEF ReadInTime, HourOf

LEMMA MaintainPending ==
    ASSUME IInv, RollupPending, MaintainPartitions
    PROVE  RollupPending'
<1>0. /\ now \in Int /\ maintained \in Int /\ maintained <= now /\ task \in Task
      /\ readBy' = readBy
      /\ rawParts' = {d \in rawParts \cup EnsuredDays(now) : d >= RawCutoff(now)}
  BY DEF MaintainPartitions, IInv, TypeOK, TaskTimely
<1> SUFFICES ASSUME NEW b \in Bucket, DayOf(b) \in rawParts', Behind(b)', readBy[HourOf(b)] # None
             PROVE  ReadInTime(HourOf(b))'
  BY <1>0 DEF RollupPending, DayOf, HourOf
<1>1. /\ task.pc = "partitions" /\ task' \in Task /\ task'.pc = "hour"
      /\ task'.began = task.began /\ task'.due = task.due
  BY MaintainStep DEF IInv
<1>2. /\ b \in Int /\ DayOf(b) \in Int /\ MonthOf(b) \in Int /\ DayOf(now) \in Int /\ MonthOf(now) \in Int
      /\ DayOf(maintained) \in Int
  BY <1>0, Buckets, Calendar
<1>3. RawCutoff(now) <= DayOf(b) /\ RawCutoff(now) \in Int
  BY <1>0, <1>2, BoundAssumption DEF RawCutoff
<1>4. HourlyCutoff(now) <= MonthOf(b) /\ HourlyCutoff(now) \in Int
  BY <1>0, <1>2, <1>3, MonthKept, BoundAssumption DEF HourlyCutoff
<1>5. raw'[b] = raw[b] /\ hourly'[b] = hourly[b]
  BY <1>2, <1>3, <1>4 DEF MaintainPartitions
<1>6. Behind(b) /\ hourly[b] # raw[b]
  BY <1>1, <1>5 DEF Behind
<1>7. DayOf(b) \in rawParts
  <2>1. DayOf(maintained) <= DayOf(now)
    BY <1>0, LaterTime
  <2>2. ~(DayOf(b) < RawCutoff(maintained))
    BY <1>2, <1>3, <2>1, BoundAssumption DEF RawCutoff
  <2>3. raw[b] # None => DayOf(b) \in rawParts
    BY DEF IInv, TypeOK
  <2>4. hourly[b] # None => DayOf(b) \in rawParts
    BY <2>2 DEF IInv, AggregatesOwned
  <2> QED BY <1>6, <2>3, <2>4
<1>8. NextLoop(task) <= readBy[HourOf(b)]
  BY <1>1, <1>6, <1>7 DEF RollupPending, ReadInTime, ToVisit
<1>9. NextLoop(task') = NextLoop(task)
  BY <1>0, <1>1, NextLoopCases
<1> QED BY <1>0, <1>1, <1>8, <1>9 DEF ReadInTime, HourOf

\* The loop begins: it reads the hours before now, and the next one begins in time
\* to read the others.
LEMMA StartPending ==
    ASSUME IInv, LimitsInWindow, RollupPending, StartRollup
    PROVE  RollupPending'
<1>0. /\ UNCHANGED <<raw, hourly, rawParts, readBy>> /\ now \in Nat /\ task \in Task
      /\ Hour \in Nat /\ CycleTimeout \in Nat /\ Window \in Nat
      /\ task.began \in Nat /\ task.due \in Nat \cup {None}
      /\ readBy \in [Hours -> Nat \cup {None}]
  BY TaskFields, BoundAssumption, CalendarAssumption DEF StartRollup, tables, IInv, TypeOK
<1> SUFFICES ASSUME NEW b \in Bucket, DayOf(b) \in rawParts, Behind(b)', readBy[HourOf(b)] # None
             PROVE  ReadInTime(HourOf(b))'
  BY <1>0 DEF RollupPending, DayOf, HourOf
<1>1. /\ task.pc = "hour" /\ task' \in Task /\ task'.pc = "upsert" /\ task'.began = task.began
      /\ task'.due = task.due /\ task'.cur = HourOf(now) /\ task'.offset = 1
  BY StartStep DEF IInv
<1>2. NextLoop(task) <= readBy[HourOf(b)] /\ HourOf(b) \in Hours /\ readBy[HourOf(b)] \in Nat
  BY <1>0, <1>1, HoursOfBuckets DEF RollupPending, Behind, ReadInTime, ToVisit
<1>3. /\ NextLoop(task) = task.began + CycleTimeout
      /\ task.began <= now /\ now <= task.began + CycleTimeout
      /\ task.due # None => task.due = task.began + Hour
  BY <1>0, <1>1, NextLoopCases DEF IInv, TaskTimely, Running
<1>4. HourOf(now) <= HourOf(readBy[HourOf(b)])
  BY <1>0, <1>2, <1>3, LaterTime
<1>5. /\ b \in Int /\ HourOf(b) \in Int /\ HourOf(now) \in Int /\ HourOf(readBy[HourOf(b)]) \in Int
      /\ HourOf(readBy[HourOf(b)]) <= HourOf(b) + Window
      /\ NextRead(HourOf(b), 0) <= readBy[HourOf(b)]
  BY <1>0, <1>2, Buckets, Calendar DEF LimitsInWindow
<1>6. CASE HourOf(b) <= HourOf(now) - 1
  <2>1. HourOf(now) - Window <= HourOf(b)
    BY <1>0, <1>4, <1>5
  <2>2. ToVisit(HourOf(b))'
    BY <1>1, <1>6, <2>1 DEF ToVisit, LoopHour, HourOf
  <2>3. task'.began + CycleTimeout <= readBy'[HourOf(b)]
    BY <1>0, <1>1, <1>2, <1>3
  <2> QED BY <2>2, <2>3 DEF ReadInTime, HourOf
<1>7. CASE HourOf(now) <= HourOf(b)
  <2> DEFINE n == NextLoop(task')
             l == readBy[HourOf(b)]
  <2>1. now + Hour + 2 * CycleTimeout <= NextRead(HourOf(b), 0) /\ NextRead(HourOf(b), 0) \in Nat
    BY <1>0, <1>2, <1>7, NextReadBounds
  <2>2. n = (IF task.due = None THEN task.began + CycleTimeout + Hour ELSE task.due) + CycleTimeout
    BY <1>1, NextLoopCases
  <2>3. l \in Nat /\ NextRead(HourOf(b), 0) <= l
    BY <1>2, <1>5
  <2> HIDE DEF n, l
  <2>4. n <= l
    BY <1>0, <1>3, <2>1, <2>2, <2>3
  <2> QED BY <1>0, <1>1, <2>4 DEF n, l, ReadInTime, HourOf
<1> QED BY <1>5, <1>6, <1>7

LEMMA UpsertPending ==
    ASSUME IInv, RollupPending, RollupUpsert
    PROVE  RollupPending'
<1>0. UNCHANGED <<raw, hourly, rawParts, readBy>> /\ task \in Task
  BY DEF RollupUpsert, tables, IInv, TypeOK
<1> SUFFICES ASSUME NEW b \in Bucket, DayOf(b) \in rawParts, Behind(b)', readBy[HourOf(b)] # None
             PROVE  ReadInTime(HourOf(b))'
  BY <1>0 DEF RollupPending, DayOf, HourOf
<1>1. /\ task.pc = "upsert" /\ task' \in Task /\ task'.pc = "delete" /\ task'.began = task.began
      /\ task'.due = task.due /\ task'.cur = task.cur /\ task'.offset = task.offset
      /\ \A c \in Bucket : OfHour(c, LoopHour) => task'.upsert[c] = raw[c]
  BY UpsertStep DEF IInv
<1>2. LoopHour' = LoopHour
  BY <1>1 DEF LoopHour
<1>3. Behind(b)
  BY <1>0, <1>1, <1>2 DEF Behind, OfHour, HourOf
<1>4. ReadInTime(HourOf(b))
  BY <1>3 DEF RollupPending
<1>5. NextLoop(task') = NextLoop(task)
  BY <1>0, <1>1, NextLoopCases
<1>6. ToVisit(HourOf(b)) => ToVisit(HourOf(b))'
  BY <1>0, <1>1, <1>2 DEF ToVisit, OfHour, HourOf
<1> QED BY <1>0, <1>1, <1>4, <1>5, <1>6 DEF ReadInTime, HourOf

\* The loop ends an hour: the hour is up to date, or changed after it was read and
\* waits for the next loop.
LEMMA RollupCommitPending ==
    ASSUME IInv, RollupPending, RollupCommit
    PROVE  RollupPending'
<1>0. /\ UNCHANGED <<raw, rawParts, readBy>> /\ hourly' = RolledUp(LoopHour) /\ now \in Nat
      /\ task \in Task /\ task.began \in Nat /\ task.due \in Nat \cup {None} /\ task.cur \in Int
      /\ Hour \in Nat /\ CycleTimeout \in Nat /\ Window \in Nat /\ task.offset \in 0 .. Window
      /\ readBy \in [Hours -> Nat \cup {None}] /\ TypeOK
  BY TaskFields, BoundAssumption, CalendarAssumption DEF RollupCommit, IInv, TypeOK
<1> SUFFICES ASSUME NEW b \in Bucket, DayOf(b) \in rawParts, Behind(b)', readBy[HourOf(b)] # None
             PROVE  ReadInTime(HourOf(b))'
  BY <1>0 DEF RollupPending, DayOf, HourOf
<1>1. /\ task.pc = "delete" /\ task' \in Task
      /\ \/ /\ task.offset < Window
            /\ task'.pc = "upsert" /\ task'.began = task.began /\ task'.due = task.due
            /\ task'.cur = task.cur /\ task'.offset = task.offset + 1
         \/ /\ ~(task.offset < Window)
            /\ task'.pc = "wait" /\ task'.due = NextDue
  BY <1>0, CommitStep
<1>2. hourly'[b] # raw[b]
  BY <1>0, <1>1 DEF Behind
<1>3. b \in Int /\ HourOf(b) \in Int /\ readBy[HourOf(b)] \in Nat
  BY <1>0, Buckets, Calendar, HoursOfBuckets
<1>4. ASSUME NextLoop(task) <= readBy[HourOf(b)] PROVE ReadInTime(HourOf(b))'
  <2>1. now <= task.began + CycleTimeout
    BY <1>1 DEF IInv, TaskTimely, Running
  <2>2. NextLoop(task) = (IF task.due = None THEN task.began + CycleTimeout + Hour ELSE task.due) + CycleTimeout
    BY <1>0, <1>1, NextLoopCases
  <2>3. NextLoop(task) \in Int
    BY <1>0, <2>2
  <2>4. NextLoop(task') \in Int /\ NextLoop(task') <= NextLoop(task)
    <3>1. CASE task'.pc = "upsert"
      <4>1. NextLoop(task') = NextLoop(task)
        BY <1>1, <2>2, <3>1, NextLoopCases
      <4> QED BY <2>3, <4>1
    <3>2. CASE task'.pc = "wait"
      <4>1. NextLoop(task') = NextDue + CycleTimeout
        BY <1>1, <3>2, NextLoopCases
      <4> QED BY <1>0, <2>1, <2>2, <4>1 DEF NextDue
    <3> QED BY <1>1, <3>1, <3>2
  <2>5. NextLoop(task') <= readBy[HourOf(b)]
    BY <1>3, <1>4, <2>3, <2>4
  <2> QED BY <1>0, <1>1, <2>5 DEF ReadInTime, HourOf
<1>5. CASE ~OfHour(b, LoopHour)
  <2>1. Behind(b)
    BY <1>0, <1>2, <1>5, RolledUpRows DEF Behind
  <2>2. ReadInTime(HourOf(b))
    BY <2>1 DEF RollupPending
  <2>3. CASE ToVisit(HourOf(b)) /\ task.began + CycleTimeout <= readBy[HourOf(b)]
    <3>1. task.cur - Window <= HourOf(b) /\ HourOf(b) < task.cur - task.offset
      BY <1>0, <1>3, <1>5, <2>3 DEF ToVisit, OfHour, LoopHour
    <3>2. task.offset < Window /\ HourOf(b) <= task.cur - (task.offset + 1)
      BY <1>0, <1>3, <3>1
    <3>3. ToVisit(HourOf(b))'
      BY <1>1, <3>1, <3>2 DEF ToVisit, LoopHour, HourOf
    <3>4. task'.began + CycleTimeout <= readBy'[HourOf(b)]
      BY <1>0, <1>1, <2>3, <3>2
    <3> QED BY <3>3, <3>4 DEF ReadInTime, HourOf
  <2> QED BY <1>1, <1>4, <2>2, <2>3 DEF ReadInTime
<1>6. CASE OfHour(b, LoopHour)
  <2>1. PICK c \in Bucket : OfHour(c, LoopHour) /\ task.upsert[c] # raw[c]
    BY <1>0, <1>2, <1>6, RolledUpExact
  <2>2. HourOf(c) = HourOf(b) /\ DayOf(c) = DayOf(b)
    BY <1>3, <1>6, <2>1, Buckets, SameHour DEF OfHour
  <2>3. ReadInTime(HourOf(c))
    BY <1>1, <2>1, <2>2 DEF RollupPending, Behind
  <2>4. ~ToVisit(HourOf(c))
    BY <1>1, <2>1 DEF ToVisit, OfHour
  <2> QED BY <1>1, <1>4, <2>2, <2>3, <2>4 DEF ReadInTime
<1> QED BY <1>5, <1>6

\* Hours that wait when a cycle fails or the service is down have a new limit.
LEMMA PostponedPending ==
    ASSUME TypeOK, TaskTimely, NEW hr \in Hours, NEW t \in Nat, readBy' = Postponed(t),
           readBy'[hr] # None, readBy[hr] # None => ReadInTime(hr)
    PROVE  readBy'[hr] = NextRead(hr, t)
<1>1. readBy'[hr] = IF readBy[hr] # None /\ now <= readBy[hr] THEN ReadLimit(hr, t) ELSE readBy[hr]
  BY DEF Postponed
<1>2. readBy[hr] # None
  BY <1>1
<1>3. now <= readBy[hr]
  BY <1>2, LimitAhead
<1>4. readBy'[hr] = ReadLimit(hr, t)
  BY <1>1, <1>2, <1>3
<1> QED BY <1>4, FreshLimit

\* A cycle fails: the ticker, which fires within an hour, begins the next one.
LEMMA FailPending ==
    ASSUME IInv, RollupPending, FailCycle
    PROVE  RollupPending'
<1>0. /\ UNCHANGED <<raw, hourly, rawParts, now>> /\ now \in Nat /\ readBy' = Postponed(now)
      /\ Hour \in Nat /\ CycleTimeout \in Nat /\ task.began \in Nat /\ task.due \in Nat \cup {None}
  BY TaskFields, BoundAssumption, CalendarAssumption DEF FailCycle, tables, IInv, TypeOK
<1> SUFFICES ASSUME NEW b \in Bucket, DayOf(b) \in rawParts, Behind(b)', readBy'[HourOf(b)] # None
             PROVE  ReadInTime(HourOf(b))'
  BY <1>0 DEF RollupPending, DayOf, HourOf
<1>1. task' \in Task /\ task'.pc = "wait" /\ task'.due = NextDue /\ NextDue \in Nat /\ Running
  BY EndStep DEF FailCycle, IInv
<1>2. Behind(b) /\ HourOf(b) \in Hours
  BY <1>0, <1>1, HoursOfBuckets DEF Behind
<1>3. readBy'[HourOf(b)] = NextRead(HourOf(b), now)
  BY <1>0, <1>2, PostponedPending DEF IInv, RollupPending
<1>4. NextRead(HourOf(b), now) \in Nat /\ now + Hour + 2 * CycleTimeout <= NextRead(HourOf(b), now)
  BY <1>0, <1>2, NextReadBounds
<1>5. NextDue <= now + Hour
  BY <1>0, <1>1 DEF NextDue, IInv, TaskTimely
<1>6. NextLoop(task') = NextDue + CycleTimeout
  BY <1>1, NextLoopCases
<1>7. NextLoop(task') <= readBy'[HourOf(b)]
  BY <1>0, <1>1, <1>3, <1>4, <1>5, <1>6
<1> QED BY <1>1, <1>7 DEF ReadInTime, HourOf

LEMMA StopPending ==
    ASSUME IInv, RollupPending, Stop
    PROVE  RollupPending'
<1>0. /\ UNCHANGED <<raw, hourly, rawParts, now>> /\ now \in Nat /\ readBy' = Postponed(now)
  BY DEF Stop, tables, IInv, TypeOK
<1> SUFFICES ASSUME NEW b \in Bucket, DayOf(b) \in rawParts, Behind(b)', readBy'[HourOf(b)] # None
             PROVE  ReadInTime(HourOf(b))'
  BY <1>0 DEF RollupPending, DayOf, HourOf
<1>1. task'.pc = "stopped"
  BY <1>0, NewProcess DEF Stop
<1>2. Behind(b) /\ HourOf(b) \in Hours
  BY <1>0, <1>1, HoursOfBuckets DEF Behind
<1>3. readBy'[HourOf(b)] = NextRead(HourOf(b), now)
  BY <1>0, <1>2, PostponedPending DEF IInv, RollupPending
<1>4. NextRead(HourOf(b), now) \in Nat
  BY <1>0, <1>2, NextReadBounds
<1>5. NextRead(HourOf(b), now') <= readBy'[HourOf(b)]
  BY <1>0, <1>3, <1>4
<1> QED BY <1>1, <1>5 DEF ReadInTime, HourOf, NextRead

\* The first cycle of a process begins at once.
LEMMA RestartPending ==
    ASSUME IInv, RollupPending, Start
    PROVE  RollupPending'
<1>0. /\ UNCHANGED <<raw, hourly, rawParts, readBy>> /\ now \in Nat /\ task.pc = "stopped"
      /\ Hour \in Nat /\ CycleTimeout \in Nat /\ readBy \in [Hours -> Nat \cup {None}]
  BY BoundAssumption, CalendarAssumption DEF Start, tables, IInv, TypeOK
<1> SUFFICES ASSUME NEW b \in Bucket, DayOf(b) \in rawParts, Behind(b)', readBy[HourOf(b)] # None
             PROVE  ReadInTime(HourOf(b))'
  BY <1>0 DEF RollupPending, DayOf, HourOf
<1>1. task' \in Task /\ task'.pc = "partitions" /\ task'.began = now
  BY <1>0, NewProcess DEF Start
<1>2. Behind(b) /\ HourOf(b) \in Hours /\ readBy[HourOf(b)] \in Nat
  BY <1>0, <1>1, HoursOfBuckets DEF Behind
<1>3. NextRead(HourOf(b), now) <= readBy[HourOf(b)]
  BY <1>0, <1>2 DEF RollupPending, ReadInTime, ToVisit
<1>4. NextRead(HourOf(b), now) \in Nat /\ now + Hour + 2 * CycleTimeout <= NextRead(HourOf(b), now)
  BY <1>0, <1>2, NextReadBounds
<1>5. NextLoop(task') = now + CycleTimeout
  BY <1>1, NextLoopCases
<1>6. NextLoop(task') <= readBy'[HourOf(b)]
  BY <1>0, <1>2, <1>3, <1>4, <1>5
<1> QED BY <1>1, <1>6 DEF ReadInTime, HourOf

LEMMA TickPending ==
    ASSUME IInv, RollupPending, Tick
    PROVE  RollupPending'
<1>0. /\ UNCHANGED <<raw, hourly, rawParts, task>> /\ now \in Nat /\ now' = now + 1 /\ now + 1 \in Nat
      /\ readBy' = IF task.pc = "stopped" THEN Postponed(now + 1) ELSE readBy
  BY DEF Tick, tables, IInv, TypeOK
<1> SUFFICES ASSUME NEW b \in Bucket, DayOf(b) \in rawParts, Behind(b)', readBy'[HourOf(b)] # None
             PROVE  ReadInTime(HourOf(b))'
  BY <1>0 DEF RollupPending, DayOf, HourOf
<1>1. Behind(b) /\ HourOf(b) \in Hours
  BY <1>0, HoursOfBuckets DEF Behind, OfHour, LoopHour, HourOf
<1>2. CASE task.pc = "stopped"
  <2>1. readBy'[HourOf(b)] = NextRead(HourOf(b), now + 1)
    BY <1>0, <1>1, <1>2, PostponedPending DEF IInv, RollupPending
  <2>2. NextRead(HourOf(b), now + 1) \in Nat
    BY <1>0, <1>1, NextReadBounds
  <2>3. NextRead(HourOf(b), now') <= readBy'[HourOf(b)]
    BY <1>0, <2>1, <2>2
  <2> QED BY <1>0, <1>2, <2>3 DEF ReadInTime, HourOf, NextRead
<1>3. CASE task.pc # "stopped"
  <2>1. readBy' = readBy
    BY <1>0, <1>3
  <2>2. ReadInTime(HourOf(b))
    BY <1>1, <2>1 DEF RollupPending
  <2>3. ToVisit(HourOf(b)) => ToVisit(HourOf(b))'
    BY <1>0 DEF ToVisit, OfHour, LoopHour, HourOf
  <2>4. NextLoop(task)' = NextLoop(task)
    BY <1>0 DEF NextLoop
  <2> QED BY <1>0, <1>3, <2>1, <2>2, <2>3, <2>4 DEF ReadInTime, HourOf
<1> QED BY <1>2, <1>3

LEMMA NextPending ==
    IInv /\ LimitsInWindow /\ RollupPending /\ [Next]_vars => RollupPending'
<1> SUFFICES ASSUME IInv, LimitsInWindow, RollupPending, [Next]_vars PROVE RollupPending'
  OBVIOUS
<1>1. ASSUME NEW h \in Handler, CommitReport(h) PROVE RollupPending'
  BY <1>1, CommitReportPending
<1>2. CASE BeginCycle
  BY <1>2, BeginPending
<1>3. CASE MaintainPartitions
  BY <1>3, MaintainPending
<1>4. CASE StartRollup
  BY <1>4, StartPending
<1>5. CASE RollupUpsert
  BY <1>5, UpsertPending
<1>6. CASE RollupCommit
  BY <1>6, RollupCommitPending
<1>7. CASE FailCycle
  BY <1>7, FailPending
<1>8. CASE Stop
  BY <1>8, StopPending
<1>9. CASE Start
  BY <1>9, RestartPending
<1>10. CASE Tick
  BY <1>10, TickPending
<1>11. CASE UNCHANGED <<now, raw, hourly, rawParts, task, readBy>>
  <2>1. \A b \in Bucket : Behind(b)' <=> Behind(b)
    BY <1>11 DEF Behind, OfHour, LoopHour, HourOf
  <2>2. \A b \in Bucket : ReadInTime(HourOf(b)) => ReadInTime(HourOf(b))'
    BY <1>11 DEF ReadInTime, ToVisit, NextLoop, NextRead, OfHour, LoopHour, HourOf
  <2> QED BY <1>11, <2>1, <2>2 DEF RollupPending, DayOf, HourOf
<1> QED BY <1>1, <1>2, <1>3, <1>4, <1>5, <1>6, <1>7, <1>8, <1>9, <1>10, <1>11
        DEF Next, ReceiveReport, FailReport, vars, tables

\* When an hour is out of reach its limit has passed, so nothing of it is behind.
LEMMA PendingCovers == IInv /\ LimitsInWindow /\ RollupPending => TimelyReportsCovered
<1> SUFFICES ASSUME IInv, LimitsInWindow, RollupPending, NEW b \in Bucket, OutOfReach(b),
                    DayOf(b) \in rawParts, readBy[HourOf(b)] # None, hourly[b] # raw[b]
             PROVE  FALSE
  BY DEF TimelyReportsCovered
<1>0. /\ now \in Int /\ b \in Int /\ task.cur \in Int /\ Window \in Int /\ HourOf(b) \in Hours
      /\ readBy[HourOf(b)] \in Nat
  <2>1. HourOf(b) \in Hours /\ now \in Nat /\ readBy \in [Hours -> Nat \cup {None}]
    BY HoursOfBuckets DEF IInv, TypeOK
  <2>2. task.cur \in Int /\ Window \in Int /\ b \in Int
    BY TaskFields, Buckets, BoundAssumption DEF IInv
  <2> QED BY <2>1, <2>2
<1>1. ReadInTime(HourOf(b))
  BY DEF RollupPending, Behind
<1>2. now <= readBy[HourOf(b)]
  BY <1>0, <1>1, LimitAhead DEF IInv
<1>3. HourOf(now) <= HourOf(readBy[HourOf(b)])
  BY <1>0, <1>2, LaterTime
<1>4. HourOf(b) \in Int /\ HourOf(now) \in Int /\ HourOf(readBy[HourOf(b)]) \in Int
  BY <1>0, Calendar
<1>5. HourOf(readBy[HourOf(b)]) <= HourOf(b) + Window
  BY <1>0 DEF LimitsInWindow
<1> QED BY <1>0, <1>3, <1>4, <1>5 DEF OutOfReach

\* Late reports reach the aggregates if they come in time: an hour that no cycle
\* visits again is aggregated as its rows are, if it was still in the window an hour
\* and two cycle timeouts after its last write and after the last failure or
\* downtime it had to wait for.  No relation between the window and the age of
\* reports is assumed.
THEOREM TimelyReportsReachAggregates == Spec => []TimelyReportsCovered
<1>1. IInv /\ LimitsInWindow /\ [Next]_vars => LimitsInWindow'
  BY NextLimits DEF IInv
<1>2. IInv /\ LimitsInWindow /\ RollupPending /\ [Next]_vars => RollupPending'
  BY NextPending
<1> QED BY <1>1, <1>2, InitLimits, InitPending, MaintenanceInvariant, PendingCovers, PTL DEF Spec
=============================================================================
