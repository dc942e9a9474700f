---------------------------- MODULE Maintenance ----------------------------
(***************************************************************************)
(* The background task of the central service (internal/server/            *)
(* maintenance.go) and the functions of the database it runs:              *)
(* maintain_partitions, drop_expired_partitions and rollup_hour            *)
(* (db/migrations), beside the reports that go on arriving.                *)
(*                                                                         *)
(* One clock tick is a minute bucket.  raw[b] is the row that a resource   *)
(* (or the node itself) has in the detail table for minute b, None for no  *)
(* row: a retry of the minute may drop the row.  The aggregate of an hour  *)
(* is identified with the rows that went into it, so hourly[b] is what the *)
(* hourly row of b's hour knows of minute b; an hour whose minutes are all *)
(* None has no hourly row.  Days and months are whole numbers of hours.    *)
(***************************************************************************)
EXTENDS Integers

CONSTANTS
    Value,         \* what a report says of the resource
    Handler,       \* report requests in flight
    None,          \* no row
    Hour,          \* ticks in an hour
    Day,           \* ticks in a day
    Month,         \* ticks in a month
    Window,        \* maintenance.go: 25 hours are rolled up
    RawKeep,       \* drop_expired_partitions: 90 days
    HourlyKeep,    \* drop_expired_partitions: 24 months
    AheadDays,     \* maintain_partitions: 7 days
    MaxAhead,      \* validate.go: 5 minutes
    MaxLate,       \* validate.go: 24 hours
    ReqTimeout,    \* http.go: 25 seconds
    CycleTimeout,  \* maintenance.go: 20 minutes
    MaxTime,       \* bound: the clock
    MaxReports     \* bound: reports that arrive

Bucket == 0 .. MaxTime + MaxAhead
Row == Value \cup {None}
Hours == {b \div Hour : b \in Bucket}
Report == [bucket : Bucket, row : Row, since : Nat, upkept : BOOLEAN]
Task == [pc : {"stopped", "wait", "partitions", "hour", "upsert", "delete"}, began : Nat,
         due : Nat \cup {None}, cur : Int, offset : 0 .. Window, upsert : [Bucket -> Row]]

ASSUME NoneAssumption == None \notin Value \cup Nat \cup Report
ASSUME CalendarAssumption ==
    /\ Hour \in Nat \ {0} /\ Day \in Nat \ {0} /\ Month \in Nat \ {0}
    /\ Day % Hour = 0 /\ Month % Day = 0
ASSUME BoundAssumption ==
    /\ Window \in Nat \ {0} /\ RawKeep \in Nat /\ HourlyKeep \in Nat /\ AheadDays \in Nat \ {0}
    /\ MaxAhead \in Nat /\ MaxLate \in Nat /\ ReqTimeout \in Nat
    /\ MaxTime \in Nat /\ MaxReports \in Nat
    /\ CycleTimeout \in 0 .. Hour - 1
    /\ MaxLate <= Day /\ MaxAhead <= Day /\ ReqTimeout <= Day
\* Hours are rolled up for a shorter time than raw rows are kept, and those for a
\* shorter time than hourly rows.
ASSUME RetentionAssumption ==
    /\ RawKeep >= 2
    /\ Window * Hour <= RawKeep * Day
    /\ RawKeep * Day <= HourlyKeep * Month

VARIABLES
    now,        \* the clock; it starts at MaxLate, so every bucket is a natural
    raw,        \* the rows of *_metric_samples, by minute
    hourly,     \* what *_metric_hourly has aggregated, by minute
    rawParts,   \* days with partitions of *_metric_samples
    hourParts,  \* months with partitions of *_metric_hourly
    req,        \* report requests that passed validation
    sent,       \* how many reports have arrived
    task,       \* the goroutine of RunMaintenance
    disrupted,  \* history: a cycle has failed or the service has stopped
    maintained, \* history: when maintain_partitions last succeeded
    readBy      \* history: when a loop that reads the hour begins at the latest, None if
                \* nothing was written or the hour may not be in the window by then

vars == <<now, raw, hourly, rawParts, hourParts, req, sent, task, disrupted, maintained,
          readBy>>
tables == <<raw, hourly, rawParts, hourParts>>

HourOf(b) == b \div Hour
DayOf(b) == b \div Day
MonthOf(b) == b \div Month

NoRows == [b \in Bucket |-> None]

\* The goroutine at the start of the process.  due is the next tick of the
\* ticker, None until the ticker exists; cur and offset are the loop of
\* runMaintenanceCycle; upsert is what the INSERT of rollup_hour selected.
FirstCycle(t) == [pc |-> "partitions", began |-> t, due |-> None, cur |-> 0, offset |-> 0,
                  upsert |-> NoRows]
Idle(pc, due) == [pc |-> pc, began |-> 0, due |-> due, cur |-> 0, offset |-> 0,
                  upsert |-> NoRows]
Stopped == Idle("stopped", None)

\* Mutant: yesterday's partition is not created.
EnsuredDays_FromToday(t) == DayOf(t) .. (DayOf(t) + AheadDays)

EnsuredDays(t) == (DayOf(t) - 1) .. (DayOf(t) + AheadDays)
EnsuredMonths(t) == (MonthOf(t) - 1) .. (MonthOf(t) + 2)

\* The migrations end by running maintain_partitions; the service then starts.
Init ==
    /\ now = MaxLate
    /\ raw = NoRows
    /\ hourly = NoRows
    /\ rawParts = EnsuredDays(now)
    /\ hourParts = EnsuredMonths(now)
    /\ req = [h \in Handler |-> None]
    /\ sent = 0
    /\ task = FirstCycle(now)
    /\ disrupted = FALSE
    /\ maintained = now
    /\ readBy = [hr \in Hours |-> None]

-----------------------------------------------------------------------------
(***************************************************************************)
(* Reports: validated at one time, committed up to ReqTimeout later.       *)
(***************************************************************************)

\* A report of minute b passes the age check of Report.Validate.  upkept is a
\* history variable: maintenance had succeeded in the last days.
ReceiveReport(h, b, x) ==
    /\ task.pc # "stopped"
    /\ req[h] = None
    /\ sent < MaxReports
    /\ b <= now + MaxAhead
    /\ b >= now - MaxLate
    /\ req' = [req EXCEPT ![h] = [bucket |-> b, row |-> x, since |-> now,
                                  upkept |-> DayOf(now) < DayOf(maintained) + AheadDays]]
    /\ sent' = sent + 1
    /\ UNCHANGED <<now, tables, task, disrupted, maintained, readBy>>

\* When a loop that reads hour hr begins at the latest, if the hour changes at time t
\* or waits at time t for another cycle, and no cycle fails from then on: once the
\* hour is over, an hour passes between two ticks and each of two cycles takes its
\* time.
NextRead(hr, t) ==
    LET over == (hr + 1) * Hour
    IN  (IF t > over THEN t ELSE over) + Hour + 2 * CycleTimeout

\* That time, if the hour is then still within the window.
ReadLimit(hr, t) == IF HourOf(NextRead(hr, t)) <= hr + Window THEN NextRead(hr, t) ELSE None

\* Hours that were still to be read when a cycle fails, or while the service is
\* down, wait for another loop.
Postponed(t) ==
    [hr \in Hours |-> IF readBy[hr] # None /\ now <= readBy[hr] THEN ReadLimit(hr, t) ELSE readBy[hr]]

\* Its transaction replaces the rows of the minute.  Without a partition for
\* the minute the INSERT fails.
CommitReport(h) ==
    /\ req[h] # None
    /\ now <= req[h].since + ReqTimeout
    /\ DayOf(req[h].bucket) \in rawParts
    /\ raw' = [raw EXCEPT ![req[h].bucket] = req[h].row]
    /\ req' = [req EXCEPT ![h] = None]
    /\ readBy' = [readBy EXCEPT ![HourOf(req[h].bucket)] = ReadLimit(HourOf(req[h].bucket), now)]
    /\ UNCHANGED <<now, hourly, rawParts, hourParts, sent, task, disrupted, maintained>>

FailReport(h) ==
    /\ req[h] # None
    /\ req' = [req EXCEPT ![h] = None]
    /\ UNCHANGED <<now, tables, sent, task, disrupted, maintained, readBy>>

-----------------------------------------------------------------------------
(***************************************************************************)
(* The maintenance cycle.                                                  *)
(***************************************************************************)

Running == task.pc \in {"partitions", "hour", "upsert", "delete"}

\* The ticker fires.
BeginCycle ==
    /\ task.pc = "wait"
    /\ now >= task.due
    /\ task' = [task EXCEPT !.pc = "partitions", !.began = now, !.due = @ + Hour]
    /\ UNCHANGED <<now, tables, req, sent, disrupted, maintained, readBy>>

\* Mutant: only today is kept.
RawCutoff_Today(t) == DayOf(t)

\* Days before the cutoff lose their raw partitions.
RawCutoff(t) == DayOf(t) - RawKeep
HourlyCutoff(t) == MonthOf(t) - HourlyKeep

\* maintain_partitions: create partitions, then detach and drop the expired ones.
MaintainPartitions ==
    /\ task.pc = "partitions"
    /\ rawParts' = {d \in rawParts \cup EnsuredDays(now) : d >= RawCutoff(now)}
    /\ hourParts' = {m \in hourParts \cup EnsuredMonths(now) : m >= HourlyCutoff(now)}
    /\ raw' = [b \in Bucket |-> IF DayOf(b) < RawCutoff(now) THEN None ELSE raw[b]]
    /\ hourly' = [b \in Bucket |-> IF MonthOf(b) < HourlyCutoff(now) THEN None ELSE hourly[b]]
    /\ task' = [task EXCEPT !.pc = "hour"]
    /\ maintained' = now
    /\ UNCHANGED <<now, req, sent, disrupted, readBy>>

\* time.Now().UTC().Truncate(time.Hour)
CurrentHour(t) == HourOf(t)

StartRollup ==
    /\ task.pc = "hour"
    /\ task' = [task EXCEPT !.pc = "upsert", !.cur = CurrentHour(now), !.offset = 1]
    /\ UNCHANGED <<now, tables, req, sent, disrupted, maintained, readBy>>

\* The hour that the loop is at.
LoopHour == task.cur - task.offset
OfHour(b, hr) == HourOf(b) = hr

\* rollup_hour: the hour's partition, then INSERT ... SELECT ... ON CONFLICT DO
\* UPDATE, whose statement snapshot is taken here.
RollupUpsert ==
    /\ task.pc = "upsert"
    /\ task' = [task EXCEPT !.pc = "delete",
                    !.upsert = [b \in Bucket |-> IF OfHour(b, LoopHour) THEN raw[b] ELSE None]]
    /\ UNCHANGED <<now, tables, req, sent, disrupted, maintained, readBy>>

\* Where the loop goes after an hour, and what the ticker is when it ends.
NextDue == IF task.due = None THEN now + Hour ELSE task.due

\* Mutant: the loop runs one hour too far.
AfterHour_OneMore ==
    IF task.offset <= Window
    THEN [task EXCEPT !.pc = "upsert", !.offset = @ + 1, !.upsert = NoRows]
    ELSE Idle("wait", NextDue)

AfterHour ==
    IF task.offset < Window
    THEN [task EXCEPT !.pc = "upsert", !.offset = @ + 1, !.upsert = NoRows]
    ELSE Idle("wait", NextDue)

\* Mutant: hourly rows whose samples are gone are left in place.
RolledUp_NoDelete(hr) ==
    IF \E b \in Bucket : OfHour(b, hr) /\ task.upsert[b] # None
    THEN [b \in Bucket |-> IF OfHour(b, hr) THEN task.upsert[b] ELSE hourly[b]]
    ELSE hourly

\* rollup_hour: DELETE of the hourly row if the hour has no samples now, with a
\* later snapshot than the INSERT's.  An upsert that selected nothing left the
\* old row alone.
RolledUp(hr) ==
    IF \A b \in Bucket : OfHour(b, hr) => raw[b] = None
    THEN [b \in Bucket |-> IF OfHour(b, hr) THEN None ELSE hourly[b]]
    ELSE IF \E b \in Bucket : OfHour(b, hr) /\ task.upsert[b] # None
    THEN [b \in Bucket |-> IF OfHour(b, hr) THEN task.upsert[b] ELSE hourly[b]]
    ELSE hourly

RollupCommit ==
    /\ task.pc = "delete"
    /\ hourly' = RolledUp(LoopHour)
    /\ hourParts' = hourParts \cup {MonthOf(LoopHour * Hour)}
    /\ task' = AfterHour
    /\ UNCHANGED <<now, raw, rawParts, req, sent, disrupted, maintained, readBy>>

\* An error or the 20 minute deadline: the cycle returns, later offsets are
\* not reached.
FailCycle ==
    /\ Running
    /\ task' = Idle("wait", NextDue)
    /\ disrupted' = TRUE
    /\ readBy' = Postponed(now)
    /\ UNCHANGED <<now, tables, req, sent, maintained>>

\* The process ends, and with it every request; it comes back some time later.
Stop ==
    /\ task.pc # "stopped"
    /\ task' = Stopped
    /\ req' = [h \in Handler |-> None]
    /\ disrupted' = TRUE
    /\ readBy' = Postponed(now)
    /\ UNCHANGED <<now, tables, sent, maintained>>

Start ==
    /\ task.pc = "stopped"
    /\ task' = FirstCycle(now)
    /\ UNCHANGED <<now, tables, req, sent, disrupted, maintained, readBy>>

\* Time passes, but the goroutine is scheduled within a tick of the ticker, and
\* their contexts end a cycle and a request at the deadline.
Tick ==
    /\ now < MaxTime
    /\ \A h \in Handler : req[h] # None => now < req[h].since + ReqTimeout
    /\ task.pc = "wait" => now < task.due
    /\ Running => now < task.began + CycleTimeout
    /\ now' = now + 1
    /\ readBy' = IF task.pc = "stopped" THEN Postponed(now + 1) ELSE readBy
    /\ UNCHANGED <<tables, req, sent, task, disrupted, maintained>>

Next ==
    \/ \E h \in Handler, b \in Bucket, x \in Value \cup {None} : ReceiveReport(h, b, x)
    \/ \E h \in Handler : CommitReport(h)
    \/ \E h \in Handler : FailReport(h)
    \/ BeginCycle
    \/ MaintainPartitions
    \/ StartRollup
    \/ RollupUpsert
    \/ RollupCommit
    \/ FailCycle
    \/ Stop
    \/ Start
    \/ Tick

Spec == Init /\ [][Next]_vars

-----------------------------------------------------------------------------
(***************************************************************************)
(* Properties.                                                             *)
(***************************************************************************)

\* The tables, the requests and the goroutine hold values of their types, and a
\* row exists only where its partition does.
TypeOK ==
    /\ now \in Nat
    /\ raw \in [Bucket -> Row] /\ hourly \in [Bucket -> Row]
    /\ rawParts \subseteq Int /\ hourParts \subseteq Int
    /\ req \in [Handler -> Report \cup {None}]
    /\ sent \in 0 .. MaxReports
    /\ task \in Task
    /\ disrupted \in BOOLEAN
    /\ maintained \in Nat
    /\ readBy \in [Hours -> Nat \cup {None}]
    /\ \A b \in Bucket : raw[b] # None => DayOf(b) \in rawParts
    /\ \A b \in Bucket : hourly[b] # None => MonthOf(b) \in hourParts

\* No cycle, running or to come, will roll up the hour of minute b again.
OutOfReach(b) ==
    /\ HourOf(b) < HourOf(now) - Window
    /\ task.pc \in {"upsert", "delete"} => HourOf(b) < task.cur - Window

\* The past 25 hours are aggregated again for late reports.  When no cycle will
\* visit an hour any more, its aggregate has every row of the hour, as last written,
\* if an hour and two cycle timeouts after that write, or after the last failed
\* cycle or downtime that the hour still had to wait for, the hour is in the window.
\* With the code's 25 hours, 20 minutes and 1 hour: whatever is committed within
\* 24 h 20 min of the start of its hour, in spite of failures before.
TimelyReportsCovered ==
    \A b \in Bucket :
        OutOfReach(b) /\ DayOf(b) \in rawParts /\ readBy[HourOf(b)] # None => hourly[b] = raw[b]

\* README.md, implementation notes: the past 25 hours are aggregated again, to
\* cover the late reports that are allowed.  So when no cycle will visit an hour
\* any more, its aggregate has every row of the hour, as last written, at least
\* while no cycle fails and the service stays up.
LateReportsCovered ==
    ~disrupted => \A b \in Bucket :
        OutOfReach(b) /\ DayOf(b) \in rawParts => hourly[b] = raw[b]

\* Retention of raw rows never takes the aggregate with it: once an hour's day
\* is dropped, rollup_hour no longer visits the hour to find it empty.
AggregateOutlivesRaw ==
    [][\A b \in Bucket :
        DayOf(b) \notin rawParts /\ MonthOf(b) \in hourParts' => hourly'[b] = hourly[b]]_vars

\* A report that passed the age check has its partition until it is done, if
\* maintenance had succeeded in the AheadDays days before it came: neither a day
\* not yet created nor one dropped meanwhile can refuse it.  After a longer outage
\* reports are refused until the first cycle has run maintain_partitions, and no
\* longer: from then on those that came that day have theirs too.
PartitionReady ==
    \A h \in Handler :
        req[h] # None /\ (req[h].upkept \/ DayOf(maintained) = DayOf(req[h].since))
            => DayOf(req[h].bucket) \in rawParts

-----------------------------------------------------------------------------
(***************************************************************************)
(* Why the invariants hold: the parts of inductive invariants.             *)
(***************************************************************************)

\* A request commits within ReqTimeout of the age check it passed.
RequestsTimely ==
    \A h \in Handler : req[h] # None =>
        /\ MaxLate <= req[h].since /\ req[h].since <= now
        /\ now <= req[h].since + ReqTimeout
        /\ req[h].since - MaxLate <= req[h].bucket /\ req[h].bucket <= req[h].since + MaxAhead

\* A cycle ends before the next tick of the ticker, which is an hour after the one
\* that began it, or after the first cycle.
TaskTimely ==
    /\ MaxLate <= now /\ maintained <= now
    /\ Running => task.began <= now /\ now <= task.began + CycleTimeout
    /\ Running /\ task.due # None => task.due = task.began + Hour
    /\ task.pc = "wait" => task.due # None /\ now <= task.due /\ task.due <= now + Hour
    /\ task.pc = "stopped" => \A h \in Handler : req[h] = None

\* The loop of a cycle is within Window hours of the last success of
\* maintain_partitions.
LoopInWindow ==
    task.pc \in {"upsert", "delete"} =>
        /\ task.offset \in 1 .. Window
        /\ HourOf(maintained) <= task.cur /\ task.cur <= HourOf(now)

\* The partitions that the last maintain_partitions ensured are there.
PartsEnsured == EnsuredDays(maintained) \subseteq rawParts

\* What is aggregated, or about to be, comes from a day that has its partition or
\* lost it to retention.
AggregatesOwned ==
    \A b \in Bucket :
        /\ hourly[b] # None => DayOf(b) \in rawParts \/ DayOf(b) < RawCutoff(maintained)
        /\ task.pc = "delete" /\ task.upsert[b] # None => DayOf(b) \in rawParts

IInv ==
    /\ TypeOK /\ RequestsTimely /\ TaskTimely /\ LoopInWindow
    /\ PartsEnsured /\ AggregatesOwned /\ PartitionReady

\* The aggregate of minute b is not its row, or will not be when rollup_hour commits.
Behind(b) ==
    \/ hourly[b] # raw[b]
    \/ task.pc = "delete" /\ OfHour(b, LoopHour) /\ task.upsert[b] # raw[b]

\* The loop under way has yet to read hour hr, or has read all of it as it is.
ToVisit(hr) ==
    /\ task.pc \in {"upsert", "delete"}
    /\ task.cur - Window <= hr /\ hr <= LoopHour
    /\ task.pc = "delete" /\ hr = LoopHour =>
            \A b \in Bucket : OfHour(b, hr) => task.upsert[b] = raw[b]

\* The latest time at which the next loop begins when the goroutine is in state k.
NextLoop(k) ==
    CASE k.pc \in {"partitions", "hour"} -> k.began + CycleTimeout
      [] k.pc \in {"upsert", "delete"} ->
            (IF k.due = None THEN k.began + CycleTimeout + Hour ELSE k.due) + CycleTimeout
      [] OTHER -> k.due + CycleTimeout

\* The limit of an hour is in the window, and leaves a loop the time to come after
\* the hour.
LimitsInWindow ==
    \A hr \in Hours : readBy[hr] # None =>
        HourOf(readBy[hr]) <= hr + Window /\ NextRead(hr, 0) <= readBy[hr]

\* Hour hr will be read by its limit: by this loop, by the next one, or by the first
\* one of the process to come.
ReadInTime(hr) ==
    \/ ToVisit(hr) /\ task.began + CycleTimeout <= readBy[hr]
    \/ task.pc # "stopped" /\ NextLoop(task) <= readBy[hr]
    \/ task.pc = "stopped" /\ NextRead(hr, now) <= readBy[hr]

\* Every minute that is behind, in an hour that has a limit, will be read.
RollupPending ==
    \A b \in Bucket :
        DayOf(b) \in rawParts /\ Behind(b) /\ readBy[HourOf(b)] # None => ReadInTime(HourOf(b))
============================================================================
