# server-status: a TLA+ verification project

server-status monitors a fleet of machines.  An agent on each machine collects its inventory
and metrics every minute and posts a report to a central service; the service authenticates the
node, validates the report and writes it to PostgreSQL in one transaction; a background task
keeps the partitions of the tables and the hourly aggregates; a dashboard reads the result.
This directory holds TLA+ models of the parts of that system that carry its logic, the TLC runs
that check them on small instances and TLAPS proofs for all instances.

## Inventory

| Component | State | Operations | Interacts with | What is hard | What makes it correct |
|---|---|---|---|---|---|
| Report handler and ingest (`server/http.go`, `store/ingest.go`, triggers) | nodes, inventory tables, samples, details, current rows, temperature and SMART snapshots | `report`, `Validate`, `Ingest` | agents (HTTP), registration (row lock, tokens), maintenance (partitions) | concurrent requests, retries, late and reordered reports, stamps taken before the lock, aborts | minute and details agree, current rows are the newest, fingerprint describes the inventory, snapshots are whole and do not rewind |
| Registration (`store/store.go`) | `node_api_tokens`, `nodes.disabled_at` | `RegisterNode`, `AuthenticateToken` | ingest | overlapping registrations, tokens checked before they are used | one live token per node, a revoked token lapses |
| Maintenance (`server/maintenance.go`, SQL functions) | partitions, hourly tables, a ticker | `maintain_partitions`, `rollup_hour` | ingest | failures in a cycle, outages, late reports at the edge of the window | rows committed in time reach their aggregate, aggregates outlive raw rows, accepted reports have a partition |
| History cache (`server/history_cache.go`) | map of responses, singleflight group | `get`, `store` | queries | shared loads, cancellation, expiry, the size limit | bounded, fresh, no double load, every load ends |
| Release cache (`server/release_cache.go`) | files on disk, a mutex | `serve`, `assetPath`, `ensureFile` | upstream, agents, installers | files change after the mutex is released, checksums and assets of `latest` | what is served was verified |
| Agent loop and delivery (`agent/run.go`, `client.go`; `windows-agent/run.go`, `client.go`) | a timer, a payload, an attempt | `Run`, `Send` | collector, report handler | timeouts that race late answers, duplicates, restarts | what is stored happened, the loop goes on |
| Agent update (`agent/updater.go`, `cmd/agent/main.go`) | the executable, a process lock | `Apply`, exec | report receipt, release cache, cron | several processes, crash between rename and exec, deployments meanwhile | only verified, newer binaries are installed; in the end the newest runs |
| Collectors (`agent/collector.go`, `windows-agent/collector_windows.go`) | previous counters, last collection | `Collect` | delivery | resets, wraps, devices that vanish between two reads, failures half way | no traffic is made up or counted twice |
| Hardware health (`agent/health.go`, `windows-agent/health.go`) | none | scan, merge, classify | collector, validation | one disk seen in several ways | one key per disk, so that reports are accepted |
| Version order (`version/version.go`) | none | `Compare` | receipt, updater | prerelease ordering | a total order on valid versions |
| Queries, tags, preferences (`store/query.go`, views) | the primary interface, tags | `ListNodes`, `GetNode`, `SetPrimaryNetworkInterface`, `UpdateNodeTags` | ingest, dashboard, export | reads torn over several statements, choices that outlive what they name | what is shown is not older than it claims |
| Dashboard, export sheet, installers, macOS agent | - | - | - | presentation, or ports of the above | - |

`PROJECT.json` lists the hazards, each at its line, with the properties that watch it.

## Modules

### ReportStore
The store as seen by report and registration requests.  One action per step that other requests
can interleave with:

| Action | Code |
|---|---|
| `ReceiveReport` | bearer token, context, `AuthenticateToken` |
| `RejectReport` | 403 and 422 |
| `StartIngest` | validation succeeded; `Ingest` takes `receivedAt` before `BEGIN` |
| `LockNode` | `SELECT inventory_fingerprint ... FOR UPDATE` |
| `CommitIngest` | everything from the update of `nodes` to the commit, triggers included: while the row lock is held no other writer touches these rows, so it is one step |
| `AbortIngest`, `Restart` | any error, the deadline, the client going away; the process ending |
| `BeginRegister`, `CommitRegister`, `AbortRegister` | `RegisterNode`: its `CURRENT_TIMESTAMP` is fixed at `BEGIN` |
| `DisableNode` | SQL of an operator (no code sets `disabled_at`) |

The seven inventory tables have one life cycle and are one table indexed by `Key`; the three
detail tables likewise.  `gen` stands for a row's id, so a device that leaves and returns has two
rows.  A metric value is the payload it came from, which is what "of the same report" means in the
properties.  A fingerprint is the inventory itself: SHA-256 over the normalized inventory is taken
to be injective.  The clocks of the service and of the database are one clock.

### Maintenance
The goroutine of `RunMaintenance` (first cycle at once, then a ticker created when it ended), its
20 minute deadline, `maintain_partitions`, and `rollup_hour` as two steps, because its INSERT and
its DELETE see different snapshots.  A tick is a minute bucket; `raw[b]` is one resource's row for
minute `b`, `hourly[b]` what the aggregate of its hour knows of that minute.  Reports pass the age
check at one time and commit up to a request timeout later.  `disrupted`, `maintained`, `upkept` and
`readBy` are history variables; `readBy` is the time by which a loop that reads an hour must have
begun, counted from the last commit to the hour and again from each failed cycle and each downtime
that the hour still had to wait for, if the hour is in the window by then.

### HistoryCache
`get`, `cached` and `store`, with one flight per key.  Requests look up, miss, join or start a
flight, are answered or give up.  A response is the time its query read the database, an answer the
age of its response.  A load may hang until its deadline; encoding and storing come after it and are
not bound by it.
`singleflight` is external and modelled by how the code uses it.

### ReleaseCache
`serve` is `Arrive` (with the bundled files, which need no mutex) and `Open`; `assetPath` lies between
`Lock` and `Verify`, `GiveUp` or a 502; `ensureFile` is `UseCached`, `StartDownload`,
`FinishDownload` (the rename) and `FailDownload`, for the checksums and then for the asset; `Retry`
begins the second round.  A file is the release it belongs to or garbage, so a digest matches when
the releases are equal.  Upstream is external: it publishes, fails, answers 404 or sends garbage.
Local file operations succeed, except that the file to open may be gone.  `published`, `checked`
and `stale` are history variables.

### MinuteLedger and StoreLedger
What the service promises about accepted reports, in one action: the entry of the report's minute,
the report that is shown (that of the newest minute) and the inventory change together.
`StoreLedger` maps the tables of ReportStore to it (entry: main row with the keys of its detail
rows; shown: the current row; inventory: the active rows) and states that ReportStore implements
it.  This is the interface by which Agent uses the store.

### NodeQueries
Adds to ReportStore the chosen primary interface and the GET requests.  `GetNode` is one action per
statement: the summary, then the lists, of which the first and the last that show current rows are
kept; an export does this for one node after the other.  A list joins active inventory rows with
current rows by row id, as the views do.  `Status` is `v_node_status` with `normalizeNodeSummary`.

### HardwareHealth
Operators: devices of sysfs, samples of smartctl, `MatchBlockDevice`, `MergeSMARTSamples`, and what
validation requires of the result.  Identities are serial number, WWN, and name with type; readings,
vendor and model are left out.

### Collector
The host (traffic, resets, devices that disappear and return with their counters or without) and one
`Collect`, step by step: disks, the list of interfaces, the counters, with the failure exits between
them.  Linux and Windows differ in the
width of counters, in when the time is taken, in what is remembered of an interface without counters
and in what can fail; `platform` is chosen by the initial state.  One counter stands for each
interface and each disk.  `phantom` is a history variable: what a reset on Windows, or an interface
that vanishes during a collection on Linux, may add to the traffic there was.

### Agent
Composes Collector with the delivery and the abstract store: `Run` is `Collect` and `Deliver`;
`sendOnce` is `StartAttempt` and then `AttemptFails` or `AnswerArrives`; the service answers
(`Accept`, `Reject`, `FailRequest`) or commits an attempt the client has given up (`CommitLate`).  A
late commit may come at any later time, which allows more than the service's limit of 25 seconds.
A committed report becomes the entry of its minute, as in `MinuteLedger!Accept`.

### VersionOrder and AgentUpdate
`VersionOrder` is `Compare` on parsed versions.  `AgentUpdate` has any number of processes on a host,
started by cron whether or not an agent runs: `AcquireLock` or `LockHeld`, `Receipt` (the service's
offer and `Apply`'s own comparison), `GetChecksums`, `Download`, `Verify` or `Refuse`, `Replace` (the
rename), `ReleaseLock` and `Exec`; `Fail` for the error returns, `Crash` anywhere, `Deploy` of another
service version, older ones too.  A file is the version it prints and whether it is the published
one, so a digest matches when both agree.

## Runs

| Run | Module / cfg | Shows |
|---|---|---|
| `store` | MCReportStore, `MCReportStore.cfg` | eleven properties of the tables under two concurrent reports; the tables implement MinuteLedger |
| `registration` | MCReportStore, `MCRegistration.cfg` | tokens under two concurrent registrations and a report |
| `queries` | MCNodeQueries, `MCNodeQueries.cfg` | status, torn reads and the primary interface beside reports and registrations |
| `stale_snapshot` | MCReportStore, `MCStaleSnapshot.cfg` | violation: see Findings |
| `maintenance` | Maintenance, `MCMaintenance.cfg` | rows committed in time reach their aggregate, in spite of failures before; partitions and retention over days and months, with failures and outages |
| `late_rollup` | Maintenance, `MCLateRollup.cfg` | violation: see Findings |
| `history_cache` | HistoryCache, `MCHistoryCache.cfg` | safety of the cache; every flight ends, though the database may never answer |
| `release_numbered` | MCReleaseCache, `MCReleaseNumbered.cfg` | numbered versions are served exactly; every request is answered |
| `release_latest` | MCReleaseCache, `MCReleaseLatest.cfg` | checksums stay in place until used; how old `latest` can be |
| `release_race` | MCReleaseCache, `MCReleaseRace.cfg` | violation: see Findings |
| `agent` | MCAgent, `MCAgent.cfg` | no traffic is made up beyond what resets on Windows and returning interfaces add, every report is valid, the loop goes on, on Linux and on Windows |
| `update` | MCAgentUpdate, `MCAgentUpdate.cfg` | no downgrade, and the newest agent runs in the end |

Bounds.  `store`: two requests are enough for every pairwise race on one node's row; rows of
different nodes are only related through tokens, which `registration` covers with two nodes.  The
payloads are a first minute, a retry of it with other content, a later minute in which a device
and all sensors are gone, and one with a wrong fingerprint; two observation periods per key
(`MaxGen`) let a device leave and come back.  Times are scaled: `ReqTimeout`, `RegTimeout`,
`MaxAhead` and `MaxLate` of one to three ticks, a minute of two.  `queries`: one reader against one
request, as each statement sees one committed state; three minutes, so that a device can leave and
return around a read.  `maintenance`: an hour of two ticks, days and months of two hours, and a clock
that runs from four to twelve, so that several of each pass; `CycleTimeout` and `ReqTimeout` of one tick each; both `maintenance`
and `late_rollup` have `MaxLate = (Window - 1) * Hour` as the code has 24 = 25 - 1, so that there are
reports in time and reports that come too late for their hour.
`history_cache`: two keys for one entry, requests until time two, a time to live of two, a load and an
encoding of one; the clock then goes on until every load is due.  `release_*`: two requests (one to verify, one to replace
the file), one binary and its checksums, two releases so that `latest` moves, an expiry of two ticks
and downloads of up to one in four ticks of time.  Versions share nothing but the mutex, so
numbered versions and `latest` have runs of their own.
`agent`: one interface and two disks, one of which sysfs knows only by its name, with every scan of
up to three smartctl samples (direct, through a controller, by WWN only, failed) and every list of up
to three mounts; a minute of two ticks and a time of three, so that reports share a minute or follow
each other; two units of traffic, so that a counter can be read, move and be read again, and a counter of
two values on Windows, so that it wraps; two attempts, one of which may be late while the next report
is under way; one restart; devices come, go and are reset until one unit of `phantom` has appeared
(`MaxPhantom`), on either platform.  `update`: two
processes, one of which holds the lock; three releases, so that a rollback and an update meet; three
deployments and two crashes.  `MCAgentUpdate` also evaluates `Compare` on all pairs of nine versions
listed in their intended order.

When a row is in time: once its hour is over, a loop that reads it begins at most one `Hour` between two
ticks and two `CycleTimeout`s later (`NextRead`): the cycle under way may have read the hour already or be the
first of its process, after which the ticker starts, and the next may need its whole time for
`maintain_partitions`.  If the hour is still in the window then, the row reaches its aggregate
(`TimelyReportsCovered`), and a failed cycle or a downtime begins the count anew.  For the code's window
of 25 hours and 20 minutes a cycle, that is every row committed within 24 hours and 20 minutes of the start
of its hour.  The code accepts reports until 24 hours after their minute, that is until 25 hours after the
start of the hour; for the difference the promise of `README.md` is not kept (`late_rollup`).

After an outage longer than the partitions created ahead, reports are refused until the first cycle has run
`maintain_partitions`; `PartitionReady` says that the refusals end there, also for a request that came in
before it.

Fairness.  ReleaseCache assumes that a request's own steps are taken (a download ends within the
client's timeout of 3 minutes) and, as strong fairness of `Lock`, that `sync.Mutex` does not starve a
waiter, which its starvation mode guarantees.  HistoryCache assumes that time passes, that the
goroutine of a flight is scheduled, that the context ends a load at its deadline and that encoding ends (within
`EncodeTime`); nothing is assumed of the database, which may never answer.  Agent assumes that a collection and a delivery go on: every
command and every request has a time limit; system calls without one, such as `statfs`, are taken to return.  AgentUpdate assumes that processes run and cron keeps
starting them, and that checksums, download and rename succeed again and again if they are tried
again and again (strong fairness: the network recovers).  Nothing is assumed of arrivals,
cancellation, the service's answers, deployments or crashes; the latter two are bounded.
ReportStore, NodeQueries and Maintenance are checked for safety; in Maintenance the clock does not run past a
deadline or a tick of the ticker (the goroutine is scheduled within a bucket).

## Findings

1. `stale_snapshot`.  `docs/database-design.md` says an older report out of order never replaces
   the temperature or SMART snapshot.  The freshness query looks at the rows in the table; a newer
   report without sensors deletes them all, and then nothing remembers its minute, so the older
   report's readings are installed.  What does hold, and is proved: a snapshot that is not empty is
   never replaced by an older one (`SnapshotNeverRewinds`).
2. `late_rollup`.  `README.md` says that 25 hours are aggregated again to cover the late reports
   that are allowed (24 hours).  A report at the limit that commits just after a cycle is out of
   the window when the next cycle computes it, so its hourly row never includes it.  What does hold, and
   is proved: a row committed within 24 hours and 20 minutes of the start of its hour is included
   (`TimelyReportsCovered`).
3. `release_race`.  `README.md` says that the release interface returns assets the centre has
   verified.  The file is verified under the mutex but opened after its release, and a download is
   renamed into place before it is verified: for `latest`, a request that finds the file expired
   can replace it in between, and an unverified file is sent.  Numbered versions, which never
   expire, are not affected, and installers verify again.

Four more observations, which the properties of the passing runs allow for in what they state:

- `README.md` (and `docs/deployment.md`) say that an update never downgrades.  A process that cron
  started from the old file gets the lock if it asks between the updated process's `lock.Close` and
  its next `AcquireLock`; it reports its own, old version, and if the service was rolled back
  in between to a release newer than that, it installs a file that is older than the installed one.
  `NeverDowngraded` therefore excepts behaviours with a rollback; without one it holds, also for the
  process that got in between.
- `README.md` says that the delta is 0 when a counter is reset.  On Windows `counterDelta32` takes a
  smaller counter for one that wrapped, so that a reset adds what the wrap would have been.
  `TrafficConserved` allows one wrap for each such reset, and no more.
- On Linux an interface that vanishes between the list of interfaces and the read of the counters is
  remembered as zero.  If it returns with its counters (renamed, moved between namespaces) all of them
  are counted as new traffic.  `TrafficConserved` allows just that.
- The summary's network rate adds all `network_current_metrics` of a node; rows of interfaces that
  have left the inventory stay in that table, and so in the sum.

## Proofs

`ReportStoreProofs` and `ReportStoreMetricsProofs`, from the assumptions of ReportStore: payloads are
records of the right types (`PayloadAssumption`), `None` is not a value of the other sets (`NoneAssumption`), durations are naturals and a minute is not zero (`TimeAssumption`).  The sets
of nodes, keys, requests, tokens and payloads are arbitrary.

- `TypeCorrect`.  TypeOK is inductive; besides types it says that a busy request has a payload and
  an existing token.
- `FingerprintCorrect`, `LockedReadCorrect`, `KeysResolve`.  The fingerprint invariant is not
  inductive alone: the transaction decides from a value it read earlier.  The inductive invariant
  is its conjunction with `LockedReadIsCurrent` (the request at "locked" holds the lock and read
  what is stored, and its payload was validated).  That every metric key resolves follows.
- `CurrentCorrect`, `DetailsCorrect`, `ResourceCurrentCorrect`, `SnapshotsWhole`,
  `SnapshotsMonotone`.  Only `CommitIngest` writes metric tables; each invariant is preserved by
  that step, by cases on the node and the minute.
- `LastSeenBounded`, `PeriodsBounded`, `OneTokenLive`, `RevokedTokensLapse`.  The time bounds are not
  inductive alone.  Common to them is `Stamps`: a request's arrival, its receivedAt and the clock
  are in that order, so a transaction that commits within its deadline was stamped at most
  `ReqTimeout` ago (`CommitInTime`).  `SeenInv` adds that no sample is from the future; `PeriodInv`
  that closed rows are of the past and that `gens` bounds every row's number, so that a new row is
  the newest; `TokenInv` that a request in flight with a revoked token arrived before the
  revocation committed, at most `RegTimeout` after its stamp.  `OneLiveToken` needs only TypeOK.

- `StoreImplementsLedger`.  The initial tables map to the empty ledger; `CommitIngest` maps to
  `Accept` of its payload (`CommitEnters`, `CommitShows`, `CommitReplacesInventory`), and every other
  step leaves the mapped tables alone (`OnlyCommitWritesTables`).  It rests on the invariants above:
  that metric keys resolve, that the current row is the newest minute, and that an unchanged
  fingerprint means an unchanged inventory, which is why a commit that skips the inventory still
  enters the payload's own.  `NoEntryAssumption` says that `None` is not an entry.

`AgentUpdateProofs` first proves for all versions, prereleases of any length included, that `Older` is a
strict total order (`OlderTotal`, `OlderTransitive`).  `Compare` looks for the first difference;
`PrereleaseCases` and `CompareCases` turn that into a relation (`Before`, `Precedes`) with the
position as a witness, for which asymmetry, transitivity and totality are cases on two positions.

It then proves `UpdateTypeCorrect` and `InstalledNeverDowngraded` for any processes, any
set of releases (`ReleaseAssumption`: they are versions) and any bounds.  The inductive invariant is
`IInv`: the lock is held by the process that updates (`HoldsLock`); a target, the digest and a
verified file belong together (`UpdateSound`); the installed file is a published one
(`ExecutableGenuine`); and, while nothing was rolled back, a process either runs the installed
version or the service is at least as new as the installed file, so that a target is never older than
it (`TargetNotOlder`).  The last part is needed for the process that was started from the old file.

`NodeQueriesProofs` proves the three properties of NodeQueries.  `QSpec` implies `Spec` of ReportStore, so
its invariants are at hand (`StoreInv`).  `QIInv` adds what the properties need:

- `OnlineReported`: `last_seen_at` of a node that has reported is the arrival of a stored report
  (`SeenIsStored`); a registration sets it only for a node without a row.
- `DetailsNotOlder`: a resource has one current row (`OneCurrentRow`) whose minute never goes back
  (`ShownSince`, preserved by the triggers: `SyncedCurrent`), so what the summary saw measured is as new in
  every list that is queried later (`ReadersSound`).
- `ChoicesNotRevived`: a chosen row is one its key has had (`ChosenExisted`), and a key that returns gets
  a greater number.

`MaintenanceProofs` starts from facts about truncation (`DivAtLeast`, `DivShift`, `DivNested`): minutes of one
hour are in one day, and what is within the window is within the retention (`WindowKept`, `MonthKept`).
Its assumptions: a day is whole hours and a month whole days (the model's months are of one
length); a cycle is shorter than an hour (20 minutes); age limits and the request timeout are at most a day;
raw rows are kept two days at least and no shorter than the window, hourly rows no shorter than raw
ones (90 days, 25 hours, 24 months: `RetentionAssumption`).

- `MaintenanceTypeCorrect`, `PartitionsReady`.  `IInv` adds the times of requests and cycles
  (`RequestsTimely`, `TaskTimely`), that the days the last `maintain_partitions` ensured are there
  (`PartsEnsured`), and where aggregates may be (`AggregatesOwned`).  A report is at most a day from the
  day it came, and that at most a day from today, so no drop can reach it.
- `AggregatesOutliveRaw`.  The loop of a cycle stays within `Window` hours of the last success of
  `maintain_partitions` (`LoopInWindow`), hence in days that it kept; a dropped day is never rolled up.
- `TimelyReportsReachAggregates`.  The second inductive invariant is `RollupPending`: every minute whose aggregate is
  behind, or will be when `rollup_hour` commits what it has selected, and whose hour has a limit, will be read
  by that limit (`ReadInTime`): by the loop under way (`ToVisit`), by the next one (`NextLoop`), or by the first
  one after a downtime; and limits are in the window (`LimitsInWindow`).  One lemma per action; `RollupCommit` is
  the delicate one, where a row that changed between the two statements is left to the next loop.

`HistoryCacheProofs` proves every safety property of HistoryCache for any keys and requests, with a limit
and a time to live that are not zero.  The parts of `IInv`: a load ends within one deadline of the request
that started it and its encoding `EncodeTime` later (`FlightsTimely`), so an entry expires at most
`TTL + Deadline + EncodeTime` after its data was read (`EntriesTimely`); the map is finite (`CacheFinite`), without which its cardinality means nothing when
`Key` is infinite.

`ReleaseCacheProofs` proves every safety property of ReleaseCache that its passing runs check, for any
requests, assets and releases and a TTL that is not zero.  The parts of `IInv`: only the
holder of the mutex works on the directory and downloads (`RequestsSound`); checksums and opened files of
numbered versions are their own (`NumberedSums`, `NumberedRequests`), from `BundleAssumption` for the
versions in the image; a file cached as `latest` was the newest when its download began
(`LatestFiles`, `LatestDownloads`), and a file that replaces the verified one after the mutex is released
is younger than the look at the checksums (`LatestRequests`), which is why the bound holds in spite
of finding 3.

`AgentProofs` proves the two safety properties of Agent and its `TypeOK` for any devices, scans, mounts and
bounds (`CollectorAssumption`: the width of a counter is not zero, scans and mounts are lists;
`MinuteAssumption`).  Both properties are about data of any size, sums over the minutes and folds over lists.  No
theorem with an operator for a parameter is needed for that: what is proved by induction is made a set of
naturals (`Induction`, from a least counterexample) or of subsets (`SubsetInduction`), and a sum or a fold is the last
of its partial results (`SumsExist`, `TurnsExist`), so that it obeys the rules of a sum (`SumByParts`,
`SumRaised`) and has every property that each turn of the loop keeps (`TurnsLoop`).

- `NothingCountedTwice`.  `TrafficConserved` alone is not inductive: reports under way, late
  commits and counters not yet read all add to the tables later.  `TrafficShared` gives every minute a share of a
  device's traffic, within which is all that is stored, sent or may still be committed for that minute, however
  often; the shares, what a collection has found and what the next read will find add up to what is accounted
  for (`Accounted`): traffic there was, a wrap for each reset on Windows (`DeltaOfReset`) and what is owed to
  interfaces that read as zero (`Owed`).  A
  collection that finishes adds what it found to the share of its minute, so a second report of one minute needs no
  other share than the sum (`FinishShares`).
- `ReportsPassValidation`, under `DisksIdentified`.  That filesystem keys differ needs no assumption
  (`FilesystemsDiffer`).  That disk keys do needs one about the hardware (`Identified` in HardwareHealth): what
  sysfs and smartctl show comes from disks such that a serial number, a WWN and the name of a device not
  behind a controller belong to one disk, and a controller's own device is in sysfs.  Then a match is the
  same disk (`MatchIsSameDisk`) and no match means a new key (`NoMatchNewKey`), which each turn of
  `mergeSMARTSamples` keeps (`MergeKeeps`).  The scans of `MCAgent` all satisfy it for Linux, including the
  ones where a disk shows no identity at all.  For Windows, where the list starts empty, 119 of the 131 do;
  in the others the scan has both the controller's device and a different disk behind it, and no entry of sysfs
  keeps the two apart, so that the one may be taken for the other.  That these are valid too is only checked by TLC.

All inductive invariants were checked with TLC on the instances of the runs first (the shares bounded by
the traffic).  Thus every safety property of the passing runs is proved for all values of the constants,
`ReportsValid` under the hypothesis named.  Only model-checked is liveness (`EveryFlightEnds`,
`EveryRequestAnswered`, `KeepsCollecting`, `UpToDateInTheEnd`): fairness and ENABLED are outside the prover.

## Not modelled, and the plan

- Reading and formatting: CPU, memory modules (DMI), GPUs (nvidia-smi), addresses, hwmon
  temperatures, the parsing of smartctl's readings and their classification by risk.  They keep no
  state.  Disks are assumed to have different identities: two paths to one disk (multipath) or two
  equal DIMM locators would give equal keys, and such reports are refused.
- Validation of ranges and formats, and the sorting of the inventory before its fingerprint.
- History and hardware summary queries, tags, the dashboard, the spreadsheet: data shaping.
- Installers, the Windows service control and the deployment scripts: sequences of system calls run
  by an operator.  The macOS agent is a shell port of the loop; its update ends the process and lets
  `launchd` start the new script.
- The parsing of version texts, HTTP headers, gzip, configuration.

What is left for the plan: the findings apart, every safety property is proved.  Lemmas that several proof modules
keep for themselves (truncation, sums, folds) could be shared, and `Identified` could be weakened for a controller
whose device is not in sysfs.
