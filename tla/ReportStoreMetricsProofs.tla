---------------------- MODULE ReportStoreMetricsProofs ----------------------
(***************************************************************************)
(* Proofs about the metric tables of ReportStore: samples, details,        *)
(* current rows and the temperature and SMART snapshots, which only        *)
(* CommitIngest writes.  With them and the inventory, ReportStore          *)
(* implements MinuteLedger, for every value of the constants.              *)
(***************************************************************************)
EXTENDS StoreLedger, ReportStoreProofs

\* Every other step leaves the metric tables alone.
LEMMA OnlyCommitWritesMetrics ==
    ASSUME [Next]_vars
    PROVE  (\E h \in Handler : CommitIngest(h)) \/ UNCHANGED metricVars
BY DEF Next, vars, dbVars, metricVars, BeginRegister, CommitRegister, AbortRegister,
       DisableNode, ReceiveReport, RejectReport, StartIngest, LockNode, AbortIngest,
       Restart, Tick

\* What CommitIngest(h) writes to the metric tables, in terms of abbreviations
\* for the node, the minute and the rows.
LEMMA CommitWrites ==
    ASSUME TypeOK, NEW h \in Handler, CommitIngest(h)
    PROVE  LET p    == req[h].payload
               n    == p.agent
               b    == BucketAt(p)
               rows == ActiveRows(h)
               s    == [bucket |-> b, from |-> p, received |-> req[h].at]
               new  == DetailRows(rows, p)
           IN /\ n \in Node /\ b \in Bucket /\ p \in Payload
              /\ s \in Sample /\ s # None /\ new \in SUBSET DetailRow
              /\ samples'[n][b] = s
              /\ detail'[n][b] = new
              /\ \A x \in Bucket : x # b =>
                    samples'[n][x] = samples[n][x] /\ detail'[n][x] = detail[n][x]
              /\ current'[n] = SyncNodeCurrent(n, s)
              /\ resCurrent'[n] = SyncResCurrent(n, b, new)
              /\ temperature'[n] = ReplaceTemperature(n, b, p)
              /\ smart'[n] = ReplaceStorageHealth(n, b, p, rows)
              /\ \A m \in Node : m # n =>
                    /\ samples'[m] = samples[m] /\ detail'[m] = detail[m]
                    /\ current'[m] = current[m] /\ resCurrent'[m] = resCurrent[m]
                    /\ temperature'[m] = temperature[m] /\ smart'[m] = smart[m]
<1> DEFINE p == req[h].payload
           n == p.agent
           b == BucketAt(p)
           rows == ActiveRows(h)
           s == [bucket |-> b, from |-> p, received |-> req[h].at]
           new == DetailRows(rows, p)
<1>1. n \in Node /\ b \in Bucket /\ p \in Payload
  BY CommitFacts, BucketIsTime
<1>2. s \in Sample /\ s # None /\ new \in SUBSET DetailRow
  BY MetricTypes, NoneAssumption
<1>3. /\ samples'[n][b] = s
      /\ \A x \in Bucket : x # b => samples'[n][x] = samples[n][x]
      /\ \A m \in Node : m # n => samples'[m] = samples[m]
  BY <1>1 DEF CommitIngest, TypeOK
<1>4. /\ detail'[n][b] = new
      /\ \A x \in Bucket : x # b => detail'[n][x] = detail[n][x]
      /\ \A m \in Node : m # n => detail'[m] = detail[m]
  BY <1>1 DEF CommitIngest, ReplaceDetails, TypeOK
<1>5. /\ current'[n] = SyncNodeCurrent(n, s)
      /\ \A m \in Node : m # n => current'[m] = current[m]
  BY <1>1 DEF CommitIngest, TypeOK
<1>6. /\ resCurrent'[n] = SyncResCurrent(n, b, new)
      /\ \A m \in Node : m # n => resCurrent'[m] = resCurrent[m]
  BY <1>1 DEF CommitIngest, TypeOK
<1>7. /\ temperature'[n] = ReplaceTemperature(n, b, p)
      /\ smart'[n] = ReplaceStorageHealth(n, b, p, rows)
      /\ \A m \in Node : m # n => temperature'[m] = temperature[m] /\ smart'[m] = smart[m]
  BY <1>1 DEF CommitIngest, TypeOK
<1>8. QED
  BY <1>1, <1>2, <1>3, <1>4, <1>5, <1>6, <1>7

-----------------------------------------------------------------------------
\* The current row of a node is its newest sample.

LEMMA CommitCurrent ==
    ASSUME TypeOK, CurrentIsNewest, NEW h \in Handler, CommitIngest(h)
    PROVE  CurrentIsNewest'
<1> DEFINE p == req[h].payload
           n == p.agent
           b == BucketAt(p)
           s == [bucket |-> b, from |-> p, received |-> req[h].at]
<1>1. /\ n \in Node /\ b \in Bucket /\ s # None /\ s.bucket = b
      /\ samples'[n][b] = s
      /\ \A x \in Bucket : x # b => samples'[n][x] = samples[n][x]
      /\ current'[n] = SyncNodeCurrent(n, s)
      /\ \A m \in Node : m # n => samples'[m] = samples[m] /\ current'[m] = current[m]
  BY CommitWrites
<1> SUFFICES ASSUME NEW m \in Node
             PROVE  /\ current'[m] = None <=> \A x \in Bucket : samples'[m][x] = None
                    /\ current'[m] # None =>
                        /\ current'[m].bucket \in Bucket
                        /\ samples'[m][current'[m].bucket] = current'[m]
                        /\ \A x \in Bucket : samples'[m][x] # None => x <= current'[m].bucket
  BY DEF CurrentIsNewest
<1>2. CASE m # n
  BY <1>1, <1>2 DEF CurrentIsNewest
<1>3. CASE m = n /\ current[n] = None
  <2>1. \A x \in Bucket : samples[n][x] = None
    BY <1>1, <1>3 DEF CurrentIsNewest
  <2>2. current'[n] = s
    BY <1>1, <1>3 DEF SyncNodeCurrent
  <2>3. QED
    <3>1. b \in Int /\ b <= b
      <4>1. b \in Int
        BY <1>1, BucketsAreTimes
      <4>2. \A i \in Int : i <= i
        OBVIOUS
      <4>3. QED
        BY <4>1, <4>2
    <3>2. \A x \in Bucket : samples'[n][x] # None => x = b
      BY <1>1, <2>1
    <3>3. QED
      BY <1>1, <1>3, <2>2, <3>1, <3>2
<1>4. CASE m = n /\ current[n] # None /\ s.bucket >= current[n].bucket
  <2>1. current'[n] = s
    BY <1>1, <1>4 DEF SyncNodeCurrent
  <2>2. /\ current[n].bucket \in Bucket
        /\ \A x \in Bucket : samples[n][x] # None => x <= current[n].bucket
    BY <1>1, <1>4 DEF CurrentIsNewest
  <2>3. \A x \in Bucket : samples'[n][x] # None => x <= b
    <3>1. b \in Int /\ current[n].bucket \in Int /\ current[n].bucket <= b
      BY <1>1, <1>4, <2>2, BucketsAreTimes
    <3>2. \A x \in Bucket : x \in Int
      BY BucketsAreTimes
    <3>3. \A x \in Bucket : samples'[n][x] # None => x = b \/ x <= current[n].bucket
      BY <1>1, <2>2
    <3>4. QED
      BY <3>1, <3>2, <3>3
  <2>4. QED
    BY <1>1, <1>4, <2>1, <2>3
<1>5. CASE m = n /\ current[n] # None /\ ~(s.bucket >= current[n].bucket)
  <2>1. current'[n] = current[n]
    BY <1>1, <1>5 DEF SyncNodeCurrent
  <2>2. /\ current[n].bucket \in Bucket
        /\ samples[n][current[n].bucket] = current[n]
        /\ \A x \in Bucket : samples[n][x] # None => x <= current[n].bucket
    BY <1>1, <1>5 DEF CurrentIsNewest
  <2>3. b # current[n].bucket /\ b <= current[n].bucket
    <3>1. b \in Int /\ current[n].bucket \in Int
      BY <1>1, <2>2, BucketsAreTimes
    <3>2. ~(b >= current[n].bucket)
      BY <1>1, <1>5
    <3>3. QED
      BY <3>1, <3>2
  <2>4. QED
    BY <1>1, <1>5, <2>1, <2>2, <2>3
<1>6. QED
  BY <1>2, <1>3, <1>4, <1>5

\* Reports may be late, repeated or reordered: the current row of a node is
\* always its sample of the newest minute as last written.
THEOREM CurrentCorrect == Spec => []CurrentIsNewest
<1>1. Init => CurrentIsNewest
  <2> SUFFICES ASSUME Init, NEW n \in Node
               PROVE  /\ current[n] = None
                      /\ \A b \in Bucket : samples[n][b] = None
    BY DEF CurrentIsNewest
  <2>1. QED
    BY DEF Init
<1>2. TypeOK /\ CurrentIsNewest /\ [Next]_vars => CurrentIsNewest'
  <2> SUFFICES ASSUME TypeOK, CurrentIsNewest, [Next]_vars
               PROVE  CurrentIsNewest'
    OBVIOUS
  <2>1. CASE UNCHANGED metricVars
    BY <2>1 DEF CurrentIsNewest, metricVars
  <2>2. QED
    BY <2>1, OnlyCommitWritesMetrics, CommitCurrent
<1>3. QED
  BY <1>1, <1>2, TypeCorrect, PTL DEF Spec

-----------------------------------------------------------------------------
\* The detail rows of a minute belong to the report of its main row.

LEMMA CommitDetails ==
    ASSUME TypeOK, DetailsMatchSample, NEW h \in Handler, CommitIngest(h)
    PROVE  DetailsMatchSample'
<1> DEFINE p == req[h].payload
           n == p.agent
           b == BucketAt(p)
           s == [bucket |-> b, from |-> p, received |-> req[h].at]
           new == DetailRows(ActiveRows(h), p)
<1>1. /\ n \in Node /\ b \in Bucket
      /\ samples'[n][b] = s /\ s # None
      /\ detail'[n][b] = new
      /\ \A x \in Bucket : x # b =>
            samples'[n][x] = samples[n][x] /\ detail'[n][x] = detail[n][x]
      /\ \A m \in Node : m # n => samples'[m] = samples[m] /\ detail'[m] = detail[m]
  BY CommitWrites
<1>2. (\A d \in new : d.from = p) /\ {d.key : d \in new} = p.metrics
  <2>1. \A d \in new : d.from = p /\ d.key \in p.metrics
    BY DEF DetailRows
  <2>2. \A k \in p.metrics : [key |-> k, gen |-> ActiveRows(h)[k].gen, from |-> p] \in new
    BY DEF DetailRows
  <2>3. \A k \in p.metrics : \E d \in new : d.key = k
    BY <2>2
  <2>4. QED
    BY <2>1, <2>3
<1> SUFFICES ASSUME NEW m \in Node, NEW x \in Bucket
             PROVE  /\ samples'[m][x] = None => detail'[m][x] = {}
                    /\ samples'[m][x] # None =>
                        /\ \A d \in detail'[m][x] : d.from = samples'[m][x].from
                        /\ {d.key : d \in detail'[m][x]} = samples'[m][x].from.metrics
  BY DEF DetailsMatchSample
<1>3. CASE m = n /\ x = b
  <2>1. s.from = p
    OBVIOUS
  <2>2. QED
    BY <1>1, <1>2, <1>3, <2>1
<1>4. CASE ~(m = n /\ x = b)
  <2>1. samples'[m][x] = samples[m][x] /\ detail'[m][x] = detail[m][x]
    BY <1>1, <1>4
  <2>2. QED
    BY <2>1 DEF DetailsMatchSample
<1>5. QED
  BY <1>3, <1>4

\* A retry replaces the details of its minute: they are always exactly those of
\* the report the main row holds.
THEOREM DetailsCorrect == Spec => []DetailsMatchSample
<1>1. Init => DetailsMatchSample
  BY DEF Init, DetailsMatchSample
<1>2. TypeOK /\ DetailsMatchSample /\ [Next]_vars => DetailsMatchSample'
  <2> SUFFICES ASSUME TypeOK, DetailsMatchSample, [Next]_vars
               PROVE  DetailsMatchSample'
    OBVIOUS
  <2>1. CASE UNCHANGED metricVars
    BY <2>1 DEF DetailsMatchSample, metricVars
  <2>2. QED
    BY <2>1, OnlyCommitWritesMetrics, CommitDetails
<1>3. QED
  BY <1>1, <1>2, TypeCorrect, PTL DEF Spec

-----------------------------------------------------------------------------
\* The current row of a resource is at least as new as its details.

LEMMA CommitResourceCurrent ==
    ASSUME TypeOK, ResourceCurrentFresh, NEW h \in Handler, CommitIngest(h)
    PROVE  ResourceCurrentFresh'
<1> DEFINE p == req[h].payload
           n == p.agent
           b == BucketAt(p)
           new == DetailRows(ActiveRows(h), p)
<1>1. /\ n \in Node /\ b \in Bucket /\ new \in SUBSET DetailRow
      /\ detail'[n][b] = new
      /\ \A x \in Bucket : x # b => detail'[n][x] = detail[n][x]
      /\ resCurrent'[n] = SyncResCurrent(n, b, new)
      /\ \A m \in Node : m # n => detail'[m] = detail[m] /\ resCurrent'[m] = resCurrent[m]
  BY CommitWrites
<1>2. b \in Int /\ \A c \in resCurrent[n] : c.bucket \in Int
  <2>1. resCurrent[n] \in SUBSET ResourceRow
    BY <1>1 DEF TypeOK
  <2>2. \A c \in resCurrent[n] : c.bucket \in Bucket
    BY <2>1 DEF ResourceRow
  <2>3. QED
    BY <1>1, <2>2, BucketsAreTimes
<1>3. \A d \in new : d.from = p
  BY DEF DetailRows
<1> HIDE DEF b, new
<1> SUFFICES ASSUME NEW m \in Node, NEW x \in Bucket, NEW d \in detail'[m][x]
             PROVE  \E c \in resCurrent'[m] :
                        SameResource(c, d) /\ c.bucket >= x /\ (c.bucket = x => c.from = d.from)
  BY DEF ResourceCurrentFresh
<1>4. CASE m # n
  BY <1>1, <1>4 DEF ResourceCurrentFresh
<1>5. ASSUME NEW e \in new
      PROVE  \E c \in resCurrent'[n] :
                SameResource(c, e) /\ c.bucket >= b /\ (c.bucket = b => c.from = e.from)
  <2> DEFINE w == [key |-> e.key, gen |-> e.gen, bucket |-> b, from |-> e.from]
  <2>1. CASE \E c \in resCurrent[n] : SameResource(c, e) /\ b < c.bucket
    <3>1. PICK c \in resCurrent[n] : SameResource(c, e) /\ b < c.bucket
      BY <2>1
    <3>2. ~(b >= c.bucket) /\ c.bucket >= b /\ c.bucket # b
      BY <1>2, <3>1
    <3>3. c \in resCurrent'[n]
      BY <1>1, <3>2 DEF SyncResCurrent
    <3>4. QED
      BY <3>1, <3>2, <3>3
  <2>2. CASE ~\E c \in resCurrent[n] : SameResource(c, e) /\ b < c.bucket
    <3>1. w \in resCurrent'[n]
      BY <1>1, <1>5, <2>2 DEF SyncResCurrent
    <3>2. SameResource(w, e) /\ w.bucket = b /\ w.from = e.from
      BY DEF SameResource
    <3>3. w.bucket >= b
      BY <1>2, <3>2
    <3>4. QED
      BY <3>1, <3>2, <3>3
  <2>3. QED
    BY <2>1, <2>2
<1>6. CASE m = n /\ x = b
  BY <1>1, <1>5, <1>6
<1>7. CASE m = n /\ x # b
  <2>1. d \in detail[n][x]
    BY <1>1, <1>7
  <2>2. PICK c \in resCurrent[n] :
            SameResource(c, d) /\ c.bucket >= x /\ (c.bucket = x => c.from = d.from)
    BY <1>1, <2>1 DEF ResourceCurrentFresh
  <2>3. CASE \E e \in new : SameResource(c, e) /\ b >= c.bucket
    <3>1. PICK e \in new : SameResource(c, e) /\ b >= c.bucket
      BY <2>3
    <3>2. PICK f \in resCurrent'[n] : SameResource(f, e) /\ f.bucket >= b
      BY <1>5
    <3>3. SameResource(f, d)
      BY <2>2, <3>1, <3>2 DEF SameResource
    <3>4. x \in Int /\ f.bucket \in Int
      <4>1. resCurrent'[n] \in SUBSET ResourceRow
        BY <1>1, CommitIngestTypeOK DEF TypeOK
      <4>2. QED
        BY <3>2, <4>1, BucketsAreTimes DEF ResourceRow
    <3>5. f.bucket >= x /\ f.bucket # x
      BY <1>2, <1>7, <2>2, <3>1, <3>2, <3>4
    <3>6. QED
      BY <1>7, <3>2, <3>3, <3>5
  <2>4. CASE ~\E e \in new : SameResource(c, e) /\ b >= c.bucket
    <3>1. c \in resCurrent'[n]
      BY <1>1, <2>2, <2>4 DEF SyncResCurrent
    <3>2. QED
      BY <1>7, <2>2, <3>1
  <2>5. QED
    BY <2>3, <2>4
<1>8. QED
  BY <1>4, <1>6, <1>7

\* No current row of a filesystem, interface or GPU lags behind its own samples.
THEOREM ResourceCurrentCorrect == Spec => []ResourceCurrentFresh
<1>1. Init => ResourceCurrentFresh
  BY DEF Init, ResourceCurrentFresh
<1>2. TypeOK /\ ResourceCurrentFresh /\ [Next]_vars => ResourceCurrentFresh'
  <2> SUFFICES ASSUME TypeOK, ResourceCurrentFresh, [Next]_vars
               PROVE  ResourceCurrentFresh'
    OBVIOUS
  <2>1. CASE UNCHANGED metricVars
    BY <2>1 DEF ResourceCurrentFresh, metricVars
  <2>2. QED
    BY <2>1, OnlyCommitWritesMetrics, CommitResourceCurrent
<1>3. QED
  BY <1>1, <1>2, TypeCorrect, PTL DEF Spec

-----------------------------------------------------------------------------
\* The temperature and SMART snapshots.

LEMMA CommitSnapshots ==
    ASSUME TypeOK, SnapshotIsOneReport, NEW h \in Handler, CommitIngest(h)
    PROVE  SnapshotIsOneReport' /\ SnapshotKept
<1> DEFINE p == req[h].payload
           n == p.agent
           b == BucketAt(p)
           rows == ActiveRows(h)
           temps == {[sensor |-> x, bucket |-> b, from |-> p] : x \in p.temps}
           disks == {[key |-> k, gen |-> rows[k].gen, bucket |-> b, from |-> p] : k \in p.health}
<1>1. /\ n \in Node /\ b \in Bucket
      /\ temperature'[n] = ReplaceTemperature(n, b, p)
      /\ smart'[n] = ReplaceStorageHealth(n, b, p, rows)
      /\ \A m \in Node : m # n => temperature'[m] = temperature[m] /\ smart'[m] = smart[m]
  BY CommitWrites
<1>2. \A m \in Node : /\ \A r \in temperature[m] : r.bucket \in Int
                      /\ \A r \in smart[m] : r.bucket \in Int
  <2>1. \A m \in Node : temperature[m] \in SUBSET SensorRow /\ smart[m] \in SUBSET ResourceRow
    BY DEF TypeOK
  <2>2. \A m \in Node : /\ \A r \in temperature[m] : r.bucket \in Bucket
                        /\ \A r \in smart[m] : r.bucket \in Bucket
    BY <2>1 DEF SensorRow, ResourceRow
  <2>3. QED
    BY <2>2, BucketsAreTimes
<1>3. /\ \A x \in temps : x.from = p /\ x.bucket = b
      /\ {x.sensor : x \in temps} = p.temps
  <2>1. \A x \in temps : x.from = p /\ x.bucket = b /\ x.sensor \in p.temps
    OBVIOUS
  <2>2. \A y \in p.temps : [sensor |-> y, bucket |-> b, from |-> p] \in temps
    OBVIOUS
  <2>3. \A y \in p.temps : \E x \in temps : x.sensor = y
    BY <2>2
  <2>4. QED
    BY <2>1, <2>3
<1>4. /\ \A x \in disks : x.from = p /\ x.bucket = b
      /\ {x.key : x \in disks} = p.health
  <2>1. \A x \in disks : x.from = p /\ x.bucket = b /\ x.key \in p.health
    OBVIOUS
  <2>2. \A y \in p.health : [key |-> y, gen |-> rows[y].gen, bucket |-> b, from |-> p] \in disks
    OBVIOUS
  <2>3. \A y \in p.health : \E x \in disks : x.key = y
    BY <2>2
  <2>4. QED
    BY <2>1, <2>3
<1>5. \/ temperature'[n] = temperature[n]
      \/ temperature'[n] = temps /\ \A r \in temperature[n] : r.bucket <= b
  BY <1>1 DEF ReplaceTemperature, CurrentSnapshotCanBeReplaced
<1>6. \/ smart'[n] = smart[n]
      \/ smart'[n] = disks /\ \A r \in smart[n] : r.bucket <= b
  BY <1>1 DEF ReplaceStorageHealth, CurrentSnapshotCanBeReplaced
<1>7. b \in Int
  BY <1>1, BucketsAreTimes
<1> HIDE DEF temps, disks, b, rows
<1>8. ASSUME NEW m \in Node
      PROVE  /\ \A r \in temperature'[m] :
                    /\ \A x \in temperature'[m] : x.from = r.from /\ x.bucket = r.bucket
                    /\ {x.sensor : x \in temperature'[m]} = r.from.temps
             /\ \A r \in temperature[m], x \in temperature'[m] : x.bucket >= r.bucket
  <2>1. CASE temperature'[m] = temperature[m]
    <3>1. \A r \in temperature[m], x \in temperature[m] : x.bucket = r.bucket
      BY DEF SnapshotIsOneReport
    <3>2. QED
      BY <1>2, <2>1, <3>1 DEF SnapshotIsOneReport
  <2>2. CASE m = n /\ temperature'[n] = temps /\ \A r \in temperature[n] : r.bucket <= b
    <3>1. \A r \in temperature[m], x \in temperature'[m] : x.bucket >= r.bucket
      BY <1>2, <1>3, <1>7, <2>2
    <3>2. QED
      BY <1>3, <2>2, <3>1
  <2>3. QED
    BY <1>1, <1>5, <2>1, <2>2
<1>9. ASSUME NEW m \in Node
      PROVE  /\ \A r \in smart'[m] :
                    /\ \A x \in smart'[m] : x.from = r.from /\ x.bucket = r.bucket
                    /\ {x.key : x \in smart'[m]} = r.from.health
             /\ \A r \in smart[m], x \in smart'[m] : x.bucket >= r.bucket
  <2>1. CASE smart'[m] = smart[m]
    <3>1. \A r \in smart[m], x \in smart[m] : x.bucket = r.bucket
      BY DEF SnapshotIsOneReport
    <3>2. QED
      BY <1>2, <2>1, <3>1 DEF SnapshotIsOneReport
  <2>2. CASE m = n /\ smart'[n] = disks /\ \A r \in smart[n] : r.bucket <= b
    <3>1. \A r \in smart[m], x \in smart'[m] : x.bucket >= r.bucket
      BY <1>2, <1>4, <1>7, <2>2
    <3>2. QED
      BY <1>4, <2>2, <3>1
  <2>3. QED
    BY <1>1, <1>6, <2>1, <2>2
<1>10. SnapshotIsOneReport'
  BY <1>8, <1>9 DEF SnapshotIsOneReport
<1>11. SnapshotKept
  BY <1>8, <1>9 DEF SnapshotKept
<1>12. QED
  BY <1>10, <1>11

LEMMA NextSnapshots ==
    TypeOK /\ SnapshotIsOneReport /\ [Next]_vars => SnapshotIsOneReport' /\ SnapshotKept
<1> SUFFICES ASSUME TypeOK, SnapshotIsOneReport, [Next]_vars
             PROVE  SnapshotIsOneReport' /\ SnapshotKept
  OBVIOUS
<1>1. CASE UNCHANGED metricVars
  <2>1. SnapshotIsOneReport'
    BY <1>1 DEF SnapshotIsOneReport, metricVars
  <2>2. \A m \in Node : /\ \A r \in temperature[m] : r.bucket \in Int
                        /\ \A r \in smart[m] : r.bucket \in Int
    <3>1. \A m \in Node : temperature[m] \in SUBSET SensorRow /\ smart[m] \in SUBSET ResourceRow
      BY DEF TypeOK
    <3>2. \A m \in Node : /\ \A r \in temperature[m] : r.bucket \in Bucket
                          /\ \A r \in smart[m] : r.bucket \in Bucket
      BY <3>1 DEF SensorRow, ResourceRow
    <3>3. QED
      BY <3>2, BucketsAreTimes
  <2>3. \A m \in Node : /\ \A r \in temperature[m], x \in temperature[m] : x.bucket = r.bucket
                        /\ \A r \in smart[m], x \in smart[m] : x.bucket = r.bucket
    BY DEF SnapshotIsOneReport
  <2>4. SnapshotKept
    BY <1>1, <2>2, <2>3 DEF SnapshotKept, metricVars
  <2>5. QED
    BY <2>1, <2>4
<1>2. QED
  BY <1>1, OnlyCommitWritesMetrics, CommitSnapshots

\* The temperature and SMART tables never mix the batches of two reports.
THEOREM SnapshotsWhole == Spec => []SnapshotIsOneReport
<1>1. Init => SnapshotIsOneReport
  BY DEF Init, SnapshotIsOneReport
<1>2. QED
  BY <1>1, NextSnapshots, TypeCorrect, PTL DEF Spec

\* A snapshot that is not empty is never replaced by one of an earlier minute.
THEOREM SnapshotsMonotone == Spec => SnapshotNeverRewinds
<1>1. TypeOK /\ SnapshotIsOneReport /\ [Next]_vars => [SnapshotKept]_vars
  BY NextSnapshots
<1>2. QED
  BY <1>1, SnapshotsWhole, TypeCorrect, PTL DEF Spec, SnapshotNeverRewinds

-----------------------------------------------------------------------------
(***************************************************************************)
(* The refinement of MinuteLedger.                                         *)
(***************************************************************************)

\* The ledger truncates to the same minute.
LEMMA SameMinutes ==
    /\ Ledger!Minutes = Bucket
    /\ \A p \in Payload : Ledger!MinuteOf(p) = BucketAt(p)
BY DEF Ledger!Minutes, Ledger!MinuteOf, Bucket, BucketAt

LEMMA InitRefines == Init => Ledger!Init
<1> SUFFICES ASSUME Init
             PROVE  Ledger!Init
  OBVIOUS
<1>1. StoredLedger = [n \in Node |-> [m \in Bucket |-> None]]
  BY DEF Init, StoredLedger, StoredEntry
<1>2. ShownReport = [n \in Node |-> None]
  BY DEF Init, ShownReport
<1>3. ActiveInventory = [n \in Node |-> [k \in {} |-> None]]
  <2>1. ASSUME NEW n \in Node
        PROVE  [k \in ActiveKeys(n) |-> active[n][k].attr] = [k \in {} |-> None]
    <3>1. ActiveKeys(n) = {}
      BY DEF Init, ActiveKeys
    <3>2. QED
      BY <3>1
  <2>2. QED
    BY <2>1 DEF ActiveInventory
<1>4. QED
  BY <1>1, <1>2, <1>3, SameMinutes DEF Ledger!Init

\* The minute of the report gets its entry, all others keep theirs.
LEMMA CommitEnters ==
    ASSUME TypeOK, NEW h \in Handler, CommitIngest(h),
           NEW p \in Payload, p = req[h].payload,
           NEW n \in Node, n = p.agent
    PROVE  StoredLedger' = [StoredLedger EXCEPT ![n] =
                                [StoredLedger[n] EXCEPT ![BucketAt(p)] = Ledger!Entry(p)]]
<1> DEFINE b == BucketAt(p)
           s == [bucket |-> b, from |-> p, received |-> req[h].at]
           new == DetailRows(ActiveRows(h), p)
           page == [StoredLedger[n] EXCEPT ![b] = Ledger!Entry(p)]
<1>1. /\ b \in Bucket
      /\ samples'[n][b] = s /\ s # None /\ s.from = p
      /\ detail'[n][b] = new
      /\ \A x \in Bucket : x # b =>
            samples'[n][x] = samples[n][x] /\ detail'[n][x] = detail[n][x]
      /\ \A m \in Node : m # n => samples'[m] = samples[m] /\ detail'[m] = detail[m]
  BY CommitWrites
<1>2. {d.key : d \in new} = p.metrics
  <2>1. \A d \in new : d.key \in p.metrics
    BY DEF DetailRows
  <2>2. \A k \in p.metrics : [key |-> k, gen |-> ActiveRows(h)[k].gen, from |-> p] \in new
    BY DEF DetailRows
  <2>3. \A k \in p.metrics : \E d \in new : d.key = k
    BY <2>2
  <2>4. QED
    BY <2>1, <2>3
<1>3. StoredEntry(n, b)' = Ledger!Entry(p)
  BY <1>1, <1>2 DEF StoredEntry, Ledger!Entry
<1>4. \A m \in Node, x \in Bucket :
        ~(m = n /\ x = b) => StoredEntry(m, x)' = StoredEntry(m, x)
  <2> SUFFICES ASSUME NEW m \in Node, NEW x \in Bucket, ~(m = n /\ x = b)
               PROVE  StoredEntry(m, x)' = StoredEntry(m, x)
    OBVIOUS
  <2>1. samples'[m][x] = samples[m][x] /\ detail'[m][x] = detail[m][x]
    BY <1>1
  <2>2. QED
    BY <2>1 DEF StoredEntry
<1> HIDE DEF b
<1>5. StoredLedger' = [m \in Node |-> [x \in Bucket |-> StoredEntry(m, x)']]
  BY DEF StoredLedger
<1>6. StoredLedger[n] = [x \in Bucket |-> StoredEntry(n, x)]
  BY <1>1 DEF StoredLedger
<1>7. [x \in Bucket |-> StoredEntry(n, x)'] = page
  BY <1>1, <1>3, <1>4, <1>6
<1>8. \A m \in Node : m # n => [x \in Bucket |-> StoredEntry(m, x)'] = StoredLedger[m]
  BY <1>1, <1>4 DEF StoredLedger
<1>9. QED
  <2>1. StoredLedger = [m \in Node |-> StoredLedger[m]]
    BY DEF StoredLedger
  <2> HIDE DEF page
  <2>2. \A m \in Node : StoredLedger'[m] = IF m = n THEN page ELSE StoredLedger[m]
    BY <1>5, <1>7, <1>8
  <2>3. StoredLedger' = [StoredLedger EXCEPT ![n] = page]
    BY <1>5, <2>1, <2>2
  <2>4. QED
    BY <2>3 DEF page, b

\* What is shown afterwards is the newest entry of the page.
LEMMA CommitShows ==
    ASSUME TypeOK, TypeOK', CurrentIsNewest', NEW h \in Handler, CommitIngest(h),
           NEW n \in Node, n = req[h].payload.agent
    PROVE  \E r \in Payload : /\ Ledger!IsNewest(r, StoredLedger'[n])
                              /\ ShownReport' = [ShownReport EXCEPT ![n] = r]
<1>1. PICK b \in Bucket : samples'[n][b] # None
  BY CommitWrites
<1>2. \A m \in Node : m # n => current'[m] = current[m]
  BY CommitWrites
<1>3. /\ current'[n] # None /\ current'[n].bucket \in Bucket
      /\ samples'[n][current'[n].bucket] = current'[n]
      /\ \A x \in Bucket : samples'[n][x] # None => x <= current'[n].bucket
  BY <1>1 DEF CurrentIsNewest
<1>4. current'[n].from \in Payload
  <2>1. current'[n] \in Sample
    BY <1>3 DEF TypeOK
  <2>2. QED
    BY <2>1 DEF Sample
<1>5. PICK c \in Bucket, r \in Payload : c = current'[n].bucket /\ r = current'[n].from
  BY <1>3, <1>4
<1>6. \A x \in Bucket : StoredLedger'[n][x] = StoredEntry(n, x)'
  BY DEF StoredLedger
<1>7. \A x \in Bucket : StoredEntry(n, x)' # None => samples'[n][x] # None
  BY DEF StoredEntry
<1>8. StoredEntry(n, c)' # None /\ StoredEntry(n, c)'.report = r
  <2>1. StoredEntry(n, c)' = [report |-> r, resources |-> {d.key : d \in detail'[n][c]}]
    BY <1>3, <1>5 DEF StoredEntry
  <2>2. {d.key : d \in detail'[n][c]} \in SUBSET Key
    <3>1. detail'[n][c] \in SUBSET DetailRow
      BY DEF TypeOK
    <3>2. QED
      BY <3>1 DEF DetailRow
  <2>3. StoredEntry(n, c)' \in [report : Payload, resources : SUBSET Key]
    BY <2>1, <2>2
  <2>4. QED
    BY <2>1, <2>3, NoEntryAssumption
<1>9. Ledger!IsNewest(r, StoredLedger'[n])
  BY <1>3, <1>5, <1>6, <1>7, <1>8, SameMinutes DEF Ledger!IsNewest
<1>10. ShownReport' = [ShownReport EXCEPT ![n] = r]
  BY <1>2, <1>3, <1>5 DEF ShownReport
<1>11. QED
  BY <1>9, <1>10

\* The active rows afterwards are the inventory of the report.
LEMMA CommitReplacesInventory ==
    ASSUME InventoryInv, NEW h \in Handler, CommitIngest(h),
           NEW n \in Node, n = req[h].payload.agent,
           NEW inv \in Inventory, inv = req[h].payload.inventory
    PROVE  ActiveInventory' = [ActiveInventory EXCEPT ![n] = inv]
<1>1. TypeOK /\ req[h].pc = "locked" /\ DOMAIN inv \subseteq Key
  BY InventoryFields DEF InventoryInv, CommitIngest
<1>2. active'[n] = ActiveRows(h) /\ \A m \in Node : m # n => active'[m] = active[m]
  BY <1>1 DEF CommitIngest, TypeOK
<1>3. \A k \in Key : IF k \in DOMAIN inv
                     THEN active'[n][k] # None /\ active'[n][k].attr = inv[k]
                     ELSE active'[n][k] = None
  BY <1>1, <1>2, ActiveRowsMatch
<1>4. ActiveKeys(n)' = DOMAIN inv
  BY <1>1, <1>3 DEF ActiveKeys
<1>5. inv = [k \in DOMAIN inv |-> inv[k]]
  BY DEF Inventory
<1>6. ActiveInventory'[n] = inv
  <2>1. ActiveInventory'[n] = [k \in ActiveKeys(n)' |-> active'[n][k].attr]
    BY DEF ActiveInventory
  <2>2. [k \in DOMAIN inv |-> active'[n][k].attr] = [k \in DOMAIN inv |-> inv[k]]
    BY <1>1, <1>3
  <2>3. QED
    BY <1>4, <1>5, <2>1, <2>2
<1>7. \A m \in Node : m # n => ActiveInventory'[m] = ActiveInventory[m]
  BY <1>2 DEF ActiveInventory, ActiveKeys
<1>8. /\ ActiveInventory' = [m \in Node |-> ActiveInventory'[m]]
      /\ ActiveInventory = [m \in Node |-> ActiveInventory[m]]
  BY DEF ActiveInventory
<1>9. QED
  BY <1>6, <1>7, <1>8

LEMMA OnlyCommitWritesTables ==
    ASSUME [Next]_vars
    PROVE  (\E h \in Handler : CommitIngest(h)) \/ UNCHANGED <<samples, detail, current, active>>
BY DEF Next, vars, dbVars, invVars, metricVars, BeginRegister, CommitRegister, AbortRegister,
       DisableNode, ReceiveReport, RejectReport, StartIngest, LockNode, AbortIngest,
       Restart, Tick

\* Every step of the store is a step of the ledger or changes nothing in it.
LEMMA StepRefines ==
    InventoryInv /\ TypeOK' /\ CurrentIsNewest' /\ [Next]_vars
        => [Ledger!Next]_(Ledger!ledgerVars)
<1> SUFFICES ASSUME InventoryInv, TypeOK', CurrentIsNewest', [Next]_vars
             PROVE  [Ledger!Next]_(Ledger!ledgerVars)
  OBVIOUS
<1>1. TypeOK
  BY DEF InventoryInv
<1>2. ASSUME NEW h \in Handler, CommitIngest(h)
      PROVE  Ledger!Next
  <2>1. PICK p \in Payload, n \in Node : p = req[h].payload /\ n = p.agent
    BY <1>1, <1>2, CommitFacts
  <2>2. Ledger!MinuteOf(p) = BucketAt(p) /\ p.inventory \in Inventory
    BY SameMinutes, PayloadFields
  <2>3. StoredLedger' = [StoredLedger EXCEPT ![n] =
                            [StoredLedger[n] EXCEPT ![BucketAt(p)] = Ledger!Entry(p)]]
    BY <1>1, <1>2, <2>1, CommitEnters
  <2>4. StoredLedger'[n] = [StoredLedger[n] EXCEPT ![BucketAt(p)] = Ledger!Entry(p)]
    <3>1. DOMAIN StoredLedger = Node
      BY DEF StoredLedger
    <3>2. QED
      BY <2>3, <3>1
  <2>5. \E r \in Payload : /\ Ledger!IsNewest(r, StoredLedger'[n])
                           /\ ShownReport' = [ShownReport EXCEPT ![n] = r]
    BY <1>1, <1>2, <2>1, CommitShows
  <2>6. ActiveInventory' = [ActiveInventory EXCEPT ![n] = p.inventory]
    BY <1>2, <2>1, <2>2, CommitReplacesInventory
  <2>7. Ledger!Accept(p)
    <3> DEFINE page == [StoredLedger[n] EXCEPT ![BucketAt(p)] = Ledger!Entry(p)]
    <3>1. /\ StoredLedger' = [StoredLedger EXCEPT ![n] = page]
          /\ \E r \in Payload : /\ Ledger!IsNewest(r, page)
                               /\ ShownReport' = [ShownReport EXCEPT ![n] = r]
          /\ ActiveInventory' = [ActiveInventory EXCEPT ![n] = p.inventory]
      BY <2>3, <2>4, <2>5, <2>6
    <3>2. n = p.agent /\ page = [StoredLedger[n] EXCEPT ![Ledger!MinuteOf(p)] = Ledger!Entry(p)]
      BY <2>1, <2>2
    <3> HIDE DEF page
    <3>3. QED
      BY <3>1, <3>2, Zenon DEF Ledger!Accept
  <2>8. QED
    BY <2>7 DEF Ledger!Next
<1>3. CASE UNCHANGED <<samples, detail, current, active>>
  BY <1>3 DEF Ledger!ledgerVars, StoredLedger, StoredEntry, ShownReport, ActiveInventory, ActiveKeys
<1>4. QED
  BY <1>2, <1>3, OnlyCommitWritesTables

\* The store with its concurrent requests, row locks and triggers implements the
\* ledger that accepts one whole report at a time.
THEOREM StoreImplementsLedger == Spec => ImplementsLedger
<1>1. Spec => []InventoryInv
  BY InitInventoryInv, NextInventoryInv, PTL DEF Spec
<1>2. QED
  BY <1>1, InitRefines, StepRefines, CurrentCorrect, TypeCorrect, PTL
     DEF Spec, ImplementsLedger, Ledger!Spec
============================================================================
