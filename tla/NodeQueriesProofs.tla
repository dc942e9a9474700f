------------------------- MODULE NodeQueriesProofs -------------------------
(***************************************************************************)
(* What the dashboard shows: the online status, a node's detail read       *)
(* without a transaction, and the chosen interface, for any number of      *)
(* requests of either kind.                                                *)
(***************************************************************************)
EXTENDS NodeQueries, ReportStoreMetricsProofs

LEMMA BucketsAreNatural == Bucket \subseteq Nat
<1> SUFFICES ASSUME NEW p \in Payload PROVE BucketAt(p) \in Nat
  BY DEF Bucket
<1>1. p.collected \in Nat /\ Minute \in Nat \ {0}
  BY PayloadFields, TimeAssumption
<1>2. p.collected % Minute \in Nat /\ p.collected % Minute <= p.collected
  BY <1>1
<1> QED BY <1>1, <1>2 DEF BucketAt

\* The fields of rows that hold a minute.
LEMMA MinuteFields ==
    ASSUME TypeOK, NEW n \in Node
    PROVE  /\ current[n] # None => current[n] \in Sample /\ current[n].bucket \in Bucket
           /\ \A c \in resCurrent[n] : c \in ResourceRow /\ c.bucket \in Bucket /\ c.bucket \in Int
<1>1. current[n] \in Sample \cup {None} /\ resCurrent[n] \in SUBSET ResourceRow
  BY DEF TypeOK
<1> QED BY <1>1, BucketsAreTimes DEF Sample, ResourceRow

-----------------------------------------------------------------------------
(***************************************************************************)
(* The store goes on as without queries.                                   *)
(***************************************************************************)

\* Queries and choices leave the tables of ReportStore alone.
LEMMA QueriesOnlyRead ==
    ASSUME [QNext]_<<vars, queryVars>>
    PROVE  /\ [Next]_vars
           /\ UNCHANGED queryVars \/ UNCHANGED vars
BY DEF QNext, queryVars, SetPrimaryNetworkInterface, BeginGetNode, BeginExport, QuerySummary,
       QueryList, FinishDetail, AbortGetNode

LEMMA QueriesImplementStore == QSpec => Spec
<1>1. QInit => Init
  BY DEF QInit
<1>2. [QNext]_<<vars, queryVars>> => [Next]_vars
  BY QueriesOnlyRead
<1> QED BY <1>1, <1>2, PTL DEF QSpec, Spec

\* What the proofs below take from ReportStore.
StoreInv == TypeOK /\ GensCount /\ ResourceCurrentFresh

LEMMA StoreInvariant == QSpec => []StoreInv
<1>1. PeriodInv /\ ResourceCurrentFresh => StoreInv
  BY DEF PeriodInv, StoreInv
<1> QED BY <1>1, QueriesImplementStore, PeriodInvariant, ResourceCurrentCorrect, PTL

-----------------------------------------------------------------------------
(***************************************************************************)
(* Online.                                                                 *)
(***************************************************************************)

LEMMA CommitSeenStored ==
    ASSUME TypeOK, SeenIsStored, NEW h \in Handler, CommitIngest(h)
    PROVE  SeenIsStored'
<1> DEFINE p == req[h].payload
           a == p.agent
           m == BucketAt(p)
           s == [bucket |-> m, from |-> p, received |-> req[h].at]
<1>1. /\ a \in Node /\ m \in Bucket /\ s # None /\ samples'[a][m] = s
      /\ \A n \in Node : n # a => samples'[n] = samples[n] /\ current'[n] = current[n]
  BY CommitWrites
<1>2. /\ req[h].at \in Nat /\ lastSeen'[a] = req[h].at
      /\ \A n \in Node : n # a => lastSeen'[n] = lastSeen[n]
  BY <1>1, CommitFacts DEF CommitIngest, TypeOK
<1>3. s.received = req[h].at /\ req[h].at # None
  BY <1>2, NoneAssumption
<1> HIDE DEF a, m, s
<1> SUFFICES ASSUME NEW n \in Node, current'[n] # None
             PROVE  /\ lastSeen'[n] # None
                    /\ \E b \in Bucket : samples'[n][b] # None /\ samples'[n][b].received = lastSeen'[n]
  BY DEF SeenIsStored
<1>4. CASE n = a
  BY <1>1, <1>2, <1>3, <1>4
<1>5. CASE n # a
  BY <1>1, <1>2, <1>5 DEF SeenIsStored
<1> QED BY <1>4, <1>5

LEMMA NextSeenStored ==
    TypeOK /\ SeenIsStored /\ [Next]_vars => SeenIsStored'
<1> SUFFICES ASSUME TypeOK, SeenIsStored, [Next]_vars PROVE SeenIsStored'
  OBVIOUS
<1>1. CASE \E h \in Handler : CommitIngest(h)
  BY <1>1, CommitSeenStored
<1>2. CASE UNCHANGED <<samples, current>> /\ \A n \in Node : lastSeen[n] # None => lastSeen'[n] = lastSeen[n]
  BY <1>2 DEF SeenIsStored
<1>3. CASE UNCHANGED <<metricVars, lastSeen>>
  BY <1>2, <1>3 DEF metricVars
<1>4. ASSUME NEW x \in Admin, NEW t \in TokenId, CommitRegister(x, t) PROVE SeenIsStored'
  <2>1. \A n \in Node : lastSeen[n] # None => lastSeen'[n] = lastSeen[n]
    BY <1>4 DEF CommitRegister, TypeOK
  <2> QED BY <1>2, <1>4, <2>1 DEF CommitRegister, metricVars
<1> QED BY <1>1, <1>3, <1>4, OnlyCommitsWrite, OnlyCommitWritesMetrics

\* A node shown online has a stored report that came within OfflineAfter.
LEMMA SeenMeansReported == SeenIsStored => OnlineMeansReported
<1> SUFFICES ASSUME SeenIsStored, NEW n \in Node, Status(n) = "online"
             PROVE  \E b \in Bucket : samples[n][b] # None /\ samples[n][b].received >= now - OfflineAfter
  BY DEF OnlineMeansReported
<1>1. current[n] # None /\ lastSeen[n] >= now - OfflineAfter
  BY DEF Status
<1> QED BY <1>1 DEF SeenIsStored

-----------------------------------------------------------------------------
(***************************************************************************)
(* The current rows of resources: the triggers keep one per resource and   *)
(* never let it go back.                                                   *)
(***************************************************************************)

\* A row that the triggers leave in place, and one they write.
Kept(n, b, new, c) ==
    c \in resCurrent[n] /\ \A d \in new : SameResource(c, d) => c.bucket > b
Written(n, b, new, c) ==
    \E d \in new :
        /\ c.key = d.key /\ c.gen = d.gen /\ c.bucket = b /\ c.from = d.from
        /\ c = [key |-> d.key, gen |-> d.gen, bucket |-> b, from |-> d.from]
        /\ \A e \in resCurrent[n] : SameResource(e, d) => e.bucket <= b

LEMMA SyncedCurrent ==
    ASSUME TypeOK, NEW n \in Node, NEW b \in Int, NEW new
    PROVE  /\ \A c \in SyncResCurrent(n, b, new) : Kept(n, b, new, c) \/ Written(n, b, new, c)
           /\ \A e \in resCurrent[n] : \E c \in SyncResCurrent(n, b, new) : SameResource(c, e)
<1>1. \A c \in resCurrent[n] : c.bucket \in Int
  BY MinuteFields
<1>2. ASSUME NEW c \in SyncResCurrent(n, b, new)
      PROVE  Kept(n, b, new, c) \/ Written(n, b, new, c)
  <2>1. CASE c \in resCurrent[n] /\ ~\E d \in new : SameResource(c, d) /\ b >= c.bucket
    BY <1>1, <2>1 DEF Kept
  <2>2. ASSUME NEW d \in new, ~\E e \in resCurrent[n] : SameResource(e, d) /\ b < e.bucket,
               c = [key |-> d.key, gen |-> d.gen, bucket |-> b, from |-> d.from]
        PROVE  Written(n, b, new, c)
    <3>1. \A e \in resCurrent[n] : SameResource(e, d) => e.bucket <= b
      BY <1>1, <2>2
    <3>2. c.key = d.key /\ c.gen = d.gen /\ c.bucket = b /\ c.from = d.from
      BY <2>2
    <3> QED BY <2>2, <3>1, <3>2 DEF Written
  <2> QED BY <1>2, <2>1, <2>2 DEF SyncResCurrent
<1>3. ASSUME NEW e \in resCurrent[n]
      PROVE  \E c \in SyncResCurrent(n, b, new) : SameResource(c, e)
  <2>1. CASE ~\E d \in new : SameResource(e, d) /\ b >= e.bucket
    BY <1>3, <2>1 DEF SyncResCurrent, SameResource
  <2>2. ASSUME NEW d \in new, SameResource(e, d),
               NEW f \in resCurrent[n], SameResource(f, d), b < f.bucket
        PROVE  \E c \in SyncResCurrent(n, b, new) : SameResource(c, e)
    <3>1. f \in SyncResCurrent(n, b, new)
      BY <1>1, <2>2 DEF SyncResCurrent
    <3> QED BY <2>2, <3>1 DEF SameResource
  <2>3. ASSUME NEW d \in new, SameResource(e, d),
               ~\E f \in resCurrent[n] : SameResource(f, d) /\ b < f.bucket
        PROVE  \E c \in SyncResCurrent(n, b, new) : SameResource(c, e)
    <3> DEFINE w == [key |-> d.key, gen |-> d.gen, bucket |-> b, from |-> d.from]
    <3>1. w \in SyncResCurrent(n, b, new)
      BY <2>3 DEF SyncResCurrent
    <3>2. SameResource(w, e)
      BY <2>3 DEF SameResource
    <3> QED BY <3>1, <3>2
  <2> QED BY <2>1, <2>2, <2>3
<1> QED BY <1>2, <1>3

LEMMA CommitOneCurrentRow ==
    ASSUME TypeOK, OneCurrentRow, NEW h \in Handler, CommitIngest(h)
    PROVE  OneCurrentRow'
<1> DEFINE p == req[h].payload
           a == p.agent
           b == BucketAt(p)
           new == DetailRows(ActiveRows(h), p)
<1>1. /\ a \in Node /\ b \in Bucket /\ resCurrent'[a] = SyncResCurrent(a, b, new)
      /\ \A m \in Node : m # a => resCurrent'[m] = resCurrent[m]
  BY CommitWrites
<1>2. b \in Int /\ \A c \in resCurrent[a] : c.bucket \in Int
  BY <1>1, BucketsAreTimes, MinuteFields
<1>3. \A d \in new : d.from = p
  BY DEF DetailRows
<1> HIDE DEF a, b, new, p
<1>4. ASSUME NEW c \in resCurrent'[a], NEW e \in resCurrent'[a], SameResource(c, e)
      PROVE  c = e
  <2>1. Kept(a, b, new, c) \/ Written(a, b, new, c)
    BY <1>1, <1>2, SyncedCurrent
  <2>2. Kept(a, b, new, e) \/ Written(a, b, new, e)
    BY <1>1, <1>2, SyncedCurrent
  <2>3. CASE Kept(a, b, new, c) /\ Kept(a, b, new, e)
    BY <1>1, <1>4, <2>3 DEF Kept, OneCurrentRow
  <2>4. CASE Kept(a, b, new, c) /\ Written(a, b, new, e)
    <3>1. PICK x \in new : /\ e.key = x.key /\ e.gen = x.gen
                           /\ \A f \in resCurrent[a] : SameResource(f, x) => f.bucket <= b
      BY <2>4 DEF Written
    <3>2. c \in resCurrent[a] /\ SameResource(c, x)
      BY <1>4, <2>4, <3>1 DEF Kept, SameResource
    <3>3. c.bucket <= b /\ c.bucket > b
      BY <2>4, <3>1, <3>2 DEF Kept
    <3> QED BY <1>2, <3>2, <3>3
  <2>5. CASE Written(a, b, new, c) /\ Kept(a, b, new, e)
    <3>1. PICK x \in new : /\ c.key = x.key /\ c.gen = x.gen
                           /\ \A f \in resCurrent[a] : SameResource(f, x) => f.bucket <= b
      BY <2>5 DEF Written
    <3>2. e \in resCurrent[a] /\ SameResource(e, x)
      BY <1>4, <2>5, <3>1 DEF Kept, SameResource
    <3>3. e.bucket <= b /\ e.bucket > b
      BY <2>5, <3>1, <3>2 DEF Kept
    <3> QED BY <1>2, <3>2, <3>3
  <2>6. CASE Written(a, b, new, c) /\ Written(a, b, new, e)
    <3>1. PICK x \in new : c = [key |-> x.key, gen |-> x.gen, bucket |-> b, from |-> x.from]
      BY <2>6 DEF Written
    <3>2. PICK y \in new : e = [key |-> y.key, gen |-> y.gen, bucket |-> b, from |-> y.from]
      BY <2>6 DEF Written
    <3>3. x.key = y.key /\ x.gen = y.gen /\ x.from = y.from
      BY <1>3, <1>4, <3>1, <3>2 DEF SameResource
    <3> QED BY <3>1, <3>2, <3>3
  <2> QED BY <2>1, <2>2, <2>3, <2>4, <2>5, <2>6
<1>5. ASSUME NEW n \in Node, n # a, NEW c \in resCurrent'[n], NEW e \in resCurrent'[n], SameResource(c, e)
      PROVE  c = e
  BY <1>1, <1>5 DEF OneCurrentRow
<1> QED BY <1>4, <1>5 DEF OneCurrentRow, SameResource

\* A resource that is shown as of minute m is never shown older again.
LEMMA CommitShownSince ==
    ASSUME TypeOK, NEW h \in Handler, CommitIngest(h),
           NEW n \in Node, NEW d, NEW m \in Int, ShownSince(n, d, m)
    PROVE  ShownSince(n, d, m)'
<1> DEFINE p == req[h].payload
           b == BucketAt(p)
           new == DetailRows(ActiveRows(h), p)
<1>1. resCurrent'[n] = resCurrent[n] \/ resCurrent'[n] = SyncResCurrent(n, b, new)
  BY CommitWrites
<1>2. CASE resCurrent'[n] = resCurrent[n]
  BY <1>2 DEF ShownSince, SameResource
<1>3. CASE resCurrent'[n] = SyncResCurrent(n, b, new)
  <2>0. b \in Int /\ \A c \in resCurrent[n] : c.bucket \in Int
    BY BucketsAreTimes, MinuteFields, CommitWrites
  <2> HIDE DEF b, new
  <2>1. PICK e \in resCurrent[n] : SameResource(e, d) /\ e.bucket >= m
    BY DEF ShownSince
  <2>2. PICK f \in resCurrent'[n] : SameResource(f, e)
    BY <1>3, <2>0, SyncedCurrent
  <2>3. ASSUME NEW c \in resCurrent'[n], SameResource(c, d) PROVE c.bucket >= m
    <3>1. Kept(n, b, new, c) \/ Written(n, b, new, c)
      BY <1>3, <2>0, SyncedCurrent
    <3>2. CASE Kept(n, b, new, c)
      BY <2>3, <3>2 DEF Kept, ShownSince
    <3>3. CASE Written(n, b, new, c)
      <4>1. e.bucket <= b /\ c.bucket = b
        BY <2>1, <2>3, <3>3 DEF Written, SameResource
      <4> QED BY <2>0, <2>1, <4>1
    <3> QED BY <3>1, <3>2, <3>3
  <2>4. SameResource(f, d)
    BY <2>1, <2>2 DEF SameResource
  <2>5. \A c \in resCurrent'[n] : SameResource(c, d) => c.bucket >= m
    BY <2>3
  <2>6. \E c \in resCurrent'[n] : SameResource(c, d)
    BY <2>2, <2>4
  <2> QED BY <2>5, <2>6 DEF ShownSince, SameResource
<1> QED BY <1>1, <1>2, <1>3

LEMMA NextCurrentRows ==
    ASSUME TypeOK, OneCurrentRow, [Next]_vars
    PROVE  /\ OneCurrentRow'
           /\ \A n \in Node, m \in Int : \A d : ShownSince(n, d, m) => ShownSince(n, d, m)'
<1>1. CASE \E h \in Handler : CommitIngest(h)
  BY <1>1, CommitOneCurrentRow, CommitShownSince
<1>2. CASE UNCHANGED metricVars
  BY <1>2 DEF metricVars, OneCurrentRow, ShownSince, SameResource
<1> QED BY <1>1, <1>2, OnlyCommitWritesMetrics

-----------------------------------------------------------------------------
(***************************************************************************)
(* The statements of GetNode.                                              *)
(***************************************************************************)

LEMMA ListNames == Lists[1] = "filesystems" /\ Lists[2] = "gpus" /\ DOMAIN Lists = {1, 2}
BY DEF Lists

LEMMA IdleReaderType ==
    /\ IdleReader \in ReaderState /\ IdleReader.pc = "idle"
    /\ \A T \in SUBSET Node :
        LET r == [IdleReader EXCEPT !.pc = "next", !.todo = T]
        IN r \in ReaderState /\ r.pc = "next"
BY DEF IdleReader, ReaderState

\* A list row has the minute of a current row of its resource, if there is one.
LEMMA ListedRows ==
    ASSUME TypeOK, NEW n \in Node, NEW row \in ListRows(n)
    PROVE  /\ row \in ListRow
           /\ \A c \in resCurrent[n] : c.key = row.key /\ c.gen = row.gen =>
                \E e \in resCurrent[n] : e.key = row.key /\ e.gen = row.gen /\ row.minute = e.bucket
<1>1. PICK k \in Key : active[n][k] # None /\ row = Listed(n, k)
  BY DEF ListRows
<1> DEFINE g == active[n][k].gen
           cur == {c \in resCurrent[n] : c.key = k /\ c.gen = g}
           m == IF cur = {} THEN None ELSE (CHOOSE c \in cur : TRUE).bucket
<1>2. g \in Nat
  BY <1>1, RowTypes
<1>3. row = [key |-> k, gen |-> g, minute |-> m]
  BY <1>1 DEF Listed
<1>4. cur # {} => \E e \in cur : m = e.bucket
  OBVIOUS
<1>5. \A e \in cur : e.bucket \in Bucket
  BY MinuteFields
<1> HIDE DEF g, cur, m
<1>6. m \in Bucket \cup {None}
  BY <1>4, <1>5 DEF m
<1>7. row.key = k /\ row.gen = g /\ row.minute = m /\ row \in ListRow
  BY <1>2, <1>3, <1>6 DEF ListRow
<1> QED BY <1>4, <1>7 DEF cur

LEMMA AfterSummary ==
    ASSUME TypeOK, NEW n \in Node, NEW r \in ReaderState, r.pc = "next"
    PROVE  LET s == AfterQuery(r, n)
           IN /\ s \in ReaderState /\ s.pc = "filesystems" /\ s.node = n /\ s.listed = {}
              /\ s.newest = current[n]
              /\ s.measured = IF current[n] = None THEN {} ELSE detail[n][current[n].bucket]
<1> DEFINE r1 == [r EXCEPT !.pc = Lists[1], !.node = n, !.todo = r.todo \ {n}, !.listed = {}]
           ms == IF current[n] = None THEN {} ELSE detail[n][current[n].bucket]
           s == [r1 EXCEPT !.newest = current[n], !.measured = ms]
<1>1. current[n] \in Sample \cup {None} /\ ms \in SUBSET DetailRow
  BY MinuteFields DEF TypeOK
<1>2. Lists[1] = "filesystems" /\ Lists[2] = "gpus"
  BY ListNames
<1>3. AfterQuery(r, n) = s
  BY <1>2 DEF AfterQuery, SeenSummary
<1> HIDE DEF ms
<1>4. r1 \in ReaderState /\ r1.pc = "filesystems" /\ r1.node = n /\ r1.listed = {}
  BY <1>2 DEF ReaderState
<1> HIDE DEF r1
<1>5. /\ s \in ReaderState /\ s.pc = "filesystems" /\ s.node = n /\ s.listed = {}
      /\ s.newest = current[n] /\ s.measured = ms
  BY <1>1, <1>4 DEF ReaderState
<1> QED BY <1>3, <1>5 DEF ms

LEMMA AfterList ==
    ASSUME TypeOK, NEW n \in Node, NEW r \in ReaderState, r.pc \in {"filesystems", "gpus"}
    PROVE  LET s == AfterQuery(r, n)
           IN /\ s \in ReaderState /\ s.pc \in {"gpus", "done"} /\ s.node = r.node
              /\ s.newest = r.newest /\ s.measured = r.measured
              /\ s.listed = r.listed \cup ListRows(n)
<1>1. ListRows(n) \subseteq ListRow
  BY ListedRows
<1>2. Lists[1] = "filesystems" /\ Lists[2] = "gpus"
  BY ListNames
<1> DEFINE x == r.listed \cup ListRows(n)
<1>3. x \in SUBSET ListRow
  BY <1>1 DEF ReaderState
<1>4. CASE r.pc = "filesystems"
  <2>1. AfterQuery(r, n) = [r EXCEPT !.pc = "gpus", !.listed = x]
    BY <1>2, <1>4 DEF AfterQuery
  <2> HIDE DEF x
  <2> QED BY <1>3, <2>1 DEF ReaderState, x
<1>5. CASE r.pc = "gpus"
  <2>1. AfterQuery(r, n) = [r EXCEPT !.pc = "done", !.listed = x]
    BY <1>2, <1>5 DEF AfterQuery
  <2> HIDE DEF x
  <2> QED BY <1>3, <2>1 DEF ReaderState, x
<1> QED BY <1>4, <1>5

\* The rows of a list are as new as what the summary saw.
LEMMA ListIsNew ==
    ASSUME TypeOK, NEW n \in Node, NEW d, NEW m \in Int, ShownSince(n, d, m),
           NEW row \in ListRows(n), row.key = d.key, row.gen = d.gen
    PROVE  row.minute # None /\ row.minute >= m
<1>1. PICK c \in resCurrent[n] : SameResource(c, d)
  BY DEF ShownSince
<1>2. PICK e \in resCurrent[n] : e.key = row.key /\ e.gen = row.gen /\ row.minute = e.bucket
  BY <1>1, ListedRows DEF SameResource
<1>3. e.bucket >= m
  BY <1>2 DEF ShownSince, SameResource
<1>4. e.bucket \in Nat
  BY MinuteFields, BucketsAreNatural
<1> QED BY <1>2, <1>3, <1>4, NoneAssumption

\* What one step can do to a GET request: start or end it, or run its next statement.
StartsOrEnds(x) == x \in ReaderState /\ x.pc \in {"idle", "next"}
RunsSummary(q, x) ==
    \E n \in Node : reader[q].pc = "next" /\ x = AfterQuery(reader[q], n)
RunsList(q, x) ==
    reader[q].pc \in {"filesystems", "gpus"} /\ x = AfterQuery(reader[q], reader[q].node)

LEMMA ReaderSteps ==
    ASSUME QTypeOK, [QNext]_<<vars, queryVars>>
    PROVE  \/ UNCHANGED reader
           \/ /\ UNCHANGED <<vars, preference>>
              /\ \E q \in Reader : \E x :
                    /\ reader' = [reader EXCEPT ![q] = x]
                    /\ StartsOrEnds(x) \/ RunsSummary(q, x) \/ RunsList(q, x)
<1>0. \A q \in Reader : reader[q] \in ReaderState /\ reader[q].todo \in SUBSET Node
  BY DEF QTypeOK, ReaderState
<1> DEFINE Goal == /\ UNCHANGED <<vars, preference>>
                   /\ \E q \in Reader : \E x :
                        /\ reader' = [reader EXCEPT ![q] = x]
                        /\ StartsOrEnds(x) \/ RunsSummary(q, x) \/ RunsList(q, x)
<1>1. ASSUME NEW T \in SUBSET Node
      PROVE  StartsOrEnds([IdleReader EXCEPT !.pc = "next", !.todo = T])
  BY IdleReaderType DEF StartsOrEnds
<1>2. StartsOrEnds(IdleReader)
  BY IdleReaderType DEF StartsOrEnds
<1>3. ASSUME NEW q \in Reader, NEW n \in Node, BeginGetNode(q, n) PROVE Goal
  <2>1. {n} \in SUBSET Node
    OBVIOUS
  <2> QED BY <1>1, <1>3, <2>1 DEF BeginGetNode
<1>4. ASSUME NEW q \in Reader, BeginExport(q) PROVE Goal
  <2>1. {n \in Node : lastSeen[n] # None} \in SUBSET Node
    OBVIOUS
  <2> QED BY <1>1, <1>4, <2>1 DEF BeginExport
<1>5. ASSUME NEW q \in Reader, NEW n \in Node, QuerySummary(q, n) PROVE Goal
  <2>1. RunsSummary(q, AfterQuery(reader[q], n))
    BY <1>5 DEF QuerySummary, RunsSummary
  <2> QED BY <1>5, <2>1 DEF QuerySummary
<1>6. ASSUME NEW q \in Reader, QueryList(q) PROVE Goal
  <2>1. RunsList(q, AfterQuery(reader[q], reader[q].node))
    BY <1>6, ListNames DEF QueryList, RunsList
  <2> QED BY <1>6, <2>1 DEF QueryList
<1>7. ASSUME NEW q \in Reader, FinishDetail(q) PROVE Goal
  <2> DEFINE x == IF reader[q].todo = {} THEN IdleReader
                  ELSE [IdleReader EXCEPT !.pc = "next", !.todo = reader[q].todo]
  <2>1. StartsOrEnds(x)
    BY <1>0, <1>1, <1>2
  <2>2. reader' = [reader EXCEPT ![q] = x] /\ UNCHANGED <<vars, preference>>
    BY <1>7 DEF FinishDetail
  <2> HIDE DEF x
  <2> QED BY <2>1, <2>2
<1>8. ASSUME NEW q \in Reader, AbortGetNode(q) PROVE Goal
  BY <1>2, <1>8 DEF AbortGetNode
<1>9. CASE UNCHANGED reader
  BY <1>9
<1> QED BY <1>3, <1>4, <1>5, <1>6, <1>7, <1>8, <1>9
        DEF QNext, queryVars, SetPrimaryNetworkInterface

LEMMA NextQTypeOK ==
    TypeOK /\ QTypeOK /\ [QNext]_<<vars, queryVars>> => QTypeOK'
<1> SUFFICES ASSUME TypeOK, QTypeOK, [QNext]_<<vars, queryVars>> PROVE QTypeOK'
  OBVIOUS
<1>0. reader \in [Reader -> ReaderState] /\ preference \in [Node -> Choice \cup {None}]
  BY DEF QTypeOK
<1>1. preference' \in [Node -> Choice \cup {None}]
  <2>1. ASSUME NEW n \in Node, NEW k \in Key, SetPrimaryNetworkInterface(n, k)
        PROVE  preference' \in [Node -> Choice \cup {None}]
    <3>1. active[n][k].gen \in Nat
      BY <2>1, RowTypes DEF SetPrimaryNetworkInterface
    <3> QED BY <1>0, <2>1, <3>1 DEF SetPrimaryNetworkInterface, Choice
  <2>2. CASE UNCHANGED preference
    BY <1>0, <2>2
  <2> QED BY <2>1, <2>2 DEF QNext, queryVars, BeginGetNode, BeginExport, QuerySummary,
             QueryList, FinishDetail, AbortGetNode
<1>2. CASE UNCHANGED reader
  BY <1>1, <1>2 DEF QTypeOK
<1>3. ASSUME NEW q \in Reader, NEW x, reader' = [reader EXCEPT ![q] = x],
             StartsOrEnds(x) \/ RunsSummary(q, x) \/ RunsList(q, x)
      PROVE  QTypeOK'
  <2>1. x \in ReaderState /\ (x.pc \in {"filesystems", "gpus", "done"} => x.node \in Node)
    <3>1. CASE StartsOrEnds(x)
      BY <3>1 DEF StartsOrEnds
    <3>2. CASE RunsSummary(q, x)
      BY <1>0, <3>2, AfterSummary DEF RunsSummary
    <3>3. CASE RunsList(q, x)
      <4>1. reader[q].node \in Node /\ reader[q] \in ReaderState
        BY <1>0, <3>3 DEF RunsList, QTypeOK
      <4> QED BY <3>3, <4>1, AfterList DEF RunsList
    <3> QED BY <1>3, <3>1, <3>2, <3>3
  <2>2. reader' \in [Reader -> ReaderState]
    BY <1>0, <1>3, <2>1
  <2>3. ASSUME NEW y \in Reader, reader'[y].pc \in {"filesystems", "gpus", "done"}
        PROVE  reader'[y].node \in Node
    BY <1>0, <1>3, <2>1, <2>3 DEF QTypeOK
  <2> QED BY <1>1, <2>2, <2>3 DEF QTypeOK
<1> QED BY <1>2, <1>3, ReaderSteps

\* The summary saw details no newer than the current rows of their resources.
LEMMA SummaryIsShown ==
    ASSUME TypeOK, ResourceCurrentFresh, OneCurrentRow, NEW n \in Node, current[n] # None,
           NEW d \in detail[n][current[n].bucket]
    PROVE  ShownSince(n, d, current[n].bucket)
<1> DEFINE m == current[n].bucket
<1>1. m \in Bucket
  BY MinuteFields
<1>2. PICK c \in resCurrent[n] : SameResource(c, d) /\ c.bucket >= m
  BY <1>1 DEF ResourceCurrentFresh
<1>3. ASSUME NEW e \in resCurrent[n], SameResource(e, d) PROVE e = c
  BY <1>2, <1>3 DEF OneCurrentRow, SameResource
<1> QED BY <1>2, <1>3 DEF ShownSince

LEMMA NextReaders ==
    ASSUME TypeOK, ResourceCurrentFresh, QTypeOK, OneCurrentRow, ReadersSound,
           [QNext]_<<vars, queryVars>>
    PROVE  ReadersSound'
<1> DEFINE Later == {"filesystems", "gpus", "done"}
           Sound(r) ==
             r.pc \in Later => \A d \in r.measured :
                /\ r.newest # None
                /\ ShownSince(r.node, d, r.newest.bucket)
                /\ \A row \in r.listed : row.key = d.key /\ row.gen = d.gen =>
                        row.minute # None /\ row.minute >= r.newest.bucket
<1>0. reader \in [Reader -> ReaderState]
  BY DEF QTypeOK
<1>1. \A r \in ReaderState : r.newest # None => r.newest.bucket \in Int
  BY BucketsAreTimes DEF ReaderState, Sample
<1>2. \A q \in Reader : Sound(reader[q])
  BY DEF ReadersSound
<1>3. CASE UNCHANGED reader
  <2>1. \A n \in Node, m \in Int : \A d : ShownSince(n, d, m) => ShownSince(n, d, m)'
    BY QueriesOnlyRead, NextCurrentRows
  <2>2. ASSUME NEW q \in Reader, reader[q].pc \in Later, NEW d \in reader[q].measured
        PROVE  /\ reader[q].newest # None
               /\ ShownSince(reader[q].node, d, reader[q].newest.bucket)'
               /\ \A row \in reader[q].listed : row.key = d.key /\ row.gen = d.gen =>
                        row.minute # None /\ row.minute >= reader[q].newest.bucket
    <3>1. /\ reader[q].newest # None
          /\ ShownSince(reader[q].node, d, reader[q].newest.bucket)
          /\ \A row \in reader[q].listed : row.key = d.key /\ row.gen = d.gen =>
                row.minute # None /\ row.minute >= reader[q].newest.bucket
      BY <2>2 DEF ReadersSound
    <3>2. reader[q].node \in Node /\ reader[q].newest.bucket \in Int
      BY <1>0, <1>1, <2>2, <3>1 DEF QTypeOK
    <3>3. ShownSince(reader[q].node, d, reader[q].newest.bucket)'
      BY <1>3, <2>1, <3>1, <3>2 DEF ShownSince
    <3> QED BY <3>1, <3>3
  <2> QED BY <1>3, <2>2 DEF ReadersSound, ShownSince
<1>4. ASSUME NEW q \in Reader, NEW x, reader' = [reader EXCEPT ![q] = x], UNCHANGED vars,
             StartsOrEnds(x) \/ RunsSummary(q, x) \/ RunsList(q, x)
      PROVE  ReadersSound'
  <2>1. Sound(x)
    <3>1. CASE StartsOrEnds(x)
      BY <3>1 DEF StartsOrEnds
    <3>2. CASE RunsSummary(q, x)
      <4>1. PICK n \in Node : reader[q].pc = "next" /\ x = AfterQuery(reader[q], n)
        BY <3>2 DEF RunsSummary
      <4>2. /\ x.node = n /\ x.listed = {} /\ x.newest = current[n]
            /\ x.measured = IF current[n] = None THEN {} ELSE detail[n][current[n].bucket]
        BY <1>0, <4>1, AfterSummary
      <4> QED BY <4>2, SummaryIsShown
    <3>3. CASE RunsList(q, x)
      <4> DEFINE r == reader[q]
      <4>1. r \in ReaderState /\ r.pc \in {"filesystems", "gpus"} /\ x = AfterQuery(r, r.node)
        BY <1>0, <3>3 DEF RunsList
      <4>2. r.node \in Node
        BY <4>1 DEF QTypeOK
      <4>3. /\ x.node = r.node /\ x.newest = r.newest /\ x.measured = r.measured
            /\ x.listed = r.listed \cup ListRows(r.node)
        BY <4>1, <4>2, AfterList
      <4>4. ASSUME NEW d \in r.measured
            PROVE  /\ r.newest # None /\ ShownSince(r.node, d, r.newest.bucket)
                   /\ \A row \in r.listed : row.key = d.key /\ row.gen = d.gen =>
                        row.minute # None /\ row.minute >= r.newest.bucket
        BY <4>1, <4>4 DEF ReadersSound
      <4>5. ASSUME NEW d \in r.measured, NEW row \in ListRows(r.node), row.key = d.key, row.gen = d.gen
            PROVE  row.minute # None /\ row.minute >= r.newest.bucket
        <5>1. ShownSince(r.node, d, r.newest.bucket) /\ r.newest.bucket \in Int
          BY <1>1, <4>1, <4>4, <4>5
        <5> QED BY <4>2, <4>5, <5>1, ListIsNew
      <4> HIDE DEF r
      <4> QED BY <4>3, <4>4, <4>5
    <3> QED BY <1>4, <3>1, <3>2, <3>3
  <2>2. \A y \in Reader : Sound(reader'[y])
    BY <1>0, <1>2, <1>4, <2>1
  <2>3. resCurrent' = resCurrent
    BY <1>4 DEF vars, dbVars, metricVars
  <2> QED BY <2>2, <2>3 DEF ReadersSound, ShownSince
<1> QED BY <1>3, <1>4, ReaderSteps

-----------------------------------------------------------------------------
(***************************************************************************)
(* The chosen interface.                                                   *)
(***************************************************************************)

LEMMA OnlySetChooses ==
    ASSUME [QNext]_<<vars, queryVars>>
    PROVE  \/ UNCHANGED preference
           \/ UNCHANGED vars /\ \E n \in Node, k \in Key : SetPrimaryNetworkInterface(n, k)
BY DEF QNext, queryVars, SetPrimaryNetworkInterface, BeginGetNode, BeginExport, QuerySummary,
       QueryList, FinishDetail, AbortGetNode

\* No key has fewer rows than before.
LEMMA GensGrow ==
    ASSUME TypeOK, [Next]_vars, NEW n \in Node, NEW k \in Key
    PROVE  gens[n][k] \in Nat /\ gens'[n][k] \in Nat /\ gens[n][k] <= gens'[n][k]
<1>0. gens[n][k] \in Nat
  BY RowTypes
<1>1. ASSUME NEW h \in Handler, CommitIngest(h)
      PROVE  gens'[n][k] = gens[n][k] \/ gens'[n][k] = gens[n][k] + 1
  BY <1>1, CommitRows DEF RowKept, RowOpened, RowGone
<1>2. gens'[n][k] = gens[n][k] \/ gens'[n][k] = gens[n][k] + 1
  BY <1>1, OnlyCommitsWrite
<1> QED BY <1>0, <1>2

LEMMA NextChosen ==
    ASSUME TypeOK, GensCount, QTypeOK, ChosenExisted, [QNext]_<<vars, queryVars>>
    PROVE  ChosenExisted'
<1>0. [Next]_vars /\ preference \in [Node -> Choice \cup {None}]
  BY QueriesOnlyRead DEF QTypeOK
<1>1. CASE UNCHANGED preference
  <2> SUFFICES ASSUME NEW n \in Node, preference[n] # None
               PROVE  preference[n].gen <= gens'[n][preference[n].key]
    BY <1>1 DEF ChosenExisted
  <2>1. preference[n].key \in Key /\ preference[n].gen \in Nat
    BY <1>0 DEF Choice
  <2>2. preference[n].gen <= gens[n][preference[n].key]
    BY DEF ChosenExisted
  <2> DEFINE k == preference[n].key
  <2>3. gens[n][k] \in Nat /\ gens'[n][k] \in Nat /\ gens[n][k] <= gens'[n][k]
    BY <1>0, <2>1, GensGrow
  <2> QED BY <2>1, <2>2, <2>3
<1>2. ASSUME NEW n \in Node, NEW k \in Key, SetPrimaryNetworkInterface(n, k), UNCHANGED vars
      PROVE  ChosenExisted'
  <2> DEFINE c == [key |-> k, gen |-> active[n][k].gen]
  <2>1. preference' = [preference EXCEPT ![n] = c] /\ active[n][k] # None /\ gens' = gens
    BY <1>2 DEF SetPrimaryNetworkInterface, vars, dbVars, invVars
  <2>2. c.gen <= gens[n][c.key]
    BY <2>1 DEF GensCount
  <2> HIDE DEF c
  <2> QED BY <1>0, <2>1, <2>2 DEF ChosenExisted
<1> QED BY <1>1, <1>2, OnlySetChooses

\* An interface that comes back is another row: a choice that has no effect gets none
\* without a new choice.
LEMMA ChoiceStaysVoid ==
    ASSUME TypeOK, QTypeOK, ChosenExisted, [QNext]_<<vars, queryVars>>,
           NEW n \in Node, preference[n] # None, preference'[n] = preference[n],
           ~\E k \in Key : IsPreferred(n, k),
           NEW k \in Key, IsPreferred(n, k)'
    PROVE  FALSE
<1>0. /\ active'[n][k] # None
      /\ preference[n] = [key |-> k, gen |-> active'[n][k].gen]
  BY DEF IsPreferred
<1>1. preference[n].key = k /\ preference[n].gen = active'[n][k].gen
  BY <1>0
<1>2. CASE active'[n][k] = active[n][k]
  BY <1>0, <1>2 DEF IsPreferred
<1>3. ASSUME NEW h \in Handler, CommitIngest(h) PROVE FALSE
  <2>1. CASE RowKept(n, k)
    BY <1>0, <2>1 DEF RowKept, IsPreferred
  <2>2. CASE RowOpened(n, k, req[h].at)
    <3>1. gens[n][k] \in Nat /\ preference[n].gen = gens[n][k] + 1
      BY <1>1, <2>2, RowTypes DEF RowOpened
    <3>2. preference[n].gen <= gens[n][k]
      BY <1>1 DEF ChosenExisted
    <3> QED BY <3>1, <3>2
  <2>3. CASE RowGone(n, k)
    BY <1>0, <2>3 DEF RowGone
  <2> QED BY <1>3, <2>1, <2>2, <2>3, CommitRows
<1> QED BY <1>2, <1>3, QueriesOnlyRead, OnlyCommitsWrite

-----------------------------------------------------------------------------
(***************************************************************************)
(* The theorems.                                                           *)
(***************************************************************************)

LEMMA InitQIInv == QInit => QIInv
<1> SUFFICES ASSUME QInit PROVE QIInv
  OBVIOUS
<1>1. QTypeOK /\ ReadersSound
  BY IdleReaderType DEF QInit, QTypeOK, ReadersSound
<1>2. SeenIsStored /\ OneCurrentRow
  BY DEF QInit, Init, SeenIsStored, OneCurrentRow
<1>3. ChosenExisted
  BY DEF QInit, ChosenExisted
<1> QED BY <1>1, <1>2, <1>3 DEF QIInv

LEMMA NextQIInv == StoreInv /\ QIInv /\ [QNext]_<<vars, queryVars>> => QIInv'
<1> SUFFICES ASSUME StoreInv, QIInv, [QNext]_<<vars, queryVars>> PROVE QIInv'
  OBVIOUS
<1>1. [Next]_vars /\ TypeOK
  BY QueriesOnlyRead DEF StoreInv
<1>2. QTypeOK' /\ ReadersSound'
  BY NextQTypeOK, NextReaders DEF StoreInv, QIInv
<1>3. SeenIsStored' /\ OneCurrentRow'
  BY <1>1, NextSeenStored, NextCurrentRows DEF QIInv
<1>4. ChosenExisted'
  BY NextChosen DEF StoreInv, QIInv
<1> QED BY <1>2, <1>3, <1>4 DEF QIInv

LEMMA QueriesInvariant == QSpec => []QIInv
BY InitQIInv, NextQIInv, StoreInvariant, PTL DEF QSpec

\* A node that the dashboard shows online has a stored report that arrived within
\* OfflineAfter, for any registrations, late reports and choice of OfflineAfter.
THEOREM OnlineReported == QSpec => []OnlineMeansReported
<1>1. QIInv => OnlineMeansReported
  BY SeenMeansReported DEF QIInv
<1> QED BY <1>1, QueriesInvariant, PTL

\* GetNode without a transaction: no list shows a device that the summary's minute
\* measured as older than that minute, whatever commits between the statements.
THEOREM DetailsNotOlder == QSpec => []DetailNotOlder
<1>1. QIInv => DetailNotOlder
  BY DEF QIInv, ReadersSound, DetailNotOlder
<1> QED BY <1>1, QueriesInvariant, PTL

\* A choice of primary interface whose row was removed has no effect until an
\* administrator chooses again.
THEOREM ChoicesNotRevived == QSpec => ChoiceNotRevived
<1>1. StoreInv /\ QIInv /\ [QNext]_<<vars, queryVars>> =>
        [\A n \in Node :
            /\ preference[n] # None /\ preference'[n] = preference[n]
            /\ ~\E k \in Key : IsPreferred(n, k)
            => ~\E k \in Key : IsPreferred(n, k)']_<<vars, queryVars>>
  BY ChoiceStaysVoid DEF StoreInv, QIInv
<1> QED BY <1>1, QueriesInvariant, StoreInvariant, PTL DEF QSpec, ChoiceNotRevived
============================================================================
