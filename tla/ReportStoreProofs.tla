------------------------- MODULE ReportStoreProofs -------------------------
(***************************************************************************)
(* Proofs about ReportStore, for every value of its constants.             *)
(***************************************************************************)
EXTENDS ReportStore, TLAPS

\* The fields of a payload, from the assumption on the constant Payload.
LEMMA PayloadFields ==
    ASSUME NEW p \in Payload
    PROVE  /\ p.agent \in Node
           /\ p.collected \in Nat
           /\ p.inventory \in Inventory
           /\ p.fingerprint \in Inventory
           /\ p.metrics \in SUBSET Key
           /\ p.temps \in SUBSET Sensor
           /\ p.health \in SUBSET Key
BY PayloadAssumption DEF Report

\* An inventory maps some of the keys to attributes.
LEMMA InventoryFields ==
    ASSUME NEW inv \in Inventory
    PROVE  /\ DOMAIN inv \subseteq Key
           /\ \A k \in DOMAIN inv : inv[k] \in Attr
BY DEF Inventory

\* Truncation to the minute yields a time.
LEMMA BucketIsTime ==
    ASSUME NEW p \in Payload
    PROVE  BucketAt(p) \in Bucket /\ BucketAt(p) \in Int
<1>1. p.collected \in Nat
  BY PayloadFields
<1>2. p.collected % Minute \in Int
  BY <1>1, TimeAssumption
<1>3. QED
  BY <1>1, <1>2 DEF BucketAt, Bucket

LEMMA BucketsAreTimes == Bucket \subseteq Int
BY BucketIsTime DEF Bucket

-----------------------------------------------------------------------------
(***************************************************************************)
(* Type correctness.                                                       *)
(***************************************************************************)

LEMMA InitTypeOK == Init => TypeOK
BY DEF Init, TypeOK, IdleReq, IdleReg, ReqState, RegState

\* The inventory rows and counters a commit writes have their types.
LEMMA SyncedTypes ==
    ASSUME TypeOK, NEW n \in Node, NEW inv \in Inventory, NEW at \in Nat
    PROVE  /\ SyncedRows(n, inv, at) \in [Key -> Row \cup {None}]
           /\ RemovedRows(n, inv, at) \in SUBSET ClosedRow
           /\ SyncedGens(n, inv) \in [Key -> Nat]
<1>1. ASSUME NEW k \in DOMAIN inv
      PROVE  NextRow(n, k, inv, at) \in Row
  <2>1. inv[k] \in Attr /\ k \in Key
    BY <1>1, InventoryFields
  <2>2. CASE active[n][k] = None
    BY <2>1, <2>2 DEF NextRow, TypeOK, Row
  <2>3. CASE active[n][k] # None
    BY <2>1, <2>3 DEF NextRow, TypeOK, Row
  <2>4. QED
    BY <2>2, <2>3
<1>2. SyncedRows(n, inv, at) \in [Key -> Row \cup {None}]
  BY <1>1 DEF SyncedRows
<1>3. RemovedRows(n, inv, at) \in SUBSET ClosedRow
  <2>1. ASSUME NEW k \in Key, active[n][k] # None
        PROVE  active[n][k].gen \in Nat /\ active[n][k].first \in Nat
    BY <2>1 DEF TypeOK, Row
  <2>2. QED
    BY <2>1 DEF RemovedRows, ClosedRow
<1>4. SyncedGens(n, inv) \in [Key -> Nat]
  BY DEF SyncedGens, TypeOK
<1>5. QED
  BY <1>2, <1>3, <1>4

\* What a request that commits works with.
LEMMA CommitFacts ==
    ASSUME TypeOK, NEW h \in Handler, CommitIngest(h)
    PROVE  /\ req[h].payload \in Payload
           /\ req[h].payload.agent \in Node
           /\ req[h].token \in TokenId
           /\ token[req[h].token] \in TokenRow
           /\ req[h].at \in Nat
           /\ ActiveRows(h) \in [Key -> Row \cup {None}]
           /\ \A k \in req[h].payload.metrics : ActiveRows(h)[k] \in Row
<1>1. req[h].payload \in Payload /\ req[h].token \in TokenId /\ token[req[h].token] \in TokenRow
  BY DEF TypeOK, CommitIngest
<1>2. req[h].at \in Nat
  BY DEF TypeOK, ReqState
<1>3. req[h].payload.agent \in Node /\ req[h].payload.inventory \in Inventory
  BY <1>1, PayloadFields
<1>4. ActiveRows(h) \in [Key -> Row \cup {None}]
  <2>1. active[req[h].payload.agent] \in [Key -> Row \cup {None}]
    BY <1>3 DEF TypeOK
  <2>2. QED
    BY <1>2, <1>3, <2>1, SyncedTypes DEF ActiveRows
<1>5. \A k \in req[h].payload.metrics : ActiveRows(h)[k] \in Row
  <2>1. \A k \in req[h].payload.metrics : ActiveRows(h)[k] # None
    BY DEF CommitIngest, ResourcesResolve
  <2>2. req[h].payload.metrics \in SUBSET Key
    BY <1>1, PayloadFields
  <2>3. QED
    BY <1>4, <2>1, <2>2
<1>6. QED
  BY <1>1, <1>2, <1>3, <1>4, <1>5

\* Which rows CommitIngest writes besides the inventory's, and their types.
LEMMA MetricTypes ==
    ASSUME TypeOK, NEW h \in Handler, CommitIngest(h)
    PROVE  LET p    == req[h].payload
               n    == p.agent
               b    == BucketAt(p)
               rows == ActiveRows(h)
               s    == [bucket |-> b, from |-> p, received |-> req[h].at]
           IN /\ s \in Sample
              /\ DetailRows(rows, p) \in SUBSET DetailRow
              /\ ReplaceDetails(n, b, DetailRows(rows, p)) \in [Bucket -> SUBSET DetailRow]
              /\ SyncNodeCurrent(n, s) \in Sample
              /\ SyncResCurrent(n, b, DetailRows(rows, p)) \in SUBSET ResourceRow
              /\ ReplaceTemperature(n, b, p) \in SUBSET SensorRow
              /\ ReplaceStorageHealth(n, b, p, rows) \in SUBSET ResourceRow
<1> DEFINE p == req[h].payload
           n == p.agent
           b == BucketAt(p)
           rows == ActiveRows(h)
           s == [bucket |-> b, from |-> p, received |-> req[h].at]
           new == DetailRows(rows, p)
<1>1. /\ p \in Payload /\ n \in Node /\ b \in Bucket /\ req[h].at \in Nat
      /\ p.metrics \in SUBSET Key /\ p.temps \in SUBSET Sensor /\ p.health \in SUBSET Key
      /\ rows \in [Key -> Row \cup {None}]
      /\ \A k \in p.metrics : rows[k] \in Row
  BY CommitFacts, PayloadFields, BucketIsTime
<1>2. s \in Sample
  BY <1>1 DEF Sample
<1>3. new \in SUBSET DetailRow
  BY <1>1 DEF DetailRows, DetailRow, Row
<1>4. ReplaceDetails(n, b, new) \in [Bucket -> SUBSET DetailRow]
  BY <1>1, <1>3 DEF ReplaceDetails, TypeOK
<1>5. SyncNodeCurrent(n, s) \in Sample
  <2>1. current[n] \in Sample \cup {None}
    BY <1>1 DEF TypeOK
  <2>2. QED
    BY <1>2, <2>1 DEF SyncNodeCurrent
<1>6. SyncResCurrent(n, b, new) \in SUBSET ResourceRow
  <2>1. resCurrent[n] \in SUBSET ResourceRow
    BY <1>1 DEF TypeOK
  <2>2. \A d \in new : [key |-> d.key, gen |-> d.gen, bucket |-> b, from |-> d.from] \in ResourceRow
    BY <1>1, <1>3 DEF DetailRow, ResourceRow
  <2>3. QED
    BY <2>1, <2>2 DEF SyncResCurrent
<1>7. ReplaceTemperature(n, b, p) \in SUBSET SensorRow
  <2>1. temperature[n] \in SUBSET SensorRow
    BY <1>1 DEF TypeOK
  <2>2. \A x \in p.temps : [sensor |-> x, bucket |-> b, from |-> p] \in SensorRow
    BY <1>1 DEF SensorRow
  <2>3. QED
    BY <2>1, <2>2 DEF ReplaceTemperature
<1>8. ReplaceStorageHealth(n, b, p, rows) \in SUBSET ResourceRow
  <2>1. smart[n] \in SUBSET ResourceRow
    BY <1>1 DEF TypeOK
  <2>2. CASE CurrentSnapshotCanBeReplaced(smart[n], b)
    <3>1. \A k \in p.health : rows[k] \in Row
      <4>1. \A k \in p.health : rows[k] # None
        BY <2>2 DEF CommitIngest, ResourcesResolve
      <4>2. QED
        BY <1>1, <4>1
    <3>2. \A k \in p.health : [key |-> k, gen |-> rows[k].gen, bucket |-> b, from |-> p] \in ResourceRow
      BY <1>1, <3>1 DEF Row, ResourceRow
    <3>3. QED
      BY <2>2, <3>2 DEF ReplaceStorageHealth
  <2>3. CASE ~CurrentSnapshotCanBeReplaced(smart[n], b)
    BY <2>1, <2>3 DEF ReplaceStorageHealth
  <2>4. QED
    BY <2>2, <2>3
<1>9. QED
  BY <1>2, <1>3, <1>4, <1>5, <1>6, <1>7, <1>8

\* The transaction of a report preserves the types.
LEMMA CommitIngestTypeOK ==
    ASSUME TypeOK, NEW h \in Handler, CommitIngest(h)
    PROVE  TypeOK'
<1> DEFINE p == req[h].payload
           n == p.agent
           t == req[h].token
           at == req[h].at
           b == BucketAt(p)
           rows == ActiveRows(h)
           s == [bucket |-> b, from |-> p, received |-> at]
<1>1. /\ p \in Payload /\ n \in Node /\ t \in TokenId /\ token[t] \in TokenRow /\ at \in Nat
      /\ p.inventory \in Inventory /\ p.fingerprint \in Inventory
      /\ b \in Bucket /\ rows \in [Key -> Row \cup {None}]
  BY CommitFacts, PayloadFields, BucketIsTime
<1>2. now' \in Nat /\ disabled' \in [Node -> BOOLEAN] /\ reg' = reg
  BY DEF CommitIngest, TypeOK
<1>3. /\ fingerprint' \in [Node -> Inventory \cup {None}]
      /\ lastSeen' \in [Node -> Nat \cup {None}]
      /\ lock' \in [Node -> Handler \cup {None}]
  BY <1>1 DEF CommitIngest, TypeOK
<1>4. token' \in [TokenId -> TokenRow \cup {None}]
      /\ \A x \in TokenId : token[x] \in TokenRow => token'[x] \in TokenRow
  <2>1. Used(token[t], at) \in TokenRow
    BY <1>1 DEF Used, TokenRow
  <2>2. token' = [token EXCEPT ![t] = Used(token[t], at)]
    BY DEF CommitIngest
  <2>3. QED
    BY <1>1, <2>1, <2>2 DEF TypeOK
<1>5. active' \in [Node -> [Key -> Row \cup {None}]]
  BY <1>1 DEF CommitIngest, TypeOK
<1>6. /\ closed' \in [Node -> SUBSET ClosedRow]
      /\ gens' \in [Node -> [Key -> Nat]]
  <2>1. /\ RemovedRows(n, p.inventory, at) \in SUBSET ClosedRow
        /\ SyncedGens(n, p.inventory) \in [Key -> Nat]
    BY <1>1, SyncedTypes
  <2>2. closed' \in [Node -> SUBSET ClosedRow]
    BY <1>1, <2>1 DEF CommitIngest, TypeOK
  <2>3. gens' \in [Node -> [Key -> Nat]]
    BY <1>1, <2>1 DEF CommitIngest, TypeOK
  <2>4. QED
    BY <2>2, <2>3
<1>7. samples' \in [Node -> [Bucket -> Sample \cup {None}]]
  BY <1>1, MetricTypes DEF CommitIngest, TypeOK
<1>8. detail' \in [Node -> [Bucket -> SUBSET DetailRow]]
  BY <1>1, MetricTypes DEF CommitIngest, TypeOK
<1>9. current' \in [Node -> Sample \cup {None}]
  BY <1>1, MetricTypes DEF CommitIngest, TypeOK
<1>10. resCurrent' \in [Node -> SUBSET ResourceRow]
  BY <1>1, MetricTypes DEF CommitIngest, TypeOK
<1>11. temperature' \in [Node -> SUBSET SensorRow]
  BY <1>1, MetricTypes DEF CommitIngest, TypeOK
<1>12. smart' \in [Node -> SUBSET ResourceRow]
  BY <1>1, MetricTypes DEF CommitIngest, TypeOK
<1>13. /\ req' \in [Handler -> ReqState]
       /\ \A x \in Handler : req'[x].pc # "idle" =>
            /\ req'[x].payload \in Payload
            /\ req'[x].token \in TokenId /\ token'[req'[x].token] \in TokenRow
  <2>1. req' = [req EXCEPT ![h] = IdleReq] /\ IdleReq \in ReqState /\ IdleReq.pc = "idle"
    BY DEF CommitIngest, IdleReq, ReqState
  <2>2. QED
    BY <1>4, <2>1 DEF TypeOK
<1>14. QED
  BY <1>2, <1>3, <1>4, <1>5, <1>6, <1>7, <1>8, <1>9, <1>10, <1>11, <1>12, <1>13 DEF TypeOK

\* Registration preserves the types.
LEMMA CommitRegisterTypeOK ==
    ASSUME TypeOK, NEW a \in Admin, NEW t \in TokenId, CommitRegister(a, t)
    PROVE  TypeOK'
<1> DEFINE n == reg[a].node
           at == reg[a].begun
<1>1. n \in Node /\ at \in Nat
  BY DEF CommitRegister, TypeOK, RegState
<1>2. token' \in [TokenId -> TokenRow \cup {None}]
      /\ \A x \in TokenId : token[x] \in TokenRow => token'[x] \in TokenRow
  <2>1. [node |-> n, created |-> at, revoked |-> None, used |-> None] \in TokenRow
    BY <1>1 DEF TokenRow
  <2>2. \A x \in Unrevoked(n) : Revoked(token[x], at) \in TokenRow
    <3>1. \A x \in Unrevoked(n) : x \in TokenId /\ token[x] \in TokenRow
      BY DEF Unrevoked, TypeOK
    <3>2. QED
      BY <1>1, <3>1 DEF Revoked, TokenRow
  <2>3. token' = RotatedTokens(n, t, at)
    BY DEF CommitRegister
  <2>4. ASSUME NEW x \in TokenId
        PROVE  /\ token'[x] \in TokenRow \cup {None}
               /\ token[x] \in TokenRow => token'[x] \in TokenRow
    <3>1. CASE x = t
      BY <2>1, <2>3, <3>1 DEF RotatedTokens
    <3>2. CASE x # t /\ x \in Unrevoked(n)
      BY <2>2, <2>3, <3>2 DEF RotatedTokens
    <3>3. CASE x # t /\ x \notin Unrevoked(n)
      BY <2>3, <3>3 DEF RotatedTokens, TypeOK
    <3>4. QED
      BY <3>1, <3>2, <3>3
  <2>5. QED
    BY <2>3, <2>4 DEF RotatedTokens
<1>3. disabled' \in [Node -> BOOLEAN] /\ lastSeen' \in [Node -> Nat \cup {None}]
  BY <1>1 DEF CommitRegister, TypeOK
<1>4. reg' \in [Admin -> RegState] /\ \A x \in Admin : reg'[x].pc # "idle" => reg'[x].node \in Node
  <2>1. reg' = [reg EXCEPT ![a] = IdleReg] /\ IdleReg \in RegState /\ IdleReg.pc = "idle"
    BY DEF CommitRegister, IdleReg, RegState
  <2>2. QED
    BY <2>1 DEF TypeOK
<1>5. /\ UNCHANGED <<now, fingerprint, active, closed, gens>>
      /\ UNCHANGED <<samples, detail, current, resCurrent, temperature, smart, lock, req>>
  BY DEF CommitRegister, invVars, metricVars
<1>6. QED
  BY <1>2, <1>3, <1>4, <1>5 DEF TypeOK

\* A step that leaves the tables alone preserves the types if the requests and
\* the locks keep theirs.
LEMMA RequestStepTypeOK ==
    ASSUME TypeOK, UNCHANGED dbVars, now' \in Nat,
           lock' \in [Node -> Handler \cup {None}],
           req' \in [Handler -> ReqState],
           reg' \in [Admin -> RegState],
           \A h \in Handler : req'[h].pc # "idle" =>
                /\ req'[h].payload \in Payload
                /\ req'[h].token \in TokenId /\ token[req'[h].token] \in TokenRow,
           \A a \in Admin : reg'[a].pc # "idle" => reg'[a].node \in Node
    PROVE  TypeOK'
BY DEF TypeOK, dbVars, invVars, metricVars

LEMMA NextTypeOK == TypeOK /\ [Next]_vars => TypeOK'
<1> SUFFICES ASSUME TypeOK, [Next]_vars
             PROVE  TypeOK'
  OBVIOUS
<1> USE DEF ReqState, RegState
<1>1. ASSUME NEW a \in Admin, NEW n \in Node, BeginRegister(a, n)
      PROVE  TypeOK'
  BY <1>1, RequestStepTypeOK DEF BeginRegister, TypeOK
<1>2. ASSUME NEW a \in Admin, AbortRegister(a)
      PROVE  TypeOK'
  BY <1>2, RequestStepTypeOK DEF AbortRegister, IdleReg, TypeOK
<1>3. ASSUME NEW n \in Node, DisableNode(n)
      PROVE  TypeOK'
  BY <1>3 DEF DisableNode, TypeOK, invVars, metricVars
<1>4. ASSUME NEW h \in Handler, NEW p \in Payload, NEW t \in TokenId, ReceiveReport(h, p, t)
      PROVE  TypeOK'
  <2>1. token[t] \in TokenRow
    BY <1>4 DEF ReceiveReport, AuthenticateToken, TypeOK
  <2>2. QED
    BY <1>4, <2>1, RequestStepTypeOK DEF ReceiveReport, IdleReq, TypeOK
<1>5. ASSUME NEW h \in Handler, RejectReport(h)
      PROVE  TypeOK'
  BY <1>5, RequestStepTypeOK DEF RejectReport, IdleReq, TypeOK
<1>6. ASSUME NEW h \in Handler, StartIngest(h)
      PROVE  TypeOK'
  <2>1. /\ req' \in [Handler -> ReqState]
        /\ \A x \in Handler : /\ req'[x].pc # "idle" => req[x].pc # "idle"
                             /\ req'[x].payload = req[x].payload
                             /\ req'[x].token = req[x].token
    BY <1>6 DEF StartIngest, Advance, TypeOK
  <2>2. UNCHANGED <<now, dbVars, lock, reg>>
    BY <1>6 DEF StartIngest
  <2>3. QED
    BY <2>1, <2>2, RequestStepTypeOK DEF TypeOK
<1>7. ASSUME NEW h \in Handler, LockNode(h)
      PROVE  TypeOK'
  <2>1. req[h].payload.agent \in Node
    BY <1>7, PayloadFields DEF LockNode, TypeOK
  <2>2. /\ req' \in [Handler -> ReqState]
        /\ \A x \in Handler : /\ req'[x].pc # "idle" => req[x].pc # "idle"
                             /\ req'[x].payload = req[x].payload
                             /\ req'[x].token = req[x].token
    BY <1>7, <2>1 DEF LockNode, Advance, TypeOK
  <2>3. lock' \in [Node -> Handler \cup {None}] /\ UNCHANGED <<now, dbVars, reg>>
    BY <1>7 DEF LockNode, TypeOK
  <2>4. QED
    BY <2>2, <2>3, RequestStepTypeOK DEF TypeOK
<1>8. ASSUME NEW h \in Handler, AbortIngest(h)
      PROVE  TypeOK'
  BY <1>8, RequestStepTypeOK DEF AbortIngest, IdleReq, TypeOK
<1>9. CASE Restart
  BY <1>9, RequestStepTypeOK DEF Restart, IdleReq, IdleReg, TypeOK
<1>10. CASE Tick
  BY <1>10, RequestStepTypeOK DEF Tick, TypeOK
<1>11. CASE UNCHANGED vars
  BY <1>11, RequestStepTypeOK DEF vars, TypeOK
<1>12. QED
  BY <1>1, <1>2, <1>3, <1>4, <1>5, <1>6, <1>7, <1>8, <1>9, <1>10, <1>11,
     CommitRegisterTypeOK, CommitIngestTypeOK DEF Next

\* Whatever the requests do and in whatever order they are served, the tables
\* of the store and the state of the requests keep their types.
THEOREM TypeCorrect == Spec => []TypeOK
BY InitTypeOK, NextTypeOK, PTL DEF Spec

-----------------------------------------------------------------------------
(***************************************************************************)
(* The inventory.  That the stored fingerprint describes the active rows   *)
(* is inductive only together with LockedReadIsCurrent: the transaction    *)
(* decides whether to synchronize from a fingerprint it read earlier.      *)
(***************************************************************************)

InventoryInv == TypeOK /\ LockedReadIsCurrent /\ FingerprintMatchesInventory

LEMMA InitInventoryInv == Init => InventoryInv
<1> SUFFICES ASSUME Init
             PROVE  InventoryInv
  OBVIOUS
<1>1. TypeOK
  BY InitTypeOK
<1>2. LockedReadIsCurrent
  BY DEF Init, LockedReadIsCurrent, IdleReq
<1>3. FingerprintMatchesInventory
  BY DEF Init, FingerprintMatchesInventory
<1>4. QED
  BY <1>1, <1>2, <1>3 DEF InventoryInv

\* The rows a synchronization leaves are those of the inventory.
LEMMA SyncedRowsMatch ==
    ASSUME TypeOK, NEW n \in Node, NEW inv \in Inventory, NEW at \in Nat, NEW k \in Key
    PROVE  IF k \in DOMAIN inv
           THEN /\ SyncedRows(n, inv, at)[k] # None
                /\ SyncedRows(n, inv, at)[k].attr = inv[k]
           ELSE SyncedRows(n, inv, at)[k] = None
<1>1. CASE k \in DOMAIN inv
  <2>1. SyncedRows(n, inv, at)[k] = NextRow(n, k, inv, at)
    BY <1>1 DEF SyncedRows
  <2>2. NextRow(n, k, inv, at).attr = inv[k]
    BY DEF NextRow
  <2>3. NextRow(n, k, inv, at) \in Row
    <3>1. inv[k] \in Attr
      BY <1>1, InventoryFields
    <3>2. CASE active[n][k] = None
      BY <3>1, <3>2 DEF NextRow, Row, TypeOK
    <3>3. CASE active[n][k] # None
      BY <3>1, <3>3 DEF NextRow, Row, TypeOK
    <3>4. QED
      BY <3>2, <3>3
  <2>4. QED
    BY <1>1, <2>1, <2>2, <2>3, NoneAssumption
<1>2. CASE k \notin DOMAIN inv
  BY <1>2 DEF SyncedRows
<1>3. QED
  BY <1>1, <1>2

\* What validation established still describes the rows the transaction reads.
LEMMA ActiveRowsMatch ==
    ASSUME InventoryInv, NEW h \in Handler, req[h].pc = "locked", NEW k \in Key
    PROVE  IF k \in DOMAIN req[h].payload.inventory
           THEN /\ ActiveRows(h)[k] # None
                /\ ActiveRows(h)[k].attr = req[h].payload.inventory[k]
           ELSE ActiveRows(h)[k] = None
<1> DEFINE p == req[h].payload
<1>1. /\ TypeOK /\ p \in Payload /\ p.agent \in Node /\ p.inventory \in Inventory
      /\ p.fingerprint = p.inventory /\ req[h].at \in Nat
      /\ req[h].seen = fingerprint[p.agent]
  BY PayloadFields DEF InventoryInv, TypeOK, LockedReadIsCurrent, ReqState
<1>2. CASE NeedsSync(h)
  BY <1>1, <1>2, SyncedRowsMatch DEF ActiveRows
<1>3. CASE ~NeedsSync(h)
  <2>1. fingerprint[p.agent] = p.inventory /\ fingerprint[p.agent] # None
    BY <1>1, <1>3, NoneAssumption DEF NeedsSync
  <2>2. ActiveRows(h) = active[p.agent]
    BY <1>3 DEF ActiveRows
  <2>3. QED
    BY <1>1, <2>1, <2>2 DEF InventoryInv, FingerprintMatchesInventory
<1>4. QED
  BY <1>2, <1>3

LEMMA CommitIngestInventoryInv ==
    ASSUME InventoryInv, NEW h \in Handler, CommitIngest(h)
    PROVE  LockedReadIsCurrent' /\ FingerprintMatchesInventory'
<1> DEFINE p == req[h].payload
           n == p.agent
<1>1. /\ TypeOK /\ p \in Payload /\ n \in Node /\ req[h].pc = "locked"
      /\ p.fingerprint = p.inventory /\ p.inventory \in Inventory /\ lock[n] = h
  BY CommitFacts, PayloadFields DEF InventoryInv, LockedReadIsCurrent, CommitIngest
<1>2. /\ fingerprint' = [fingerprint EXCEPT ![n] = p.fingerprint]
      /\ active' = [active EXCEPT ![n] = ActiveRows(h)]
      /\ lock' = [lock EXCEPT ![n] = None]
      /\ req' = [req EXCEPT ![h] = IdleReq]
  BY DEF CommitIngest
<1>3. LockedReadIsCurrent'
  <2> SUFFICES ASSUME NEW x \in Handler, req'[x].pc \in {"waiting", "locked"}
               PROVE  /\ req'[x].payload.fingerprint = req'[x].payload.inventory
                      /\ req'[x].payload.metrics \cup req'[x].payload.health
                           \subseteq DOMAIN req'[x].payload.inventory
                      /\ req'[x].pc = "locked" =>
                            /\ lock'[req'[x].payload.agent] = x
                            /\ req'[x].seen = fingerprint'[req'[x].payload.agent]
    BY DEF LockedReadIsCurrent
  <2>1. x # h /\ req'[x] = req[x]
    BY <1>1, <1>2 DEF IdleReq, TypeOK
  <2>2. req[x].pc = "locked" => req[x].payload.agent # n
    BY <1>1, <2>1 DEF InventoryInv, LockedReadIsCurrent
  <2>3. req[x].payload.agent \in Node
    BY <2>1, PayloadFields, <1>1 DEF TypeOK
  <2>4. QED
    BY <1>1, <1>2, <2>1, <2>2, <2>3 DEF InventoryInv, LockedReadIsCurrent, TypeOK
<1>4. FingerprintMatchesInventory'
  <2> SUFFICES ASSUME NEW m \in Node, fingerprint'[m] # None, NEW k \in Key
               PROVE  IF k \in DOMAIN fingerprint'[m]
                      THEN active'[m][k] # None /\ active'[m][k].attr = fingerprint'[m][k]
                      ELSE active'[m][k] = None
    BY DEF FingerprintMatchesInventory
  <2>1. CASE m = n
    <3>1. fingerprint'[m] = p.inventory /\ active'[m] = ActiveRows(h)
      BY <1>1, <1>2, <2>1 DEF TypeOK
    <3>2. QED
      BY <1>1, <3>1, ActiveRowsMatch
  <2>2. CASE m # n
    BY <1>1, <1>2, <2>2 DEF TypeOK, InventoryInv, FingerprintMatchesInventory
  <2>3. QED
    BY <2>1, <2>2
<1>5. QED
  BY <1>3, <1>4

LEMMA NextInventoryInv == InventoryInv /\ [Next]_vars => InventoryInv'
<1> SUFFICES ASSUME InventoryInv, [Next]_vars
             PROVE  InventoryInv'
  OBVIOUS
<1>1. TypeOK /\ LockedReadIsCurrent /\ FingerprintMatchesInventory /\ TypeOK'
  BY NextTypeOK DEF InventoryInv
<1> SUFFICES LockedReadIsCurrent' /\ FingerprintMatchesInventory'
  BY <1>1 DEF InventoryInv
<1>2. ASSUME NEW h \in Handler, CommitIngest(h)
      PROVE  LockedReadIsCurrent' /\ FingerprintMatchesInventory'
  BY <1>2, CommitIngestInventoryInv
<1>3. ASSUME UNCHANGED <<fingerprint, active>>
      PROVE  FingerprintMatchesInventory'
  BY <1>1, <1>3 DEF FingerprintMatchesInventory
<1>4. ASSUME UNCHANGED <<fingerprint, lock, req>>
      PROVE  LockedReadIsCurrent'
  BY <1>1, <1>4 DEF LockedReadIsCurrent
<1>5. ASSUME NEW a \in Admin, NEW n \in Node, BeginRegister(a, n)
      PROVE  LockedReadIsCurrent' /\ FingerprintMatchesInventory'
  BY <1>3, <1>4, <1>5 DEF BeginRegister, dbVars, invVars
<1>6. ASSUME NEW a \in Admin, NEW t \in TokenId, CommitRegister(a, t)
      PROVE  LockedReadIsCurrent' /\ FingerprintMatchesInventory'
  BY <1>3, <1>4, <1>6 DEF CommitRegister, invVars
<1>7. ASSUME NEW a \in Admin, AbortRegister(a)
      PROVE  LockedReadIsCurrent' /\ FingerprintMatchesInventory'
  BY <1>3, <1>4, <1>7 DEF AbortRegister, dbVars, invVars
<1>8. ASSUME NEW n \in Node, DisableNode(n)
      PROVE  LockedReadIsCurrent' /\ FingerprintMatchesInventory'
  BY <1>3, <1>4, <1>8 DEF DisableNode, invVars
<1>9. ASSUME NEW h \in Handler, NEW p \in Payload, NEW t \in TokenId, ReceiveReport(h, p, t)
      PROVE  LockedReadIsCurrent' /\ FingerprintMatchesInventory'
  <2>1. UNCHANGED <<fingerprint, active, lock>>
    BY <1>9 DEF ReceiveReport, dbVars, invVars
  <2>2. \A x \in Handler : req'[x].pc \in {"waiting", "locked"} => req'[x] = req[x]
    BY <1>1, <1>9 DEF ReceiveReport, TypeOK
  <2>3. QED
    BY <1>1, <1>3, <2>1, <2>2 DEF LockedReadIsCurrent
<1>10. ASSUME NEW h \in Handler, RejectReport(h)
       PROVE  LockedReadIsCurrent' /\ FingerprintMatchesInventory'
  <2>1. UNCHANGED <<fingerprint, active, lock>>
    BY <1>10 DEF RejectReport, dbVars, invVars
  <2>2. \A x \in Handler : req'[x].pc \in {"waiting", "locked"} => req'[x] = req[x]
    BY <1>1, <1>10 DEF RejectReport, IdleReq, TypeOK
  <2>3. QED
    BY <1>1, <1>3, <2>1, <2>2 DEF LockedReadIsCurrent
<1>11. ASSUME NEW h \in Handler, StartIngest(h)
       PROVE  LockedReadIsCurrent' /\ FingerprintMatchesInventory'
  <2>1. UNCHANGED <<fingerprint, active, lock>>
    BY <1>11 DEF StartIngest, dbVars, invVars
  <2>2. \A x \in Handler : x # h => req'[x] = req[x]
    BY <1>1, <1>11 DEF StartIngest, TypeOK
  <2>3. /\ req'[h].pc = "waiting" /\ req'[h].payload = req[h].payload
        /\ req[h].payload.fingerprint = req[h].payload.inventory
        /\ req[h].payload.metrics \cup req[h].payload.health \subseteq DOMAIN req[h].payload.inventory
    BY <1>1, <1>11 DEF StartIngest, Validate, Advance, TypeOK
  <2>4. QED
    BY <1>1, <1>3, <2>1, <2>2, <2>3 DEF LockedReadIsCurrent
<1>12. ASSUME NEW h \in Handler, LockNode(h)
       PROVE  LockedReadIsCurrent' /\ FingerprintMatchesInventory'
  <2> DEFINE n == req[h].payload.agent
  <2>1. UNCHANGED <<fingerprint, active>>
    BY <1>12 DEF LockNode, dbVars, invVars
  <2>2. n \in Node /\ lock[n] = None /\ lock' = [lock EXCEPT ![n] = h]
    BY <1>1, <1>12, PayloadFields DEF LockNode, RowFree, TypeOK
  <2>3. \A x \in Handler : x # h => req'[x] = req[x]
    BY <1>1, <1>12 DEF LockNode, TypeOK
  <2>4. /\ req[h].pc = "waiting" /\ req'[h].pc = "locked"
        /\ req'[h].payload = req[h].payload /\ req'[h].seen = fingerprint[n]
    BY <1>1, <1>12 DEF LockNode, Advance, TypeOK
  <2>5. \A x \in Handler : x # h /\ req[x].pc = "locked" => req[x].payload.agent # n
    BY <1>1, <2>2, NoneAssumption DEF LockedReadIsCurrent
  <2>6. \A x \in Handler : req[x].pc = "locked" => req[x].payload.agent \in Node
    BY <1>1, PayloadFields DEF TypeOK
  <2>7. ASSUME NEW x \in Handler, req'[x].pc \in {"waiting", "locked"}
        PROVE  /\ req'[x].payload.fingerprint = req'[x].payload.inventory
               /\ req'[x].payload.metrics \cup req'[x].payload.health
                    \subseteq DOMAIN req'[x].payload.inventory
    BY <1>1, <2>3, <2>4, <2>7 DEF LockedReadIsCurrent
  <2>8. ASSUME NEW x \in Handler, req'[x].pc = "locked"
        PROVE  /\ lock'[req'[x].payload.agent] = x
               /\ req'[x].seen = fingerprint'[req'[x].payload.agent]
    <3>1. CASE x = h
      BY <1>1, <2>1, <2>2, <2>4, <3>1 DEF TypeOK
    <3>2. CASE x # h
      BY <1>1, <2>1, <2>2, <2>3, <2>5, <2>6, <2>8, <3>2 DEF LockedReadIsCurrent, TypeOK
    <3>3. QED
      BY <3>1, <3>2
  <2>9. QED
    BY <1>3, <2>1, <2>7, <2>8 DEF LockedReadIsCurrent
<1>13. ASSUME NEW h \in Handler, AbortIngest(h)
       PROVE  LockedReadIsCurrent' /\ FingerprintMatchesInventory'
  <2>1. UNCHANGED <<fingerprint, active>>
    BY <1>13 DEF AbortIngest, dbVars, invVars
  <2>2. \A x \in Handler : req'[x].pc \in {"waiting", "locked"} => x # h /\ req'[x] = req[x]
    BY <1>1, <1>13 DEF AbortIngest, IdleReq, TypeOK
  <2>3. \A n \in Node : lock[n] # h => lock'[n] = lock[n]
    BY <1>13 DEF AbortIngest
  <2>4. \A x \in Handler : req[x].pc = "locked" => req[x].payload.agent \in Node
    BY <1>1, PayloadFields DEF TypeOK
  <2>5. QED
    BY <1>1, <1>3, <2>1, <2>2, <2>3, <2>4 DEF LockedReadIsCurrent
<1>14. CASE Restart
  BY <1>3, <1>14 DEF Restart, LockedReadIsCurrent, IdleReq, dbVars, invVars
<1>15. CASE Tick
  BY <1>3, <1>4, <1>15 DEF Tick, dbVars, invVars
<1>16. CASE UNCHANGED vars
  BY <1>3, <1>4, <1>16 DEF vars, dbVars, invVars
<1>17. QED
  BY <1>2, <1>5, <1>6, <1>7, <1>8, <1>9, <1>10, <1>11, <1>12, <1>13, <1>14, <1>15, <1>16 DEF Next

\* The stored fingerprint describes the active inventory rows in every reachable
\* state, so Ingest is right to skip syncInventory when it is unchanged.
THEOREM FingerprintCorrect == Spec => []FingerprintMatchesInventory
BY InitInventoryInv, NextInventoryInv, PTL DEF Spec, InventoryInv

\* A report transaction acts on the fingerprint that is stored.
THEOREM LockedReadCorrect == Spec => []LockedReadIsCurrent
BY InitInventoryInv, NextInventoryInv, PTL DEF Spec, InventoryInv

\* The ErrInvalidResource branches of Ingest are unreachable for validated reports.
THEOREM KeysResolve == Spec => []ReportedKeysResolve
<1>1. InventoryInv => ReportedKeysResolve
  <2> SUFFICES ASSUME InventoryInv, NEW h \in Handler, req[h].pc = "locked"
               PROVE  ResourcesResolve(h)
    BY DEF ReportedKeysResolve
  <2>1. /\ req[h].payload \in Payload
        /\ req[h].payload.metrics \cup req[h].payload.health \subseteq DOMAIN req[h].payload.inventory
        /\ req[h].payload.metrics \cup req[h].payload.health \subseteq Key
    BY PayloadFields DEF InventoryInv, LockedReadIsCurrent, TypeOK
  <2>2. \A k \in req[h].payload.metrics \cup req[h].payload.health : ActiveRows(h)[k] # None
    BY <2>1, ActiveRowsMatch
  <2>3. QED
    BY <2>2 DEF ResourcesResolve
<1>2. QED
  BY <1>1, InitInventoryInv, NextInventoryInv, PTL DEF Spec

-----------------------------------------------------------------------------
(***************************************************************************)
(* The time stamps and the tokens: what may be out of order is so by no    *)
(* more than the requests last.                                            *)
(***************************************************************************)

LEMMA NowGrows ==
    ASSUME TypeOK, [Next]_vars
    PROVE  now \in Nat /\ now' \in Nat /\ now <= now'
<1>1. now \in Nat
  BY DEF TypeOK
<1>2. now' = now \/ now' = now + 1
  BY DEF Next, vars, BeginRegister, CommitRegister, AbortRegister, DisableNode, ReceiveReport,
         RejectReport, StartIngest, LockNode, CommitIngest, AbortIngest, Restart, Tick
<1>3. QED
  BY <1>1, <1>2

\* What one step can do to a request.
LEMMA RequestSteps ==
    ASSUME TypeOK, [Next]_vars, NEW h \in Handler
    PROVE  \/ req'[h] = req[h]
           \/ req'[h] = IdleReq
           \/ \E p \in Payload, t \in TokenId : ReceiveReport(h, p, t)
           \/ StartIngest(h)
           \/ LockNode(h)
<1>1. ASSUME NEW x \in Handler, RejectReport(x) \/ CommitIngest(x) \/ AbortIngest(x)
      PROVE  req'[h] = req[h] \/ req'[h] = IdleReq
  <2>1. req' = [req EXCEPT ![x] = IdleReq]
    BY <1>1 DEF RejectReport, CommitIngest, AbortIngest
  <2>2. QED
    BY <2>1 DEF TypeOK
<1>2. ASSUME NEW x \in Handler, NEW p \in Payload, NEW t \in TokenId, ReceiveReport(x, p, t), x # h
      PROVE  req'[h] = req[h]
  BY <1>2 DEF ReceiveReport, TypeOK
<1>3. ASSUME NEW x \in Handler, StartIngest(x) \/ LockNode(x), x # h
      PROVE  req'[h] = req[h]
  BY <1>3 DEF StartIngest, LockNode, TypeOK
<1>4. CASE Restart
  BY <1>4 DEF Restart
<1>5. ASSUME NEW n \in Node, DisableNode(n)
      PROVE  req' = req
  BY <1>5 DEF DisableNode
<1>6. ASSUME Tick \/ UNCHANGED vars
      PROVE  req' = req
  BY <1>6 DEF Tick, vars
<1>7. ASSUME NEW a \in Admin, NEW n \in Node, BeginRegister(a, n)
      PROVE  req' = req
  BY <1>7 DEF BeginRegister
<1>8. ASSUME NEW a \in Admin, AbortRegister(a)
      PROVE  req' = req
  BY <1>8 DEF AbortRegister
<1>9. ASSUME NEW a \in Admin, NEW t \in TokenId, CommitRegister(a, t)
      PROVE  req' = req
  BY <1>9 DEF CommitRegister
<1>10. QED
  BY <1>1, <1>2, <1>3, <1>4, <1>5, <1>6, <1>7, <1>8, <1>9 DEF Next

\* The stamps of a request are taken in order and not in the future.
Stamps ==
    \A h \in Handler :
        /\ req[h].pc # "idle" => req[h].started <= now
        /\ req[h].pc \in {"waiting", "locked"} => req[h].started <= req[h].at /\ req[h].at <= now

LEMMA InitStamps == Init => Stamps
BY DEF Init, Stamps, IdleReq

LEMMA NextStamps ==
    ASSUME TypeOK, Stamps, [Next]_vars
    PROVE  Stamps'
<1> SUFFICES ASSUME NEW h \in Handler
             PROVE  /\ req'[h].pc # "idle" => req'[h].started <= now'
                    /\ req'[h].pc \in {"waiting", "locked"} =>
                          req'[h].started <= req'[h].at /\ req'[h].at <= now'
  BY DEF Stamps
<1>1. now \in Nat /\ now' \in Nat /\ now <= now'
  BY NowGrows
<1>2. req[h].started \in Nat /\ req[h].at \in Nat
  BY DEF TypeOK, ReqState
<1>3. CASE req'[h] = req[h]
  BY <1>1, <1>2, <1>3 DEF Stamps
<1>4. CASE req'[h] = IdleReq
  BY <1>4 DEF IdleReq
<1>5. ASSUME NEW p \in Payload, NEW t \in TokenId, ReceiveReport(h, p, t)
      PROVE  req'[h].pc = "authenticated" /\ req'[h].started = now /\ now' = now
  BY <1>5 DEF ReceiveReport, TypeOK
<1>6. CASE StartIngest(h)
  <2>1. req[h].pc = "authenticated" /\ req'[h].started = req[h].started /\ req'[h].at = now /\ now' = now
    BY <1>6 DEF StartIngest, Advance, TypeOK
  <2>2. QED
    BY <1>1, <1>2, <2>1 DEF Stamps
<1>7. CASE LockNode(h)
  <2>1. /\ req[h].pc = "waiting" /\ req'[h].started = req[h].started
        /\ req'[h].at = req[h].at /\ now' = now
    BY <1>7 DEF LockNode, Advance, TypeOK
  <2>2. QED
    BY <1>1, <1>2, <2>1 DEF Stamps
<1>8. CASE \E p \in Payload, t \in TokenId : ReceiveReport(h, p, t)
  BY <1>1, <1>5, <1>8
<1>9. QED
  BY <1>3, <1>4, <1>6, <1>7, <1>8, RequestSteps

\* A transaction that commits was stamped no longer ago than a request lasts.
LEMMA CommitInTime ==
    ASSUME TypeOK, Stamps, NEW h \in Handler, CommitIngest(h)
    PROVE  /\ req[h].at \in Nat /\ req[h].at <= now
           /\ now \in Nat /\ now <= req[h].at + ReqTimeout
           /\ now' = now
<1>1. req[h].at \in Nat /\ req[h].started \in Nat /\ now \in Nat /\ ReqTimeout \in Nat
  BY TimeAssumption DEF TypeOK, ReqState
<1>2. req[h].pc = "locked" /\ now <= req[h].started + ReqTimeout /\ now' = now
  BY DEF CommitIngest, WithinDeadline
<1>3. req[h].started <= req[h].at /\ req[h].at <= now
  BY <1>2 DEF Stamps
<1>4. QED
  BY <1>1, <1>2, <1>3

\* Which steps write last_seen_at, the samples and the inventory.
LEMMA OnlyCommitsWrite ==
    ASSUME [Next]_vars
    PROVE  \/ \E h \in Handler : CommitIngest(h)
           \/ /\ UNCHANGED <<samples, active, closed, gens>>
              /\ \/ UNCHANGED <<lastSeen, token>>
                 \/ \E a \in Admin, t \in TokenId : CommitRegister(a, t)
BY DEF Next, vars, dbVars, invVars, metricVars, BeginRegister, CommitRegister, AbortRegister,
       DisableNode, ReceiveReport, RejectReport, StartIngest, LockNode, AbortIngest, Restart, Tick

-----------------------------------------------------------------------------
(***************************************************************************)
(* last_seen_at.  The lag is bounded because no sample is from the future. *)
(***************************************************************************)

SeenInv ==
    /\ TypeOK
    /\ Stamps
    /\ \A n \in Node, b \in Bucket : samples[n][b] # None => samples[n][b].received <= now
    /\ LastSeenLag

LEMMA CommitSeen ==
    ASSUME SeenInv, NEW h \in Handler, CommitIngest(h),
           NEW n \in Node, NEW b \in Bucket, samples'[n][b] # None
    PROVE  /\ samples'[n][b].received <= now'
           /\ lastSeen'[n] # None
           /\ lastSeen'[n] + ReqTimeout >= samples'[n][b].received
<1> DEFINE p == req[h].payload
           at == req[h].at
           s == [bucket |-> BucketAt(p), from |-> p, received |-> at]
<1>1. TypeOK /\ Stamps /\ p \in Payload /\ p.agent \in Node /\ BucketAt(p) \in Bucket
  BY CommitFacts, BucketIsTime DEF SeenInv
<1>2. /\ at \in Nat /\ at <= now /\ now \in Nat /\ now <= at + ReqTimeout /\ now' = now
      /\ ReqTimeout \in Nat
  BY <1>1, CommitInTime, TimeAssumption
<1>3. /\ samples' = [samples EXCEPT ![p.agent][BucketAt(p)] = s]
      /\ lastSeen' = [lastSeen EXCEPT ![p.agent] = at]
  BY DEF CommitIngest
<1>4. CASE samples'[n][b] = samples[n][b]
  <2>1. samples[n][b] \in Sample /\ samples[n][b].received \in Nat /\ samples[n][b].received <= now
    BY <1>1, <1>4 DEF SeenInv, TypeOK, Sample
  <2>2. CASE n = p.agent
    <3>1. lastSeen'[n] = at
      BY <1>1, <1>3, <2>2 DEF TypeOK
    <3>2. at # None
      BY <1>2, NoneAssumption
    <3>3. QED
      BY <1>2, <1>4, <2>1, <3>1, <3>2
  <2>3. CASE n # p.agent
    <3>1. lastSeen'[n] = lastSeen[n]
      BY <1>1, <1>3, <2>3 DEF TypeOK
    <3>2. QED
      BY <1>2, <1>4, <2>1, <3>1 DEF SeenInv, LastSeenLag
  <2>4. QED
    BY <2>2, <2>3
<1>5. CASE samples'[n][b] # samples[n][b]
  <2>1. n = p.agent /\ b = BucketAt(p)
    BY <1>1, <1>3, <1>5 DEF TypeOK
  <2>2. samples'[n][b] = s /\ lastSeen'[n] = at
    BY <1>1, <1>3, <2>1 DEF TypeOK
  <2>3. at # None
    BY <1>2, NoneAssumption
  <2>4. QED
    BY <1>2, <2>2, <2>3
<1>6. QED
  BY <1>4, <1>5

LEMMA NextSeenInv == SeenInv /\ [Next]_vars => SeenInv'
<1> SUFFICES ASSUME SeenInv, [Next]_vars
             PROVE  SeenInv'
  OBVIOUS
<1>1. TypeOK /\ Stamps /\ TypeOK' /\ Stamps'
  BY NextTypeOK, NextStamps DEF SeenInv
<1> SUFFICES ASSUME NEW n \in Node, NEW b \in Bucket, samples'[n][b] # None
             PROVE  /\ samples'[n][b].received <= now'
                    /\ lastSeen'[n] # None
                    /\ lastSeen'[n] + ReqTimeout >= samples'[n][b].received
  BY <1>1 DEF SeenInv, LastSeenLag
<1>2. CASE \E h \in Handler : CommitIngest(h)
  BY <1>2, CommitSeen
<1>3. ASSUME UNCHANGED samples, lastSeen'[n] = lastSeen[n] \/ lastSeen[n] = None
      PROVE  /\ samples'[n][b].received <= now'
             /\ lastSeen'[n] # None
             /\ lastSeen'[n] + ReqTimeout >= samples'[n][b].received
  <2>1. samples[n][b] # None /\ samples[n][b].received \in Nat
    BY <1>1, <1>3 DEF TypeOK, Sample
  <2>2. lastSeen[n] # None /\ lastSeen'[n] = lastSeen[n]
    BY <1>3, <2>1 DEF SeenInv, LastSeenLag
  <2>3. samples[n][b].received <= now'
    BY <1>1, <2>1, NowGrows DEF SeenInv
  <2>4. QED
    BY <1>3, <2>1, <2>2, <2>3 DEF SeenInv, LastSeenLag
<1>4. ASSUME NEW a \in Admin, NEW t \in TokenId, CommitRegister(a, t)
      PROVE  lastSeen'[n] = lastSeen[n] \/ lastSeen[n] = None
  BY <1>1, <1>4 DEF CommitRegister, TypeOK
<1>5. QED
  BY <1>2, <1>3, <1>4, OnlyCommitsWrite

\* last_seen_at may move back, but stays within one request of every sample's
\* arrival.
THEOREM LastSeenBounded == Spec => []LastSeenLag
<1>1. Init => SeenInv
  <2> SUFFICES ASSUME Init
               PROVE  SeenInv
    OBVIOUS
  <2>1. TypeOK /\ Stamps
    BY InitTypeOK, InitStamps
  <2>2. \A n \in Node, b \in Bucket : samples[n][b] = None
    BY DEF Init
  <2>3. QED
    BY <2>1, <2>2 DEF SeenInv, LastSeenLag
<1>2. SeenInv => LastSeenLag
  BY DEF SeenInv
<1>3. QED
  BY <1>1, <1>2, NextSeenInv, PTL DEF Spec

-----------------------------------------------------------------------------
(***************************************************************************)
(* Tokens.                                                                 *)
(***************************************************************************)

\* A committing report changes nothing but last_used_at of its own token.
LEMMA CommitTokens ==
    ASSUME TypeOK, NEW h \in Handler, CommitIngest(h), NEW x \in TokenId
    PROVE  /\ (token'[x] = None <=> token[x] = None)
           /\ token[x] # None =>
                /\ token'[x].node = token[x].node
                /\ token'[x].revoked = token[x].revoked
                /\ token'[x].used = IF x = req[h].token THEN req[h].at ELSE token[x].used
<1> DEFINE t == req[h].token
           row == [node |-> token[t].node, created |-> token[t].created,
                   revoked |-> token[t].revoked, used |-> req[h].at]
<1>1. t \in TokenId /\ token[t] \in TokenRow /\ req[h].at \in Nat
  BY DEF CommitIngest, TypeOK, ReqState
<1>2. token' = [token EXCEPT ![t] = row]
  BY DEF CommitIngest, Used
<1>3. row \in TokenRow
  BY <1>1 DEF TokenRow
<1>4. row # None /\ token[t] # None
  BY <1>1, <1>3, NoneAssumption
<1>5. CASE x = t
  <2>1. token'[x] = row
    BY <1>1, <1>2, <1>5 DEF TypeOK
  <2>2. QED
    BY <1>4, <1>5, <2>1
<1>6. CASE x # t
  <2>1. token'[x] = token[x]
    BY <1>2, <1>6 DEF TypeOK
  <2>2. QED
    BY <1>6, <2>1
<1>7. QED
  BY <1>5, <1>6

\* A registration revokes the node's live tokens and adds one.
LEMMA RegisterTokens ==
    ASSUME TypeOK, NEW a \in Admin, NEW t \in TokenId, CommitRegister(a, t), NEW x \in TokenId
    PROVE  LET n == reg[a].node
               at == reg[a].begun
           IN  /\ token[t] = None
               /\ x = t => /\ token'[x].node = n /\ token'[x].revoked = None
                           /\ token'[x].used = None
               /\ x # t /\ x \in Unrevoked(n) =>
                     /\ token'[x].node = n /\ token'[x].revoked = at
                     /\ token'[x].used = token[x].used
               /\ x # t /\ x \notin Unrevoked(n) => token'[x] = token[x]
<1>1. token[t] = None /\ token' = RotatedTokens(reg[a].node, t, reg[a].begun)
  BY DEF CommitRegister
<1>2. x # t /\ x \in Unrevoked(reg[a].node) => token'[x] = Revoked(token[x], reg[a].begun)
  BY <1>1 DEF RotatedTokens
<1>3. x \in Unrevoked(reg[a].node) => token[x].node = reg[a].node
  BY DEF Unrevoked
<1>4. x = t => token'[x] = [node |-> reg[a].node, created |-> reg[a].begun,
                            revoked |-> None, used |-> None]
  BY <1>1 DEF RotatedTokens
<1>5. QED
  BY <1>1, <1>2, <1>3, <1>4 DEF RotatedTokens, Revoked

LEMMA NextOneLiveToken ==
    ASSUME TypeOK, OneLiveToken, [Next]_vars
    PROVE  OneLiveToken'
<1> SUFFICES ASSUME NEW y \in TokenId, NEW x \in TokenId, y # x,
                    token'[y] # None, token'[x] # None, token'[y].node = token'[x].node
             PROVE  token'[y].revoked # None \/ token'[x].revoked # None
  BY DEF OneLiveToken
<1>1. CASE UNCHANGED token
  BY <1>1 DEF OneLiveToken
<1>2. ASSUME NEW h \in Handler, CommitIngest(h)
      PROVE  token'[y].revoked # None \/ token'[x].revoked # None
  <2>1. /\ token[x] # None /\ token'[x].node = token[x].node /\ token'[x].revoked = token[x].revoked
        /\ token[y] # None /\ token'[y].node = token[y].node /\ token'[y].revoked = token[y].revoked
    BY <1>2, CommitTokens
  <2>2. QED
    BY <2>1 DEF OneLiveToken
<1>3. ASSUME NEW a \in Admin, NEW t \in TokenId, CommitRegister(a, t)
      PROVE  token'[y].revoked # None \/ token'[x].revoked # None
  <2> DEFINE n == reg[a].node
  <2>1. reg[a].begun \in Nat /\ reg[a].begun # None
    BY NoneAssumption DEF TypeOK, RegState
  \* Whatever else is a token of node n is revoked now.
  <2>2. ASSUME NEW z \in TokenId, z # t, token'[z] # None, token'[z].node = n
        PROVE  token'[z].revoked # None
    <3>1. CASE z \in Unrevoked(n)
      BY <1>3, <2>1, <2>2, <3>1, RegisterTokens
    <3>2. CASE z \notin Unrevoked(n)
      <4>1. token'[z] = token[z]
        BY <1>3, <2>2, <3>2, RegisterTokens
      <4>2. QED
        BY <2>2, <3>2, <4>1 DEF Unrevoked
    <3>3. QED
      BY <3>1, <3>2
  <2>3. token'[t].node = n
    BY <1>3, RegisterTokens
  <2>4. CASE y = t \/ x = t
    BY <2>2, <2>3, <2>4
  <2>5. CASE y # t /\ x # t
    <3>1. ASSUME NEW z \in TokenId, z # t, token'[z] # None, token'[z].revoked = None
          PROVE  token'[z] = token[z]
      BY <1>3, <2>1, <3>1, RegisterTokens
    <3>2. QED
      BY <2>5, <3>1 DEF OneLiveToken
  <2>6. QED
    BY <2>4, <2>5
<1>4. QED
  BY <1>1, <1>2, <1>3, OnlyCommitsWrite

\* However registrations overlap, a node has at most one token that is not
\* revoked.
THEOREM OneTokenLive == Spec => []OneLiveToken
<1>1. Init => TypeOK /\ OneLiveToken
  BY InitTypeOK DEF Init, OneLiveToken
<1>2. TypeOK /\ OneLiveToken /\ [Next]_vars => TypeOK' /\ OneLiveToken'
  BY NextTypeOK, NextOneLiveToken
<1>3. QED
  BY <1>1, <1>2, PTL DEF Spec

\* A request in flight whose token is revoked meanwhile arrived before the
\* registration that revoked it had committed.
RevokedInFlight ==
    \A h \in Handler : req[h].pc # "idle" /\ token[req[h].token].revoked # None =>
        req[h].started <= token[req[h].token].revoked + RegTimeout

UsedInPast ==
    \A t \in TokenId : token[t] # None /\ token[t].used # None => token[t].used <= now

TokenInv ==
    /\ TypeOK
    /\ Stamps
    /\ UsedInPast
    /\ RevokedInFlight
    /\ RevokedTokenLapses

LEMMA TokenTypes ==
    ASSUME TypeOK, NEW t \in TokenId, token[t] # None
    PROVE  token[t].revoked \in Nat \cup {None} /\ token[t].used \in Nat \cup {None}
BY DEF TypeOK, TokenRow

LEMMA BusyToken ==
    ASSUME TypeOK, NEW h \in Handler, req[h].pc # "idle"
    PROVE  /\ req[h].token \in TokenId /\ token[req[h].token] # None
           /\ req[h].started \in Nat /\ req[h].at \in Nat
BY NoneAssumption DEF TypeOK, ReqState

\* The registration that began at most RegTimeout ago.
LEMMA RegisterInTime ==
    ASSUME TypeOK, NEW a \in Admin, NEW t \in TokenId, CommitRegister(a, t)
    PROVE  /\ reg[a].begun \in Nat /\ reg[a].begun # None /\ RegTimeout \in Nat /\ now \in Nat
           /\ now <= reg[a].begun + RegTimeout
           /\ now' = now /\ req' = req
BY NoneAssumption, TimeAssumption DEF CommitRegister, TypeOK, RegState

LEMMA NextUsedInPast ==
    ASSUME TokenInv, [Next]_vars
    PROVE  UsedInPast'
<1> SUFFICES ASSUME NEW x \in TokenId, token'[x] # None, token'[x].used # None
             PROVE  token'[x].used <= now'
  BY DEF UsedInPast
<1>1. TypeOK /\ Stamps /\ UsedInPast
  BY DEF TokenInv
<1>2. now \in Nat /\ now' \in Nat /\ now <= now'
  BY <1>1, NowGrows
<1>3. ASSUME token[x] # None, token'[x].used = token[x].used
      PROVE  token'[x].used <= now'
  <2>1. token[x].used \in Nat /\ token[x].used <= now
    BY <1>1, <1>3, TokenTypes DEF UsedInPast
  <2>2. QED
    BY <1>2, <1>3, <2>1
<1>4. CASE UNCHANGED token
  BY <1>3, <1>4
<1>5. ASSUME NEW h \in Handler, CommitIngest(h)
      PROVE  token'[x].used <= now'
  <2>1. token[x] # None /\ token'[x].used = IF x = req[h].token THEN req[h].at ELSE token[x].used
    BY <1>1, <1>5, CommitTokens
  <2>2. req[h].at <= now'
    BY <1>1, <1>5, CommitInTime
  <2>3. QED
    BY <1>3, <2>1, <2>2
<1>6. ASSUME NEW a \in Admin, NEW t \in TokenId, CommitRegister(a, t)
      PROVE  token'[x].used <= now'
  <2>1. x # t
    BY <1>1, <1>6, RegisterTokens
  <2>2. token'[x].used = token[x].used /\ token[x] # None
    BY <1>1, <1>6, <2>1, RegisterTokens DEF Unrevoked
  <2>3. QED
    BY <1>3, <2>2
<1>7. QED
  BY <1>4, <1>5, <1>6, OnlyCommitsWrite

LEMMA NextRevokedTokenLapses ==
    ASSUME TokenInv, [Next]_vars
    PROVE  RevokedTokenLapses'
<1> SUFFICES ASSUME NEW x \in TokenId, token'[x] # None, token'[x].revoked # None, token'[x].used # None
             PROVE  token'[x].used <= token'[x].revoked + RegTimeout + ReqTimeout
  BY DEF RevokedTokenLapses
<1>1. TypeOK /\ Stamps /\ UsedInPast /\ RevokedInFlight /\ RevokedTokenLapses
  BY DEF TokenInv
<1>2. RegTimeout \in Nat /\ ReqTimeout \in Nat /\ now \in Nat
  BY <1>1, TimeAssumption DEF TypeOK
<1>3. ASSUME token[x] # None, token'[x].used = token[x].used, token'[x].revoked = token[x].revoked
      PROVE  token'[x].used <= token'[x].revoked + RegTimeout + ReqTimeout
  BY <1>1, <1>3 DEF RevokedTokenLapses
<1>4. CASE UNCHANGED token
  BY <1>3, <1>4
<1>5. ASSUME NEW h \in Handler, CommitIngest(h)
      PROVE  token'[x].used <= token'[x].revoked + RegTimeout + ReqTimeout
  <2>1. /\ token[x] # None /\ token'[x].revoked = token[x].revoked
        /\ token'[x].used = IF x = req[h].token THEN req[h].at ELSE token[x].used
    BY <1>1, <1>5, CommitTokens
  <2>2. CASE x = req[h].token
    <3>1. req[h].pc # "idle" /\ now <= req[h].started + ReqTimeout
      BY <1>5 DEF CommitIngest, WithinDeadline
    <3>2. req[h].at \in Nat /\ req[h].at <= now /\ req[h].started \in Nat
      BY <1>1, <1>5, <3>1, BusyToken, CommitInTime
    <3>3. token[x].revoked \in Nat /\ req[h].started <= token[x].revoked + RegTimeout
      BY <1>1, <2>1, <2>2, <3>1, TokenTypes DEF RevokedInFlight
    <3>4. token'[x].used = req[h].at /\ token'[x].revoked = token[x].revoked
      BY <2>1, <2>2
    <3>5. req[h].at <= token[x].revoked + RegTimeout + ReqTimeout
      BY <1>2, <3>1, <3>2, <3>3
    <3>6. QED
      BY <3>4, <3>5
  <2>3. CASE x # req[h].token
    BY <1>3, <2>1, <2>3
  <2>4. QED
    BY <2>2, <2>3
<1>6. ASSUME NEW a \in Admin, NEW t \in TokenId, CommitRegister(a, t)
      PROVE  token'[x].used <= token'[x].revoked + RegTimeout + ReqTimeout
  <2>1. x # t
    BY <1>1, <1>6, RegisterTokens
  <2>2. CASE x \in Unrevoked(reg[a].node)
    <3>1. token'[x].used = token[x].used /\ token[x] # None /\ token'[x].revoked = reg[a].begun
      BY <1>1, <1>6, <2>1, <2>2, RegisterTokens DEF Unrevoked
    <3>2. token[x].used \in Nat /\ token[x].used <= now
      BY <1>1, <3>1, TokenTypes DEF UsedInPast
    <3>3. reg[a].begun \in Nat /\ now <= reg[a].begun + RegTimeout
      BY <1>1, <1>6, RegisterInTime
    <3>4. token[x].used <= reg[a].begun + RegTimeout + ReqTimeout
      BY <1>2, <3>2, <3>3
    <3>5. QED
      BY <3>1, <3>4
  <2>3. CASE x \notin Unrevoked(reg[a].node)
    <3>1. token'[x] = token[x]
      BY <1>1, <1>6, <2>1, <2>3, RegisterTokens
    <3>2. QED
      BY <1>3, <3>1
  <2>4. QED
    BY <2>2, <2>3
<1>7. QED
  BY <1>4, <1>5, <1>6, OnlyCommitsWrite

LEMMA NextRevokedInFlight ==
    ASSUME TokenInv, TypeOK', [Next]_vars
    PROVE  RevokedInFlight'
<1> SUFFICES ASSUME NEW h \in Handler, req'[h].pc # "idle", token'[req'[h].token].revoked # None
             PROVE  req'[h].started <= token'[req'[h].token].revoked + RegTimeout
  BY DEF RevokedInFlight
<1>1. TypeOK /\ Stamps /\ UsedInPast /\ RevokedInFlight /\ RevokedTokenLapses
  BY DEF TokenInv
<1>2. RegTimeout \in Nat /\ now \in Nat
  BY <1>1, TimeAssumption DEF TypeOK
\* The request was in flight already: its token was accepted earlier.
<1>3. ASSUME req[h].pc # "idle", req'[h].token = req[h].token, req'[h].started = req[h].started
      PROVE  req'[h].started <= token'[req'[h].token].revoked + RegTimeout
  <2> DEFINE x == req[h].token
  <2>1. x \in TokenId /\ token[x] # None /\ req[h].started \in Nat
    BY <1>1, <1>3, BusyToken
  <2>2. CASE token'[x].revoked = token[x].revoked
    BY <1>1, <1>3, <2>2 DEF RevokedInFlight
  <2>3. ASSUME NEW a \in Admin, NEW t \in TokenId, CommitRegister(a, t),
               token'[x].revoked # token[x].revoked
        PROVE  req[h].started <= token'[x].revoked + RegTimeout
    <3>1. x # t
      BY <1>1, <2>1, <2>3, RegisterTokens
    <3>2. token'[x].revoked = reg[a].begun
      BY <1>1, <2>1, <2>3, <3>1, RegisterTokens
    <3>3. reg[a].begun \in Nat /\ now <= reg[a].begun + RegTimeout
      BY <1>1, <2>3, RegisterInTime
    <3>4. req[h].started <= now
      BY <1>1, <1>3 DEF Stamps
    <3>5. req[h].started <= reg[a].begun + RegTimeout
      BY <1>2, <2>1, <3>3, <3>4
    <3>6. QED
      BY <3>2, <3>5
  <2>4. CASE \E g \in Handler : CommitIngest(g)
    <3>1. token'[x].revoked = token[x].revoked
      BY <1>1, <2>1, <2>4, CommitTokens
    <3>2. QED
      BY <2>2, <3>1
  <2>5. QED
    BY <1>3, <2>2, <2>3, <2>4, OnlyCommitsWrite
<1>4. CASE req'[h] = req[h]
  BY <1>3, <1>4
<1>5. CASE req'[h] = IdleReq
  BY <1>5 DEF IdleReq
<1>6. CASE StartIngest(h)
  <2>1. req[h].pc # "idle" /\ req'[h].token = req[h].token /\ req'[h].started = req[h].started
    BY <1>1, <1>6 DEF StartIngest, Advance, TypeOK
  <2>2. QED
    BY <1>3, <2>1
<1>7. CASE LockNode(h)
  <2>1. req[h].pc # "idle" /\ req'[h].token = req[h].token /\ req'[h].started = req[h].started
    BY <1>1, <1>7 DEF LockNode, Advance, TypeOK
  <2>2. QED
    BY <1>3, <2>1
<1>8. ASSUME NEW p \in Payload, NEW t \in TokenId, ReceiveReport(h, p, t)
      PROVE  FALSE
  <2>1. req'[h].token = t /\ token' = token /\ token[t].revoked = None
    BY <1>1, <1>8 DEF ReceiveReport, AuthenticateToken, dbVars, TypeOK
  <2>2. QED
    BY <2>1
<1>9. QED
  BY <1>1, <1>4, <1>5, <1>6, <1>7, <1>8, RequestSteps

\* A revoked token is used for no longer than one registration and one report
\* request last, although no request looks at it again after authentication.
THEOREM RevokedTokensLapse == Spec => []RevokedTokenLapses
<1>1. Init => TokenInv
  <2> SUFFICES ASSUME Init
               PROVE  TokenInv
    OBVIOUS
  <2>1. TypeOK /\ Stamps
    BY InitTypeOK, InitStamps
  <2>2. \A t \in TokenId : token[t] = None
    BY DEF Init
  <2>3. \A h \in Handler : req[h].pc = "idle"
    BY DEF Init, IdleReq
  <2>4. QED
    BY <2>1, <2>2, <2>3 DEF TokenInv, UsedInPast, RevokedInFlight, RevokedTokenLapses
<1>2. TokenInv /\ [Next]_vars => TokenInv'
  <2> SUFFICES ASSUME TokenInv, [Next]_vars
               PROVE  TokenInv'
    OBVIOUS
  <2>1. TypeOK' /\ Stamps'
    BY NextTypeOK, NextStamps DEF TokenInv
  <2>2. UsedInPast' /\ RevokedInFlight' /\ RevokedTokenLapses'
    BY <2>1, NextUsedInPast, NextRevokedInFlight, NextRevokedTokenLapses
  <2>3. QED
    BY <2>1, <2>2 DEF TokenInv
<1>3. TokenInv => RevokedTokenLapses
  BY DEF TokenInv
<1>4. QED
  BY <1>1, <1>2, <1>3, PTL DEF Spec

-----------------------------------------------------------------------------
(***************************************************************************)
(* Observation periods.                                                    *)
(***************************************************************************)

\* What a committing report can do to the inventory row of one key: keep it,
\* open a new one, or leave the key without one.
RowKept(n, k) ==
    /\ active[n][k] # None
    /\ active'[n][k].gen = active[n][k].gen /\ active'[n][k].first = active[n][k].first
    /\ gens'[n][k] = gens[n][k]

RowOpened(n, k, at) ==
    /\ active[n][k] = None
    /\ active'[n][k].gen = gens[n][k] + 1 /\ active'[n][k].first = at
    /\ gens'[n][k] = gens[n][k] + 1

RowGone(n, k) == active'[n][k] = None /\ gens'[n][k] = gens[n][k]

LEMMA CommitRows ==
    ASSUME TypeOK, NEW h \in Handler, CommitIngest(h), NEW n \in Node, NEW k \in Key
    PROVE  RowKept(n, k) \/ RowOpened(n, k, req[h].at) \/ RowGone(n, k)
<1> DEFINE p == req[h].payload
           at == req[h].at
<1>1. p.agent \in Node
  BY CommitFacts
<1>2. /\ active' = [active EXCEPT ![p.agent] = ActiveRows(h)]
      /\ gens' = [gens EXCEPT ![p.agent] =
                    IF NeedsSync(h) THEN SyncedGens(p.agent, p.inventory) ELSE gens[p.agent]]
  BY DEF CommitIngest
<1>3. CASE n # p.agent \/ ~NeedsSync(h)
  <2>1. active'[n] = active[n] /\ gens'[n] = gens[n]
    BY <1>1, <1>2, <1>3 DEF TypeOK, ActiveRows
  <2>2. QED
    BY <2>1 DEF RowKept, RowGone
<1>4. CASE n = p.agent /\ NeedsSync(h)
  <2>1. active'[n] = SyncedRows(n, p.inventory, at) /\ gens'[n] = SyncedGens(n, p.inventory)
    BY <1>1, <1>2, <1>4 DEF TypeOK, ActiveRows
  <2>2. gens'[n][k] = IF k \in DOMAIN p.inventory /\ active[n][k] = None
                      THEN gens[n][k] + 1 ELSE gens[n][k]
    BY <2>1 DEF SyncedGens
  <2>3. active'[n][k] = IF k \in DOMAIN p.inventory THEN NextRow(n, k, p.inventory, at) ELSE None
    BY <2>1 DEF SyncedRows
  <2>4. CASE k \notin DOMAIN p.inventory
    BY <2>2, <2>3, <2>4 DEF RowGone
  <2>5. CASE k \in DOMAIN p.inventory /\ active[n][k] = None
    <3>1. active'[n][k] = [gen |-> gens[n][k] + 1, attr |-> p.inventory[k], first |-> at]
      BY <2>3, <2>5 DEF NextRow
    <3>2. QED
      BY <2>2, <2>5, <3>1 DEF RowOpened
  <2>6. CASE k \in DOMAIN p.inventory /\ active[n][k] # None
    <3>1. active'[n][k] = [gen |-> active[n][k].gen, attr |-> p.inventory[k],
                           first |-> active[n][k].first]
      BY <2>3, <2>6 DEF NextRow
    <3>2. QED
      BY <2>2, <2>6, <3>1 DEF RowKept
  <2>7. QED
    BY <2>4, <2>5, <2>6
<1>5. QED
  BY <1>3, <1>4

\* The rows a committing report closes were active until then.
JustClosed(n, r, at) ==
    /\ active[n][r.key] # None /\ active'[n][r.key] = None
    /\ r.gen = active[n][r.key].gen /\ r.first = active[n][r.key].first
    /\ r.removed = at

LEMMA CommitCloses ==
    ASSUME TypeOK, NEW h \in Handler, CommitIngest(h), NEW n \in Node, NEW r \in closed'[n]
    PROVE  r \in closed[n] \/ JustClosed(n, r, req[h].at)
<1> DEFINE p == req[h].payload
           at == req[h].at
<1>1. p.agent \in Node
  BY CommitFacts
<1>2. /\ active' = [active EXCEPT ![p.agent] = ActiveRows(h)]
      /\ closed' = [closed EXCEPT ![p.agent] =
            IF NeedsSync(h) THEN closed[p.agent] \cup RemovedRows(p.agent, p.inventory, at)
                            ELSE closed[p.agent]]
  BY DEF CommitIngest
<1>3. CASE n # p.agent \/ ~NeedsSync(h)
  BY <1>1, <1>2, <1>3 DEF TypeOK
<1>4. CASE n = p.agent /\ NeedsSync(h)
  <2>1. /\ active'[n] = SyncedRows(n, p.inventory, at)
        /\ closed'[n] = closed[n] \cup RemovedRows(n, p.inventory, at)
    BY <1>1, <1>2, <1>4 DEF TypeOK, ActiveRows
  <2>2. ASSUME r \in RemovedRows(n, p.inventory, at)
        PROVE  JustClosed(n, r, at)
    <3>1. PICK k \in Key \ DOMAIN p.inventory :
              /\ active[n][k] # None
              /\ r = [key |-> k, gen |-> active[n][k].gen, first |-> active[n][k].first,
                      removed |-> at]
      BY <2>2 DEF RemovedRows
    <3>2. active'[n][k] = None
      BY <2>1, <3>1 DEF SyncedRows
    <3>3. QED
      BY <3>1, <3>2 DEF JustClosed
  <2>3. QED
    BY <2>1, <2>2
<1>5. QED
  BY <1>3, <1>4

\* Closed rows are of the past, and gens counts the rows of a key.
GensCount ==
    \A n \in Node :
        /\ \A r \in closed[n] : r.removed <= now /\ r.gen <= gens[n][r.key]
        /\ \A k \in Key : active[n][k] # None => active[n][k].gen <= gens[n][k]

PeriodInv ==
    /\ TypeOK
    /\ Stamps
    /\ GensCount
    /\ PeriodsOverlapBounded

LEMMA RowTypes ==
    ASSUME TypeOK, NEW n \in Node
    PROVE  /\ \A k \in Key : gens[n][k] \in Nat
           /\ \A k \in Key : active[n][k] # None => active[n][k].gen \in Nat /\ active[n][k].first \in Nat
           /\ \A r \in closed[n] : r.key \in Key /\ r.gen \in Nat /\ r.first \in Nat /\ r.removed \in Nat
<1>1. gens[n] \in [Key -> Nat] /\ active[n] \in [Key -> Row \cup {None}]
  BY DEF TypeOK
<1>2. closed[n] \in SUBSET ClosedRow
  BY DEF TypeOK
<1>3. QED
  BY <1>1, <1>2 DEF Row, ClosedRow

LEMMA RowTypesPrime ==
    ASSUME TypeOK', NEW n \in Node
    PROVE  \A r \in closed'[n] : r.key \in Key
<1>1. closed'[n] \in SUBSET ClosedRow
  BY DEF TypeOK
<1>2. QED
  BY <1>1 DEF ClosedRow

LEMMA CommitGensCount ==
    ASSUME PeriodInv, NEW h \in Handler, CommitIngest(h), TypeOK'
    PROVE  GensCount'
<1>1. TypeOK /\ Stamps /\ GensCount
  BY DEF PeriodInv
<1>2. req[h].at \in Nat /\ req[h].at <= now /\ now \in Nat /\ now' = now
  BY <1>1, CommitInTime
<1> SUFFICES ASSUME NEW n \in Node
             PROVE  /\ \A r \in closed'[n] : r.removed <= now' /\ r.gen <= gens'[n][r.key]
                    /\ \A k \in Key : active'[n][k] # None => active'[n][k].gen <= gens'[n][k]
  BY DEF GensCount
<1>3. ASSUME NEW k \in Key
      PROVE  /\ gens[n][k] \in Nat /\ gens'[n][k] \in Nat /\ gens[n][k] <= gens'[n][k]
             /\ active'[n][k] # None => active'[n][k].gen <= gens'[n][k]
  <2>2. gens[n][k] \in Nat
    BY <1>1, RowTypes
  <2>3. CASE RowKept(n, k)
    BY <1>1, <2>2, <2>3 DEF RowKept, GensCount
  <2>4. CASE RowOpened(n, k, req[h].at)
    BY <2>2, <2>4 DEF RowOpened
  <2>5. CASE RowGone(n, k)
    BY <2>2, <2>5 DEF RowGone
  <2>6. QED
    BY <1>1, <2>3, <2>4, <2>5, CommitRows
<1>4. ASSUME NEW r \in closed'[n]
      PROVE  r.removed <= now' /\ r.gen <= gens'[n][r.key]
  <2>1. CASE r \in closed[n]
    <3>1. r.key \in Key /\ r.gen \in Nat /\ r.removed <= now /\ r.gen <= gens[n][r.key]
      BY <1>1, <2>1, RowTypes DEF GensCount
    <3>2. gens[n][r.key] \in Nat /\ gens'[n][r.key] \in Nat /\ gens[n][r.key] <= gens'[n][r.key]
      BY <1>3, <3>1
    <3>3. QED
      BY <1>2, <3>1, <3>2
  <2>2. CASE JustClosed(n, r, req[h].at)
    <3>1. r.key \in Key
      BY <1>4, RowTypesPrime
    <3>2. r.gen \in Nat /\ r.gen <= gens[n][r.key]
      BY <1>1, <2>2, <3>1, RowTypes DEF JustClosed, GensCount
    <3>3. gens[n][r.key] \in Nat /\ gens'[n][r.key] \in Nat /\ gens[n][r.key] <= gens'[n][r.key]
      BY <1>3, <3>1
    <3>4. r.removed <= now'
      BY <1>2, <2>2 DEF JustClosed
    <3>5. QED
      BY <3>2, <3>3, <3>4
  <2>3. QED
    BY <1>1, <2>1, <2>2, CommitCloses
<1>5. QED
  BY <1>3, <1>4

LEMMA CommitPeriods ==
    ASSUME PeriodInv, NEW h \in Handler, CommitIngest(h), TypeOK'
    PROVE  PeriodsOverlapBounded'
<1> DEFINE at == req[h].at
<1>1. TypeOK /\ Stamps /\ GensCount /\ PeriodsOverlapBounded
  BY DEF PeriodInv
<1>2. at \in Nat /\ at <= now /\ now \in Nat /\ now <= at + ReqTimeout /\ ReqTimeout \in Nat
  BY <1>1, CommitInTime, TimeAssumption
<1> SUFFICES ASSUME NEW n \in Node, NEW r \in closed'[n]
             PROVE  /\ active'[n][r.key] # None =>
                        /\ active'[n][r.key].gen > r.gen
                        /\ active'[n][r.key].first + ReqTimeout >= r.removed
                    /\ \A x \in closed'[n] : x.key = r.key /\ x.gen > r.gen =>
                        x.first + ReqTimeout >= r.removed
  BY DEF PeriodsOverlapBounded
<1>3. r.key \in Key /\ gens[n][r.key] \in Nat
  BY <1>1, RowTypes, RowTypesPrime
<1>4. ASSUME active'[n][r.key] # None
      PROVE  /\ active'[n][r.key].gen > r.gen
             /\ active'[n][r.key].first + ReqTimeout >= r.removed
  <2>1. r \in closed[n]
    BY <1>1, <1>4, CommitCloses DEF JustClosed
  <2>2. r.gen \in Nat /\ r.removed \in Nat /\ r.removed <= now /\ r.gen <= gens[n][r.key]
    BY <1>1, <2>1, RowTypes DEF GensCount
  <2>3. CASE RowKept(n, r.key)
    BY <1>1, <2>1, <2>3 DEF RowKept, PeriodsOverlapBounded
  <2>4. CASE RowOpened(n, r.key, at)
    BY <1>2, <1>3, <2>2, <2>4 DEF RowOpened
  <2>5. CASE RowGone(n, r.key)
    BY <1>4, <2>5 DEF RowGone
  <2>6. QED
    BY <1>1, <1>3, <2>3, <2>4, <2>5, CommitRows
<1>5. ASSUME NEW x \in closed'[n], x.key = r.key, x.gen > r.gen
      PROVE  x.first + ReqTimeout >= r.removed
  <2>1. CASE x \in closed[n] /\ r \in closed[n]
    BY <1>1, <1>5, <2>1 DEF PeriodsOverlapBounded
  \* The active row of the key, closed now, was newer than r.
  <2>2. CASE JustClosed(n, x, at) /\ r \in closed[n]
    BY <1>1, <1>5, <2>2 DEF JustClosed, PeriodsOverlapBounded
  \* The row closed now is the newest: x cannot be newer.
  <2>3. CASE x \in closed[n] /\ JustClosed(n, r, at)
    <3>1. active[n][r.key].gen > x.gen
      BY <1>1, <1>5, <2>3 DEF JustClosed, PeriodsOverlapBounded
    <3>2. r.gen > x.gen /\ x.gen \in Nat /\ r.gen \in Nat
      BY <1>1, <1>3, <2>3, <3>1, RowTypes DEF JustClosed
    <3>3. QED
      BY <1>5, <3>2
  <2>4. CASE JustClosed(n, x, at) /\ JustClosed(n, r, at)
    <3>1. x.gen = r.gen /\ r.gen \in Nat
      BY <1>1, <1>3, <1>5, <2>4, RowTypes DEF JustClosed
    <3>2. QED
      BY <1>5, <3>1
  <2>5. QED
    BY <1>1, <1>5, <2>1, <2>2, <2>3, <2>4, CommitCloses
<1>6. QED
  BY <1>4, <1>5

LEMMA NextPeriodInv == PeriodInv /\ [Next]_vars => PeriodInv'
<1> SUFFICES ASSUME PeriodInv, [Next]_vars
             PROVE  PeriodInv'
  OBVIOUS
<1>1. TypeOK /\ Stamps /\ GensCount /\ PeriodsOverlapBounded
  BY DEF PeriodInv
<1>2. TypeOK' /\ Stamps'
  BY <1>1, NextTypeOK, NextStamps
<1>3. ASSUME NEW h \in Handler, CommitIngest(h)
      PROVE  GensCount' /\ PeriodsOverlapBounded'
  BY <1>2, <1>3, CommitGensCount, CommitPeriods
<1>4. ASSUME UNCHANGED <<active, closed, gens>>
      PROVE  GensCount' /\ PeriodsOverlapBounded'
  <2>1. PeriodsOverlapBounded'
    BY <1>1, <1>4 DEF PeriodsOverlapBounded
  <2>2. ASSUME NEW n \in Node, NEW r \in closed'[n]
        PROVE  r.removed <= now' /\ r.gen <= gens'[n][r.key]
    <3>1. r \in closed[n] /\ r.removed \in Nat /\ r.removed <= now /\ r.gen <= gens[n][r.key]
      BY <1>1, <1>4, <2>2, RowTypes DEF GensCount
    <3>2. now \in Nat /\ now' \in Nat /\ now <= now'
      BY <1>1, NowGrows
    <3>3. QED
      BY <1>4, <3>1, <3>2
  <2>3. QED
    BY <1>1, <1>4, <2>1, <2>2 DEF GensCount
<1>5. QED
  BY <1>1, <1>2, <1>3, <1>4, OnlyCommitsWrite DEF PeriodInv

LEMMA PeriodInvariant == Spec => []PeriodInv
<1>1. Init => PeriodInv
  <2> SUFFICES ASSUME Init
               PROVE  PeriodInv
    OBVIOUS
  <2>1. TypeOK /\ Stamps
    BY InitTypeOK, InitStamps
  <2>2. /\ \A n \in Node : closed[n] = {}
        /\ \A n \in Node, k \in Key : active[n][k] = None
    BY DEF Init
  <2>3. QED
    BY <2>1, <2>2 DEF PeriodInv, GensCount, PeriodsOverlapBounded
<1>2. QED
  BY <1>1, NextPeriodInv, PTL DEF Spec

\* The observation periods of a key overlap by no more than one request lasts.
THEOREM PeriodsBounded == Spec => []PeriodsOverlapBounded
<1>1. PeriodInv => PeriodsOverlapBounded
  BY DEF PeriodInv
<1>2. QED
  BY <1>1, PeriodInvariant, PTL
============================================================================
