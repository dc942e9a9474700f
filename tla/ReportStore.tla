---------------------------- MODULE ReportStore ----------------------------
(***************************************************************************)
(* The central store of server-status: the handler of POST /api/v1/reports *)
(* (internal/server/http.go), the ingest transaction it runs               *)
(* (internal/store/ingest.go), node registration (internal/store/store.go) *)
(* and the tables, CHECK constraints and triggers they meet                *)
(* (db/migrations).                                                        *)
(*                                                                         *)
(* Requests are concurrent.  A report request authenticates with one query *)
(* outside any transaction, validates its payload, takes its receivedAt    *)
(* stamp, waits for the FOR UPDATE lock on the node's row and then commits *)
(* all its writes at once.  A registration fixes its CURRENT_TIMESTAMP     *)
(* when its transaction begins and writes when it gets the same row lock.  *)
(* Nothing orders the requests: a retry, a duplicate and a late report are *)
(* just further requests with a payload of the set Payload.                *)
(*                                                                         *)
(* Data.  The seven inventory tables share one life cycle, so one table    *)
(* indexed by Key stands for them; the three *_metric_samples detail       *)
(* tables share another.  An inventory maps its keys to attributes and its *)
(* fingerprint is the inventory itself: SHA-256 of the normalized JSON is  *)
(* taken to be injective.  A metric value is the payload it came from.     *)
(***************************************************************************)
EXTENDS Integers

CONSTANTS
    Node,        \* agents that may be registered (nodes.agent_id)
    Key,         \* stable keys of inventory items
    Attr,        \* the remaining attributes of an inventory item
    Sensor,      \* keys of temperature sensors
    TokenId,     \* node tokens the service may hand out
    Handler,     \* report requests in flight
    Admin,       \* registration requests in flight
    Payload,     \* the reports agents may send
    Minute,      \* clock units in a minute
    MaxAhead,    \* validate.go: now + 5 minutes
    MaxLate,     \* validate.go: now - 24 hours
    ReqTimeout,  \* http.go: context of a report, 25 seconds
    RegTimeout,  \* http.go: context of a registration, 10 seconds
    MaxTime,     \* bound: the clock
    MaxGen,      \* bound: observation periods of one key
    None         \* SQL NULL, and "no row"

Inventory == UNION {[K -> Attr] : K \in SUBSET Key}

Report == [agent       : Node,
           collected   : Nat,
           inventory   : Inventory,
           fingerprint : Inventory,
           metrics     : SUBSET Key,     \* keys with fs/net/gpu metrics
           temps       : SUBSET Sensor,  \* metrics.temperatures
           health      : SUBSET Key]     \* metrics.storage_health

\* CollectedAt.Truncate(time.Minute): the idempotency key of a report.
BucketAt(p) == p.collected - (p.collected % Minute)

Bucket == {BucketAt(p) : p \in Payload}

\* A row of an inventory table whose removed_at is NULL.  gen tells apart the
\* rows a key has had (their ids); first is first_seen_at.  last_seen_at, written
\* by every synchronization, is read by no operation and is left out.
Row == [gen : Nat, attr : Attr, first : Nat]

\* A row of node_metric_samples, or of node_current_metrics.
Sample == [bucket : Bucket, from : Payload, received : Nat]

TokenRow == [node : Node, created : Nat, revoked : Nat \cup {None}, used : Nat \cup {None}]

ASSUME NoneAssumption ==
    /\ None \notin Nat /\ None \notin Inventory /\ None \notin Payload
    /\ None \notin Handler /\ None \notin Node /\ None \notin TokenId
    /\ None \notin Row /\ None \notin Sample /\ None \notin TokenRow
ASSUME PayloadAssumption == Payload \subseteq Report
ASSUME TimeAssumption ==
    /\ Minute \in Nat \ {0}
    /\ MaxAhead \in Nat /\ MaxLate \in Nat
    /\ ReqTimeout \in Nat /\ RegTimeout \in Nat
    /\ MaxTime \in Nat /\ MaxGen \in Nat

VARIABLES
    now,          \* the clock of the service and of its database
    fingerprint,  \* nodes.inventory_fingerprint
    lastSeen,     \* nodes.last_seen_at, None while the node has no row
    disabled,     \* nodes.disabled_at IS NOT NULL
    token,        \* node_api_tokens
    active,       \* inventory rows with removed_at IS NULL, by key: the partial
                  \* unique indexes *_active_key_uq allow one per key
    closed,       \* inventory rows with removed_at set
    gens,         \* how many rows the key has had: the next row's id
    samples,      \* node_metric_samples, primary key (bucket_at, node_id)
    detail,       \* filesystem/network/gpu_metric_samples
    current,      \* node_current_metrics
    resCurrent,   \* filesystem/network/gpu_current_metrics
    temperature,  \* temperature_current_metrics
    smart,        \* storage_health_current_metrics
    lock,         \* which report transaction holds the node's row lock
    req,          \* report requests
    reg           \* registration requests

invVars == <<fingerprint, active, closed, gens>>
metricVars == <<samples, detail, current, resCurrent, temperature, smart>>
dbVars == <<lastSeen, disabled, token, invVars, metricVars>>
vars == <<now, dbVars, lock, req, reg>>

IdleReq == [pc |-> "idle", payload |-> None, token |-> None,
            started |-> 0, at |-> 0, seen |-> None]
IdleReg == [pc |-> "idle", node |-> None, begun |-> 0]

Init ==
    /\ now = 0
    /\ fingerprint = [n \in Node |-> None]
    /\ lastSeen = [n \in Node |-> None]
    /\ disabled = [n \in Node |-> FALSE]
    /\ token = [t \in TokenId |-> None]
    /\ active = [n \in Node |-> [k \in Key |-> None]]
    /\ closed = [n \in Node |-> {}]
    /\ gens = [n \in Node |-> [k \in Key |-> 0]]
    /\ samples = [n \in Node |-> [b \in Bucket |-> None]]
    /\ detail = [n \in Node |-> [b \in Bucket |-> {}]]
    /\ current = [n \in Node |-> None]
    /\ resCurrent = [n \in Node |-> {}]
    /\ temperature = [n \in Node |-> {}]
    /\ smart = [n \in Node |-> {}]
    /\ lock = [n \in Node |-> None]
    /\ req = [h \in Handler |-> IdleReq]
    /\ reg = [a \in Admin |-> IdleReg]

-----------------------------------------------------------------------------
(***************************************************************************)
(* Registration: RegisterNode, one transaction.                            *)
(***************************************************************************)

\* Mutant: a plain SELECT, without FOR UPDATE.
RowFree_NoForUpdate(n) == TRUE

\* SELECT ... FOR UPDATE and the upsert of a nodes row wait while a report
\* transaction holds the row.
RowFree(n) == lock[n] = None

\* BEGIN: from here CURRENT_TIMESTAMP is fixed, however long the row lock takes.
BeginRegister(a, n) ==
    /\ reg[a].pc = "idle"
    /\ \E t \in TokenId : token[t] = None    \* bound: TokenId is not used up
    /\ reg' = [reg EXCEPT ![a] = [pc |-> "begun", node |-> n, begun |-> now]]
    /\ UNCHANGED <<now, dbVars, lock, req>>

\* The token rows the registration of node n revokes.
Unrevoked(n) == {t \in TokenId : token[t] # None /\ token[t].node = n /\ token[t].revoked = None}

Revoked(row, at) == [node |-> row.node, created |-> row.created, revoked |-> at, used |-> row.used]
Used(row, at) == [node |-> row.node, created |-> row.created, revoked |-> row.revoked, used |-> at]

\* Mutant: registration forgets to revoke the node's other tokens.
RotatedTokens_KeepsOld(n, t, at) ==
    [token EXCEPT ![t] = [node |-> n, created |-> at, revoked |-> None, used |-> None]]

\* The node_api_tokens table after the registration that began at `at` has
\* revoked the node's tokens and inserted the new token t.
RotatedTokens(n, t, at) ==
    [x \in TokenId |->
        CASE x = t -> [node |-> n, created |-> at, revoked |-> None, used |-> None]
          [] x # t /\ x \in Unrevoked(n) -> Revoked(token[x], at)
          [] OTHER -> token[x]]

\* Upsert of the node (a new row is seen at CURRENT_TIMESTAMP, disabled_at is
\* cleared), revocation, new token, commit.
\* CHECK (revoked_at >= created_at) fails when a registration that began later
\* has committed first.
CommitRegister(a, t) ==
    LET n == reg[a].node IN
    /\ reg[a].pc = "begun"
    /\ now <= reg[a].begun + RegTimeout
    /\ RowFree(n)
    /\ token[t] = None
    /\ \A x \in Unrevoked(n) : reg[a].begun >= token[x].created
    /\ token' = RotatedTokens(n, t, reg[a].begun)
    /\ disabled' = [disabled EXCEPT ![n] = FALSE]
    /\ lastSeen' = [lastSeen EXCEPT ![n] = IF @ = None THEN reg[a].begun ELSE @]
    /\ reg' = [reg EXCEPT ![a] = IdleReg]
    /\ UNCHANGED <<now, invVars, metricVars, lock, req>>

\* Any error: the transaction is rolled back and the response is a 500.
AbortRegister(a) ==
    /\ reg[a].pc = "begun"
    /\ reg' = [reg EXCEPT ![a] = IdleReg]
    /\ UNCHANGED <<now, dbVars, lock, req>>

\* An operator disables the node in SQL: no code of the service sets disabled_at.
DisableNode(n) ==
    /\ RowFree(n)
    /\ \E t \in TokenId : token[t] # None /\ token[t].node = n
    /\ disabled' = [disabled EXCEPT ![n] = TRUE]
    /\ UNCHANGED <<now, lastSeen, token, invVars, metricVars, lock, req, reg>>

-----------------------------------------------------------------------------
(***************************************************************************)
(* The report handler up to the transaction.                               *)
(***************************************************************************)

\* Mutant: the token digest is not looked up.
AuthenticateToken_Any(t) == TRUE

\* The query of AuthenticateToken.  Registration leaves expires_at NULL.
AuthenticateToken(t) ==
    /\ token[t] # None
    /\ token[t].revoked = None
    /\ ~disabled[token[t].node]

\* The request arrives, its 25 second context starts and its token is accepted.
\* A rejected token is answered 401 and leaves no trace.
ReceiveReport(h, p, t) ==
    /\ req[h].pc = "idle"
    /\ AuthenticateToken(t)
    /\ req' = [req EXCEPT ![h] = [pc |-> "authenticated", payload |-> p, token |-> t,
                                     started |-> now, at |-> 0, seen |-> None]]
    /\ UNCHANGED <<now, dbVars, lock, reg>>

\* Mutant: the fingerprint of the payload is trusted.
Validate_TrustsFingerprint(p) ==
    /\ p.collected <= now + MaxAhead
    /\ p.collected >= now - MaxLate
    /\ p.metrics \cup p.health \subseteq DOMAIN p.inventory

\* Report.Validate: the age window, the fingerprint recomputed from the
\* inventory, and every metric key present in the report's own inventory.
Validate(p) ==
    /\ p.collected <= now + MaxAhead
    /\ p.collected >= now - MaxLate
    /\ p.fingerprint = p.inventory
    /\ p.metrics \cup p.health \subseteq DOMAIN p.inventory

AgentMatches(h) == req[h].payload.agent = token[req[h].token].node

\* 403 or 422: the handler returns.
RejectReport(h) ==
    /\ req[h].pc = "authenticated"
    /\ ~(AgentMatches(h) /\ Validate(req[h].payload))
    /\ req' = [req EXCEPT ![h] = IdleReq]
    /\ UNCHANGED <<now, dbVars, lock, reg>>

\* Request r moves on to pc with its receivedAt stamp and the fingerprint it read.
Advance(r, pc, at, seen) ==
    [pc |-> pc, payload |-> r.payload, token |-> r.token, started |-> r.started,
     at |-> at, seen |-> seen]

\* Validation passes and Ingest takes receivedAt, before BEGIN and before the
\* row lock.
StartIngest(h) ==
    /\ req[h].pc = "authenticated"
    /\ AgentMatches(h)
    /\ Validate(req[h].payload)
    /\ req' = [req EXCEPT ![h] = Advance(req[h], "waiting", now, None)]
    /\ UNCHANGED <<now, dbVars, lock, reg>>

\* SELECT inventory_fingerprint ... FOR UPDATE returns.
LockNode(h) ==
    LET n == req[h].payload.agent IN
    /\ req[h].pc = "waiting"
    /\ RowFree(n)
    /\ lock' = [lock EXCEPT ![n] = h]
    /\ req' = [req EXCEPT ![h] = Advance(req[h], "locked", req[h].at, fingerprint[n])]
    /\ UNCHANGED <<now, dbVars, reg>>

-----------------------------------------------------------------------------
(***************************************************************************)
(* syncInventory: update the active row of every reported key or insert a  *)
(* row, then set removed_at on the active rows whose key is not reported.  *)
(***************************************************************************)

\* Mutant: a key that returns reopens its removed row.
NextRow_Reopened(n, k, inv, at) ==
    IF active[n][k] = None
    THEN [gen |-> IF gens[n][k] = 0 THEN 1 ELSE gens[n][k], attr |-> inv[k], first |-> at]
    ELSE [gen |-> active[n][k].gen, attr |-> inv[k], first |-> active[n][k].first]

NextRow(n, k, inv, at) ==
    IF active[n][k] = None
    THEN [gen |-> gens[n][k] + 1, attr |-> inv[k], first |-> at]
    ELSE [gen |-> active[n][k].gen, attr |-> inv[k], first |-> active[n][k].first]

\* Mutant: a row whose key is no longer reported stays active.
SyncedRows_KeepsMissing(n, inv, at) ==
    [k \in Key |-> IF k \in DOMAIN inv THEN NextRow(n, k, inv, at) ELSE active[n][k]]

SyncedRows(n, inv, at) ==
    [k \in Key |-> IF k \in DOMAIN inv THEN NextRow(n, k, inv, at) ELSE None]

RemovedRows(n, inv, at) ==
    {[key |-> k, gen |-> active[n][k].gen, first |-> active[n][k].first,
      removed |-> at] :
        k \in {x \in Key \ DOMAIN inv : active[n][x] # None}}

SyncedGens(n, inv) ==
    [k \in Key |-> IF k \in DOMAIN inv /\ active[n][k] = None
                   THEN gens[n][k] + 1 ELSE gens[n][k]]

\* CHECK (last_seen_at >= first_seen_at) on the rows updated and
\* CHECK (removed_at >= first_seen_at) on the rows removed.
SyncChecks(n, at) == \A k \in Key : active[n][k] # None => at >= active[n][k].first

\* Only a fingerprint other than the one read under the lock is synchronized.
NeedsSync(h) == req[h].seen # req[h].payload.fingerprint

\* The active rows that the rest of the transaction reads back
\* (activeFilesystemIDs and its siblings).
ActiveRows(h) ==
    LET p == req[h].payload IN
    IF NeedsSync(h) THEN SyncedRows(p.agent, p.inventory, req[h].at) ELSE active[p.agent]

(***************************************************************************)
(* The metrics.                                                            *)
(***************************************************************************)

\* The detail rows of a report, each under the inventory row of its key.
DetailRows(rows, p) == {[key |-> k, gen |-> rows[k].gen, from |-> p] : k \in p.metrics}

\* Mutant: the details of an earlier attempt are not deleted.
ReplaceDetails_NoDelete(n, b, new) == [detail[n] EXCEPT ![b] = @ \cup new]

\* DELETE the details of the minute, then INSERT those of the report.
ReplaceDetails(n, b, new) == [detail[n] EXCEPT ![b] = new]

\* Mutant: the trigger compares with > instead of >=.
SyncNodeCurrent_Strict(n, s) ==
    IF current[n] = None THEN s
    ELSE IF s.bucket > current[n].bucket THEN s ELSE current[n]

\* Trigger sync_node_current_metrics.
SyncNodeCurrent(n, s) ==
    IF current[n] = None THEN s
    ELSE IF s.bucket >= current[n].bucket THEN s ELSE current[n]

SameResource(c, d) == c.key = d.key /\ c.gen = d.gen

\* Mutant: the trigger compares with > instead of >=.
SyncResCurrent_Strict(n, b, rows) ==
    {c \in resCurrent[n] : ~\E d \in rows : SameResource(c, d) /\ b > c.bucket}
    \cup
    {[key |-> d.key, gen |-> d.gen, bucket |-> b, from |-> d.from] :
        d \in {r \in rows : ~\E c \in resCurrent[n] : SameResource(c, r) /\ b <= c.bucket}}

\* Triggers sync_filesystem/network/gpu_current_metrics, once per detail row.
SyncResCurrent(n, b, rows) ==
    {c \in resCurrent[n] : ~\E d \in rows : SameResource(c, d) /\ b >= c.bucket}
    \cup
    {[key |-> d.key, gen |-> d.gen, bucket |-> b, from |-> d.from] :
        d \in {r \in rows : ~\E c \in resCurrent[n] : SameResource(c, r) /\ b < c.bucket}}

\* Mutant: the freshness query is skipped.
CurrentSnapshotCanBeReplaced_Always(snapshot, b) == TRUE

\* NOT EXISTS a row of the node's snapshot of a later minute.
CurrentSnapshotCanBeReplaced(snapshot, b) == \A r \in snapshot : r.bucket <= b

\* Mutant: new rows are inserted beside the old ones.
ReplaceStorageHealth_NoDelete(n, b, p, rows) ==
    IF CurrentSnapshotCanBeReplaced(smart[n], b)
    THEN smart[n] \cup {[key |-> k, gen |-> rows[k].gen, bucket |-> b, from |-> p] : k \in p.health}
    ELSE smart[n]

ReplaceTemperature(n, b, p) ==
    IF CurrentSnapshotCanBeReplaced(temperature[n], b)
    THEN {[sensor |-> s, bucket |-> b, from |-> p] : s \in p.temps}
    ELSE temperature[n]

ReplaceStorageHealth(n, b, p, rows) ==
    IF CurrentSnapshotCanBeReplaced(smart[n], b)
    THEN {[key |-> k, gen |-> rows[k].gen, bucket |-> b, from |-> p] : k \in p.health}
    ELSE smart[n]

\* Otherwise the transaction ends with ErrInvalidResource.
ResourcesResolve(h) ==
    LET p == req[h].payload IN
    /\ \A k \in p.metrics : ActiveRows(h)[k] # None
    /\ CurrentSnapshotCanBeReplaced(smart[p.agent], BucketAt(p))
         => \A k \in p.health : ActiveRows(h)[k] # None

\* Mutant: Ingest runs on a context without the deadline.
WithinDeadline_Never(h) == TRUE

\* The context of the request: 25 seconds from its arrival.
WithinDeadline(h) == now <= req[h].started + ReqTimeout

(***************************************************************************)
(* The transaction.  Between LockNode and here every other writer of these *)
(* rows waits for the lock, so its statements form one step.  The CHECK on *)
(* nodes.last_seen_at follows from the one on the token's last_used_at: a  *)
(* token is created no earlier than its node.                              *)
(***************************************************************************)
CommitIngest(h) ==
    LET p    == req[h].payload
        n    == p.agent
        t    == req[h].token
        at   == req[h].at
        b    == BucketAt(p)
        rows == ActiveRows(h)
        s    == [bucket |-> b, from |-> p, received |-> at]
    IN
    /\ req[h].pc = "locked"
    /\ WithinDeadline(h)
    /\ at >= token[t].created
    /\ NeedsSync(h) => SyncChecks(n, at)
    /\ NeedsSync(h) => \A k \in Key : SyncedGens(n, p.inventory)[k] <= MaxGen
    /\ ResourcesResolve(h)
    /\ fingerprint' = [fingerprint EXCEPT ![n] = p.fingerprint]
    /\ lastSeen' = [lastSeen EXCEPT ![n] = at]
    /\ token' = [token EXCEPT ![t] = Used(token[t], at)]
    /\ active' = [active EXCEPT ![n] = rows]
    /\ closed' = [closed EXCEPT ![n] =
                    IF NeedsSync(h) THEN @ \cup RemovedRows(n, p.inventory, at) ELSE @]
    /\ gens' = [gens EXCEPT ![n] = IF NeedsSync(h) THEN SyncedGens(n, p.inventory) ELSE @]
    /\ samples' = [samples EXCEPT ![n][b] = s]
    /\ detail' = [detail EXCEPT ![n] = ReplaceDetails(n, b, DetailRows(rows, p))]
    /\ current' = [current EXCEPT ![n] = SyncNodeCurrent(n, s)]
    /\ resCurrent' = [resCurrent EXCEPT ![n] = SyncResCurrent(n, b, DetailRows(rows, p))]
    /\ temperature' = [temperature EXCEPT ![n] = ReplaceTemperature(n, b, p)]
    /\ smart' = [smart EXCEPT ![n] = ReplaceStorageHealth(n, b, p, rows)]
    /\ lock' = [lock EXCEPT ![n] = None]
    /\ req' = [req EXCEPT ![h] = IdleReq]
    /\ UNCHANGED <<now, disabled, reg>>

\* A failed CHECK, an unknown resource, a database error, the deadline or the
\* client going away: rollback, which releases the lock if it was taken.
AbortIngest(h) ==
    /\ req[h].pc \in {"authenticated", "waiting", "locked"}
    /\ lock' = [n \in Node |-> IF lock[n] = h THEN None ELSE lock[n]]
    /\ req' = [req EXCEPT ![h] = IdleReq]
    /\ UNCHANGED <<now, dbVars, reg>>

\* The service stops or crashes: every request in flight is lost and the
\* database rolls its transactions back.
Restart ==
    /\ lock' = [n \in Node |-> None]
    /\ req' = [h \in Handler |-> IdleReq]
    /\ reg' = [a \in Admin |-> IdleReg]
    /\ UNCHANGED <<now, dbVars>>

Tick ==
    /\ now < MaxTime
    /\ now' = now + 1
    /\ UNCHANGED <<dbVars, lock, req, reg>>

Next ==
    \/ \E a \in Admin, n \in Node : BeginRegister(a, n)
    \/ \E a \in Admin, t \in TokenId : CommitRegister(a, t)
    \/ \E a \in Admin : AbortRegister(a)
    \/ \E n \in Node : DisableNode(n)
    \/ \E h \in Handler, p \in Payload, t \in TokenId : ReceiveReport(h, p, t)
    \/ \E h \in Handler : RejectReport(h)
    \/ \E h \in Handler : StartIngest(h)
    \/ \E h \in Handler : LockNode(h)
    \/ \E h \in Handler : CommitIngest(h)
    \/ \E h \in Handler : AbortIngest(h)
    \/ Restart
    \/ Tick

Spec == Init /\ [][Next]_vars

-----------------------------------------------------------------------------
(***************************************************************************)
(* Properties.                                                             *)
(***************************************************************************)

ReqState == [pc : {"idle", "authenticated", "waiting", "locked"},
             payload : Payload \cup {None}, token : TokenId \cup {None},
             started : Nat, at : Nat, seen : Inventory \cup {None}]
RegState == [pc : {"idle", "begun"}, node : Node \cup {None}, begun : Nat]
ClosedRow == [key : Key, gen : Nat, first : Nat, removed : Nat]
DetailRow == [key : Key, gen : Nat, from : Payload]
ResourceRow == [key : Key, gen : Nat, bucket : Bucket, from : Payload]
SensorRow == [sensor : Sensor, bucket : Bucket, from : Payload]

\* The tables and the requests hold values of their types; a busy request has a
\* payload and a token that exists.
TypeOK ==
    /\ now \in Nat
    /\ fingerprint \in [Node -> Inventory \cup {None}]
    /\ lastSeen \in [Node -> Nat \cup {None}]
    /\ disabled \in [Node -> BOOLEAN]
    /\ token \in [TokenId -> TokenRow \cup {None}]
    /\ active \in [Node -> [Key -> Row \cup {None}]]
    /\ closed \in [Node -> SUBSET ClosedRow]
    /\ gens \in [Node -> [Key -> Nat]]
    /\ samples \in [Node -> [Bucket -> Sample \cup {None}]]
    /\ detail \in [Node -> [Bucket -> SUBSET DetailRow]]
    /\ current \in [Node -> Sample \cup {None}]
    /\ resCurrent \in [Node -> SUBSET ResourceRow]
    /\ temperature \in [Node -> SUBSET SensorRow]
    /\ smart \in [Node -> SUBSET ResourceRow]
    /\ lock \in [Node -> Handler \cup {None}]
    /\ req \in [Handler -> ReqState]
    /\ reg \in [Admin -> RegState]
    /\ \A h \in Handler : req[h].pc # "idle" =>
            /\ req[h].payload \in Payload
            /\ req[h].token \in TokenId /\ token[req[h].token] \in TokenRow
    /\ \A a \in Admin : reg[a].pc # "idle" => reg[a].node \in Node

\* nodes.inventory_fingerprint always describes the active inventory rows: a
\* report whose fingerprint equals the stored one may skip syncInventory.
FingerprintMatchesInventory ==
    \A n \in Node : fingerprint[n] # None =>
        \A k \in Key :
            IF k \in DOMAIN fingerprint[n]
            THEN active[n][k] # None /\ active[n][k].attr = fingerprint[n][k]
            ELSE active[n][k] = None

\* The fingerprint a report transaction read under FOR UPDATE is still the stored
\* one when the transaction uses it, and what it is about to write was validated.
LockedReadIsCurrent ==
    \A h \in Handler :
        /\ req[h].pc \in {"waiting", "locked"} =>
            /\ req[h].payload.fingerprint = req[h].payload.inventory
            /\ req[h].payload.metrics \cup req[h].payload.health
                 \subseteq DOMAIN req[h].payload.inventory
        /\ req[h].pc = "locked" =>
            /\ lock[req[h].payload.agent] = h
            /\ req[h].seen = fingerprint[req[h].payload.agent]

\* Ingest never ends with ErrInvalidResource: whatever other reports did since
\* validation, each metric key of a report that holds the row lock has an
\* active inventory row.
ReportedKeysResolve == \A h \in Handler : req[h].pc = "locked" => ResourcesResolve(h)

\* The current row of a node is its sample of the newest minute, as last
\* written: late reports do not overwrite it, retries of the minute do.
CurrentIsNewest ==
    \A n \in Node :
        /\ current[n] = None <=> \A b \in Bucket : samples[n][b] = None
        /\ current[n] # None =>
            /\ current[n].bucket \in Bucket
            /\ samples[n][current[n].bucket] = current[n]
            /\ \A b \in Bucket : samples[n][b] # None => b <= current[n].bucket

\* The detail rows of a minute are exactly those of the report in the main row:
\* a retry with fewer resources leaves none of the earlier attempt behind.
DetailsMatchSample ==
    \A n \in Node, b \in Bucket :
        /\ samples[n][b] = None => detail[n][b] = {}
        /\ samples[n][b] # None =>
            /\ \A d \in detail[n][b] : d.from = samples[n][b].from
            /\ {d.key : d \in detail[n][b]} = samples[n][b].from.metrics

\* A resource's current row is never older than its newest detail row, and
\* agrees with it when both are of one minute.
ResourceCurrentFresh ==
    \A n \in Node, b \in Bucket : \A d \in detail[n][b] :
        \E c \in resCurrent[n] :
            /\ SameResource(c, d)
            /\ c.bucket >= b
            /\ c.bucket = b => c.from = d.from

\* The temperature and SMART tables of a node hold one whole report's batch,
\* never a mixture of two.
SnapshotIsOneReport ==
    \A n \in Node :
        /\ \A r \in temperature[n] :
            /\ \A x \in temperature[n] : x.from = r.from /\ x.bucket = r.bucket
            /\ {x.sensor : x \in temperature[n]} = r.from.temps
        /\ \A r \in smart[n] :
            /\ \A x \in smart[n] : x.from = r.from /\ x.bucket = r.bucket
            /\ {x.key : x \in smart[n]} = r.from.health

SnapshotKept ==
    \A n \in Node :
        /\ \A r \in temperature[n], x \in temperature'[n] : x.bucket >= r.bucket
        /\ \A r \in smart[n], x \in smart'[n] : x.bucket >= r.bucket

\* A snapshot that is not empty is only replaced by a report of the same minute
\* or a later one.
SnapshotNeverRewinds == [][SnapshotKept]_vars

\* docs/database-design.md, step 6 of the report transaction: only a retry of the
\* same minute or a later report may replace the snapshot, an older report out of
\* order is ignored.  So no row of a snapshot is older than the newest report.
OldSnapshotIgnored ==
    \A n \in Node : current[n] # None =>
        /\ \A r \in temperature[n] : r.bucket >= current[n].bucket
        /\ \A r \in smart[n] : r.bucket >= current[n].bucket

\* last_seen_at is stamped before the lock and written unconditionally, so it can
\* move back, but never further behind any stored sample than one request lasts.
LastSeenLag ==
    \A n \in Node, b \in Bucket : samples[n][b] # None =>
        lastSeen[n] # None /\ lastSeen[n] + ReqTimeout >= samples[n][b].received

\* The observation periods of a key may overlap, because receivedAt precedes the
\* lock, but by no more than one request lasts.
PeriodsOverlapBounded ==
    \A n \in Node : \A r \in closed[n] :
        /\ active[n][r.key] # None =>
            /\ active[n][r.key].gen > r.gen
            /\ active[n][r.key].first + ReqTimeout >= r.removed
        /\ \A x \in closed[n] : x.key = r.key /\ x.gen > r.gen => x.first + ReqTimeout >= r.removed

\* Registration leaves a node with one token that authenticates, however
\* registrations overlap.
OneLiveToken ==
    \A t, x \in TokenId :
        token[t] # None /\ token[x] # None /\ t # x /\ token[t].node = token[x].node
            => token[t].revoked # None \/ token[x].revoked # None

\* A revoked token is used no later than one report and one registration
\* request after its revocation stamp: the handler does not look at it again
\* after AuthenticateToken.
RevokedTokenLapses ==
    \A t \in TokenId : token[t] # None =>
        (token[t].revoked # None /\ token[t].used # None
            => token[t].used <= token[t].revoked + RegTimeout + ReqTimeout)
============================================================================
