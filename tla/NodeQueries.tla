---------------------------- MODULE NodeQueries ----------------------------
(***************************************************************************)
(* The queries behind the dashboard (internal/store/query.go) and the      *)
(* choice of a node's primary interface, beside the reports and            *)
(* registrations of ReportStore.                                           *)
(*                                                                         *)
(* GET /api/v1/nodes/{id} is eight statements without a transaction: the   *)
(* summary, then seven lists.  Each sees what is committed when it runs.   *)
(* The export runs them once per node.  A list is a join of active         *)
(* inventory rows with the current rows of the same row id.                *)
(***************************************************************************)
EXTENDS ReportStore, Sequences

CONSTANTS
    Reader,         \* GET requests in flight
    OfflineAfter    \* v_node_status: 3 minutes

VARIABLES
    preference,     \* node_network_preferences: the chosen row of a node
    reader          \* the GET requests

queryVars == <<preference, reader>>

\* The first and the last list of GetNode that join inventory with current rows,
\* listFilesystems and listGPUs; listNetwork is between them.  The other lists (CPU
\* packages, memory modules, block devices, temperatures) read tables whose content
\* no property of this module compares.
Lists == <<"filesystems", "gpus">>

IdleReader == [pc |-> "idle", todo |-> {}, node |-> None, newest |-> None,
               measured |-> {}, listed |-> {}]

QInit ==
    /\ Init
    /\ preference = [n \in Node |-> None]
    /\ reader = [q \in Reader |-> IdleReader]

-----------------------------------------------------------------------------
(***************************************************************************)
(* nodeSummarySQL.                                                         *)
(***************************************************************************)

\* Mutant: the pending state is forgotten.
Status_NoPending(n) ==
    CASE disabled[n] -> "disabled"
      [] ~disabled[n] /\ lastSeen[n] >= now - OfflineAfter -> "online"
      [] OTHER -> "offline"

\* v_node_status and normalizeNodeSummary, for a node that has a row.
Status(n) ==
    CASE disabled[n] -> "disabled"
      [] ~disabled[n] /\ current[n] = None -> "pending"
      [] ~disabled[n] /\ current[n] # None /\ lastSeen[n] >= now - OfflineAfter -> "online"
      [] OTHER -> "offline"

\* The chosen interface counts only while its own row is active: the join is on
\* the row id, and SELECT address falls back otherwise.
IsPreferred(n, k) ==
    /\ preference[n] # None
    /\ active[n][k] # None
    /\ preference[n] = [key |-> k, gen |-> active[n][k].gen]

\* SetPrimaryNetworkInterface: INSERT ... SELECT of an active row, one statement.
\* Otherwise 404.
SetPrimaryNetworkInterface(n, k) ==
    /\ active[n][k] # None
    /\ preference' = [preference EXCEPT ![n] = [key |-> k, gen |-> active[n][k].gen]]
    /\ UNCHANGED <<vars, reader>>

-----------------------------------------------------------------------------
(***************************************************************************)
(* GetNode and exportNodes.                                                *)
(***************************************************************************)

\* getNode asks for one node, exportNodes for all that ListNodes returned.
BeginGetNode(q, n) ==
    /\ reader[q].pc = "idle"
    /\ reader' = [reader EXCEPT ![q] = [IdleReader EXCEPT !.pc = "next", !.todo = {n}]]
    /\ UNCHANGED <<vars, preference>>

BeginExport(q) ==
    /\ reader[q].pc = "idle"
    /\ reader' = [reader EXCEPT ![q] = [IdleReader EXCEPT !.pc = "next",
                        !.todo = {n \in Node : lastSeen[n] # None}]]
    /\ UNCHANGED <<vars, preference>>

\* Row of a list, LEFT JOIN: minute is that of the current row, None without one.
Listed(n, k) ==
    LET row == active[n][k]
        cur == {c \in resCurrent[n] : c.key = k /\ c.gen = row.gen}
    IN [key |-> k, gen |-> row.gen,
        minute |-> IF cur = {} THEN None ELSE (CHOOSE c \in cur : TRUE).bucket]

ListRows(n) == {Listed(n, k) : k \in {x \in Key : active[n][x] # None}}

\* What the summary query sees of node n.  measured is a history component: the
\* detail rows of the minute it shows, with the row ids they belong to.
SeenSummary(r, n) ==
    [r EXCEPT !.newest = current[n],
              !.measured = IF current[n] = None THEN {} ELSE detail[n][current[n].bucket]]

\* Mutant: the lists are queried before the summary.
AfterQuery_SummaryLast(r, n) ==
    CASE r.pc = "next" -> [r EXCEPT !.pc = Lists[1], !.node = n, !.todo = @ \ {n}, !.listed = {}]
      [] r.pc = Lists[1] -> [r EXCEPT !.pc = Lists[2], !.listed = @ \cup ListRows(n)]
      [] r.pc = Lists[2] -> SeenSummary([r EXCEPT !.pc = "done"], n)

\* The order of the statements of GetNode.
AfterQuery(r, n) ==
    CASE r.pc = "next" ->
            SeenSummary([r EXCEPT !.pc = Lists[1], !.node = n, !.todo = @ \ {n}, !.listed = {}], n)
      [] r.pc = Lists[1] -> [r EXCEPT !.pc = Lists[2], !.listed = @ \cup ListRows(n)]
      [] r.pc = Lists[2] -> [r EXCEPT !.pc = "done", !.listed = @ \cup ListRows(n)]

\* The summary of the next node.  A node without a row is ErrNotFound: a 404, or
\* skipped by the export.
QuerySummary(q, n) ==
    /\ reader[q].pc = "next"
    /\ n \in reader[q].todo
    /\ lastSeen[n] # None
    /\ reader' = [reader EXCEPT ![q] = AfterQuery(reader[q], n)]
    /\ UNCHANGED <<vars, preference>>

QueryList(q) ==
    /\ \E i \in DOMAIN Lists : reader[q].pc = Lists[i]
    /\ reader' = [reader EXCEPT ![q] = AfterQuery(reader[q], reader[q].node)]
    /\ UNCHANGED <<vars, preference>>

\* The detail is complete; an export goes on with the next node.
FinishDetail(q) ==
    /\ reader[q].pc = "done"
    /\ reader' = [reader EXCEPT ![q] =
                    IF reader[q].todo = {} THEN IdleReader
                    ELSE [IdleReader EXCEPT !.pc = "next", !.todo = reader[q].todo]]
    /\ UNCHANGED <<vars, preference>>

\* ErrNotFound, an error, the deadline or the service stopping.
AbortGetNode(q) ==
    /\ reader[q].pc # "idle"
    /\ reader' = [reader EXCEPT ![q] = IdleReader]
    /\ UNCHANGED <<vars, preference>>

QNext ==
    \/ Next /\ UNCHANGED queryVars
    \/ \E n \in Node, k \in Key : SetPrimaryNetworkInterface(n, k)
    \/ \E q \in Reader, n \in Node : BeginGetNode(q, n)
    \/ \E q \in Reader : BeginExport(q)
    \/ \E q \in Reader, n \in Node : QuerySummary(q, n)
    \/ \E q \in Reader : QueryList(q)
    \/ \E q \in Reader : FinishDetail(q)
    \/ \E q \in Reader : AbortGetNode(q)

QSpec == QInit /\ [][QNext]_<<vars, queryVars>>

-----------------------------------------------------------------------------
(***************************************************************************)
(* Properties.                                                             *)
(***************************************************************************)

\* README.md: a node without a report for three minutes is shown offline.  So a
\* node shown online has a stored report received within OfflineAfter, whatever
\* registrations did to its row.
OnlineMeansReported ==
    \A n \in Node : lastSeen[n] # None /\ Status(n) = "online" =>
        \E b \in Bucket : samples[n][b] # None /\ samples[n][b].received >= now - OfflineAfter

\* GetNode has no transaction, but the summary is its first statement: the lists
\* of filesystems, interfaces and GPUs show no measured device with a value older
\* than the minute the summary shows, though reports of any age commit between the
\* statements.  The temperatures and the health of disks, which have minutes of
\* their own, are not compared.
DetailNotOlder ==
    \A q \in Reader : reader[q].pc = "done" =>
        \A d \in reader[q].measured, row \in reader[q].listed :
            row.key = d.key /\ row.gen = d.gen =>
                row.minute # None /\ row.minute >= reader[q].newest.bucket

\* Once the chosen interface was removed from the inventory, the choice has no
\* effect until an administrator chooses again: the interface that comes back,
\* even by a report that arrives late, is another row.
ChoiceNotRevived ==
    [][\A n \in Node :
        /\ preference[n] # None /\ preference'[n] = preference[n]
        /\ ~\E k \in Key : IsPreferred(n, k)
        => ~\E k \in Key : IsPreferred(n, k)']_<<vars, queryVars>>

-----------------------------------------------------------------------------
(***************************************************************************)
(* Why the properties hold: the parts of an inductive invariant.           *)
(***************************************************************************)

Choice == [key : Key, gen : Nat]
ListRow == [key : Key, gen : Nat, minute : Bucket \cup {None}]
ReaderState == [pc : {"idle", "next", "filesystems", "gpus", "done"}, todo : SUBSET Node,
                node : Node \cup {None}, newest : Sample \cup {None},
                measured : SUBSET DetailRow, listed : SUBSET ListRow]

\* The choices and the GET requests hold values of their types.
QTypeOK ==
    /\ preference \in [Node -> Choice \cup {None}]
    /\ reader \in [Reader -> ReaderState]
    /\ \A q \in Reader : reader[q].pc \in {"filesystems", "gpus", "done"} => reader[q].node \in Node

\* last_seen_at of a node that has reported is the arrival of a stored report: the
\* last that committed.
SeenIsStored ==
    \A n \in Node : current[n] # None =>
        /\ lastSeen[n] # None
        /\ \E b \in Bucket : samples[n][b] # None /\ samples[n][b].received = lastSeen[n]

\* A resource has one current row, the primary key of its table.
OneCurrentRow ==
    \A n \in Node : \A c, d \in resCurrent[n] : SameResource(c, d) => c = d

\* The current row of resource d of node n exists and is of minute m or a later one.
ShownSince(n, d, m) ==
    /\ \E c \in resCurrent[n] : SameResource(c, d)
    /\ \A c \in resCurrent[n] : SameResource(c, d) => c.bucket >= m

\* What a GET request has seen measured stays as new in the tables it has yet to
\* query, and is as new in the lists it has.
ReadersSound ==
    \A q \in Reader : reader[q].pc \in {"filesystems", "gpus", "done"} =>
        \A d \in reader[q].measured :
            /\ reader[q].newest # None
            /\ ShownSince(reader[q].node, d, reader[q].newest.bucket)
            /\ \A row \in reader[q].listed : row.key = d.key /\ row.gen = d.gen =>
                    row.minute # None /\ row.minute >= reader[q].newest.bucket

\* A chosen row is one that its key has had.
ChosenExisted ==
    \A n \in Node : preference[n] # None => preference[n].gen <= gens[n][preference[n].key]

QIInv == QTypeOK /\ SeenIsStored /\ OneCurrentRow /\ ReadersSound /\ ChosenExisted
============================================================================
