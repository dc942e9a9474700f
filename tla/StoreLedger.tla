---------------------------- MODULE StoreLedger ----------------------------
(***************************************************************************)
(* ReportStore implements MinuteLedger: the refinement mapping, built from *)
(* the tables a reader queries.                                            *)
(***************************************************************************)
EXTENDS ReportStore

ASSUME NoEntryAssumption == None \notin [report : Payload, resources : SUBSET Key]

\* An entry is the main row of the minute with the keys of its detail rows.
StoredEntry(n, b) ==
    IF samples[n][b] = None THEN None
    ELSE [report |-> samples[n][b].from, resources |-> {d.key : d \in detail[n][b]}]

StoredLedger == [n \in Node |-> [b \in Bucket |-> StoredEntry(n, b)]]

ShownReport == [n \in Node |-> IF current[n] = None THEN None ELSE current[n].from]

\* The inventory is read from the active rows, not from the fingerprint.
ActiveKeys(n) == {k \in Key : active[n][k] # None}
ActiveInventory == [n \in Node |-> [k \in ActiveKeys(n) |-> active[n][k].attr]]

Ledger == INSTANCE MinuteLedger
            WITH ledger <- StoredLedger, shown <- ShownReport, inventory <- ActiveInventory

\* Every behaviour of the handler, the ingest transaction and the triggers, with
\* its late, repeated and overlapping reports, is a behaviour of the ledger: the
\* commit of Ingest enters one whole report and no other step changes what a
\* reader of samples, details, current rows and inventory sees.
ImplementsLedger == Ledger!Spec
============================================================================
