---------------------------- MODULE MinuteLedger ----------------------------
(***************************************************************************)
(* What the central service promises about accepted reports, without       *)
(* tables, locks or triggers (docs/database-design.md: the report          *)
(* transaction): a report is entered as a whole, an entry is one report    *)
(* per node and minute, the newest minute is what is shown, and the        *)
(* inventory is that of the report accepted last.                          *)
(***************************************************************************)
EXTENDS Integers

CONSTANTS Node, Payload, Minute, None

VARIABLES
    ledger,     \* by node and minute: the report and the resources it measured
    shown,      \* by node: the report of the newest minute
    inventory   \* by node: the devices it has

ledgerVars == <<ledger, shown, inventory>>

MinuteOf(p) == p.collected - (p.collected % Minute)

Minutes == {MinuteOf(p) : p \in Payload}

Entry(p) == [report |-> p, resources |-> p.metrics]

\* Report r is the entry of the newest minute of page l.
IsNewest(r, l) ==
    \E m \in Minutes :
        /\ l[m] # None /\ l[m].report = r
        /\ \A x \in Minutes : l[x] # None => x <= m

Init ==
    /\ ledger = [n \in Node |-> [m \in Minutes |-> None]]
    /\ shown = [n \in Node |-> None]
    /\ inventory = [n \in Node |-> [k \in {} |-> None]]

\* One report is accepted: its minute, what is shown and the inventory change
\* together, and nothing of another node or minute does.
Accept(p) ==
    LET n == p.agent
        page == [ledger[n] EXCEPT ![MinuteOf(p)] = Entry(p)]
    IN
    /\ ledger' = [ledger EXCEPT ![n] = page]
    /\ \E r \in Payload : IsNewest(r, page) /\ shown' = [shown EXCEPT ![n] = r]
    /\ inventory' = [inventory EXCEPT ![n] = p.inventory]

Next == \E p \in Payload : Accept(p)

Spec == Init /\ [][Next]_ledgerVars
============================================================================
