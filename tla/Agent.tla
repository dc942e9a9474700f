------------------------------- MODULE Agent -------------------------------
(***************************************************************************)
(* The agent's loop (internal/agent/run.go and client.go, windows-agent's  *)
(* run.go and client.go) between a collector and the central service:      *)
(* collect, send with up to three attempts, wait.                          *)
(*                                                                         *)
(* An attempt that the client has given up may still be running at the     *)
(* service and commit later, a report may be committed several times, and  *)
(* an answer may be lost.  What a committed report does to the store is    *)
(* MinuteLedger!Accept, which ReportStore implements: it becomes the entry *)
(* of its minute.  The update an accepted report may ask for is in         *)
(* AgentUpdate.                                                            *)
(***************************************************************************)
EXTENDS Collector, FiniteSets

CONSTANTS
    MaxAttempts,     \* 3
    MinuteLength,    \* clock units in a minute
    MaxLate,         \* bound: abandoned attempts the service works on at a time
    MaxRestarts      \* bound: restarts of the agent

ASSUME MinuteAssumption == MinuteLength \in Nat \ {0}

VARIABLES
    attempt,         \* the attempts made for the report being sent
    answer,          \* to the current attempt, None while there is none
    late,            \* abandoned attempts that may still be committed
    ledger,          \* the stored deltas, by minute
    restarts

deliveryVars == <<attempt, answer, late, ledger, restarts>>
vars == <<hostVars, collectorVars, deliveryVars>>

Minutes == {t \div MinuteLength : t \in 0..MaxTime}

Init ==
    /\ CollectorInit
    /\ attempt = 0
    /\ answer = None
    /\ late = {}
    /\ ledger = [m \in Minutes |-> NoDelta]
    /\ restarts = 0

-----------------------------------------------------------------------------
(***************************************************************************)
(* The service, as far as the agent can tell.                              *)
(***************************************************************************)

Entry(r) == [minute |-> r.minute \div MinuteLength, delta |-> r.delta]

Commit(entry) == ledger' = [ledger EXCEPT ![entry.minute] = entry.delta]

Serving == pc = "awaiting" /\ answer = None

Accept ==
    /\ Serving
    /\ draft.valid
    /\ Commit(Entry(draft))
    /\ answer' = "accepted"
    /\ UNCHANGED <<hostVars, collectorVars, attempt, late, restarts>>

\* 422, or 401 once the token is revoked.
Reject ==
    /\ Serving
    /\ answer' = "rejected"
    /\ UNCHANGED <<hostVars, collectorVars, attempt, late, ledger, restarts>>

\* An internal error.  When it is the commit whose outcome is unknown, the report
\* is stored all the same.
FailRequest ==
    /\ Serving
    /\ (draft.valid /\ Commit(Entry(draft))) \/ UNCHANGED ledger
    /\ answer' = "failed"
    /\ UNCHANGED <<hostVars, collectorVars, attempt, late, restarts>>

\* The service goes on with an attempt the client has given up, within its own
\* time limit of 25 seconds; here at any later time.
CommitLate ==
    \E entry \in late :
        /\ Commit(entry)
        /\ late' = late \ {entry}
        /\ UNCHANGED <<hostVars, collectorVars, attempt, answer, restarts>>

-----------------------------------------------------------------------------
(***************************************************************************)
(* Client.Send.                                                            *)
(***************************************************************************)

\* sendOnce: the request is on its way.
StartAttempt ==
    /\ pc = "sending"
    /\ pc' = "awaiting"
    /\ attempt' = attempt + 1
    /\ UNCHANGED <<hostVars, previous, last, draft, answer, late, ledger, restarts>>

\* The report is done with, for better or worse: the loop waits for its timer.
Done ==
    /\ pc' = "waiting"
    /\ draft' = Nothing
    /\ attempt' = 0

\* Mutant: the loop does not end.
NextAttempt_Endless == pc' = "sending" /\ UNCHANGED draft /\ attempt' = 1

\* After an error that can be retried, with a pause that is part of the step.
NextAttempt ==
    IF attempt < MaxAttempts THEN pc' = "sending" /\ UNCHANGED <<draft, attempt>>
    ELSE Done

\* The client no longer waits for its request.  Some of the requests abandoned so
\* far go on; the others never reach the service or fail there.
Abandon ==
    LET open == late \cup (IF Serving /\ draft.valid THEN {Entry(draft)} ELSE {})
    IN  late' \in {L \in SUBSET open : Cardinality(L) <= MaxLate}

\* A connection error, or 10 to 30 seconds without an answer.
AttemptFails ==
    /\ pc = "awaiting"
    /\ Abandon
    /\ NextAttempt
    /\ answer' = None
    /\ UNCHANGED <<hostVars, previous, last, ledger, restarts>>

\* 202 ends Send, and so does 422, 401 or a receipt that cannot be read; 408,
\* 425, 429 and 5xx are retried.
AnswerArrives ==
    /\ pc = "awaiting"
    /\ answer # None
    /\ IF answer = "failed" THEN NextAttempt ELSE Done
    /\ answer' = None
    /\ UNCHANGED <<hostVars, previous, last, late, ledger, restarts>>

-----------------------------------------------------------------------------
\* The process ends, also in the middle of a request, and is started again: a
\* new collector remembers nothing.
Restart ==
    /\ restarts < MaxRestarts
    /\ restarts' = restarts + 1
    /\ previous' = [d \in Device |-> None]
    /\ last' = None
    /\ Abandon
    /\ Done
    /\ answer' = None
    /\ UNCHANGED <<hostVars, ledger>>

Tick ==
    /\ now < MaxTime
    /\ now' = now + 1
    /\ UNCHANGED <<platform, counter, absent, moved, phantom, collectorVars, deliveryVars>>

Host ==
    /\ \E d \in Counted : Traffic(d) \/ Detach(d) \/ Return(d) \/ Reset(d)
    /\ UNCHANGED <<collectorVars, deliveryVars>>

Collect ==
    /\ \/ StartCollect
       \/ FailCollect
       \/ CollectDisk
       \/ ListInterfaces
       \/ FinishLinux
       \/ FinishWindows
    /\ UNCHANGED deliveryVars

Deliver == StartAttempt \/ AttemptFails \/ AnswerArrives

Serve == Accept \/ Reject \/ FailRequest \/ CommitLate

Next == Host \/ Collect \/ Deliver \/ Serve \/ Restart \/ Tick

Spec == Init /\ [][Next]_vars

\* The timer fires, a collection ends with or without an error (every command it
\* runs has a time limit; its system calls, such as statfs, are taken to return),
\* and an attempt ends with an answer or its time limit.
FairSpec == Spec /\ WF_vars(Collect) /\ WF_vars(Deliver)

-----------------------------------------------------------------------------
(***************************************************************************)
(* Properties.                                                             *)
(***************************************************************************)

Stored(d) == SumFunction([m \in Minutes |-> ledger[m][d]])

\* The traffic of a device, with what resets and returns may have added to it.
Accounted(d) == moved[d] + phantom[d]

\* All the traffic of a device in the stored minutes is traffic that there was:
\* wraps, failed collections, restarts of the agent, retries of what had been
\* committed and late commits of abandoned attempts count nothing twice and make
\* nothing up (counterDelta, previousNet, one entry per minute).  Nor does a reset
\* on Linux.  On Windows each reset may add up to a wrap, for counterDelta32 takes
\* it for one, although README.md says that a reset counts as zero;
\* and an interface that vanishes between the list and its counters and returns
\* with them is counted again.  Nothing else is added.
TrafficConserved == \A d \in Device : Stored(d) <= Accounted(d)

\* Every report the agent sends passes the service's validation of keys and
\* interval, whatever smartctl answers, however often a filesystem is mounted
\* and however long the last collection is ago: 422 is not retried, so that the
\* node would go offline (docs/deployment.md: SMART does not make reports fail).
ReportsValid == pc \in {"sending", "awaiting"} => draft.valid

\* The agent never stops collecting, whatever fails (README.md: a lasting failure
\* does not end the process, the next cycle tries again).
KeepsCollecting == []<>(pc = "started")
-----------------------------------------------------------------------------
(***************************************************************************)
(* Why TrafficConserved holds: the parts of an inductive invariant.        *)
(***************************************************************************)

Collecting == {"started", "disks", "listed"}
Sending == {"sending", "awaiting"}

Report == [minute : 0..MaxTime \cup {None}, listed : SUBSET Net, valid : BOOLEAN,
           delta : [Device -> Nat]]

\* The variables have their types.
TypeOK ==
    /\ now \in 0..MaxTime
    /\ counter \in [Device -> Nat]
    /\ absent \subseteq Device
    /\ moved \in [Device -> Nat]
    /\ phantom \in [Device -> Nat]
    /\ previous \in [Device -> Nat \cup {None}]
    /\ last \in 0..MaxTime \cup {None}
    /\ pc \in Collecting \cup Sending \cup {"waiting"}
    /\ draft \in Report
    /\ attempt \in Nat
    /\ answer \in {None, "accepted", "rejected", "failed"}
    /\ late \subseteq [minute : Minutes, delta : [Device -> Nat]]
    /\ ledger \in [Minutes -> [Device -> Nat]]
    /\ restarts \in Nat

\* A report that is sent has its time; on Windows a collection has it from its start.
ReportTimed ==
    pc \in Sending \/ (pc \in Collecting /\ platform = "windows") => draft.minute \in 0..MaxTime

\* The counters of Windows have Width values.
WindowsCounters ==
    platform = "windows" =>
        \A d \in Device : /\ counter[d] \in 0..(Width - 1)
                           /\ previous[d] \in 0..(Width - 1) \cup {None}

\* What the next read of a device will find moved.
Unread(d) == Delta(counter[d], previous[d])

\* What the collection in progress has found moved.
Found(d) == IF pc \in Collecting THEN draft.delta[d] ELSE 0

\* Each minute has a share of the traffic of a device, all that was read for
\* reports of this minute.  Whatever the service stores, may still store or is
\* being sent for the minute is within its share, and the shares, what the
\* collection has found and what the next one will find add up to traffic that
\* there was and what resets and returns have added to it.
Shared(d, share) ==
    /\ \A m \in Minutes : ledger[m][d] <= share[m]
    /\ \A entry \in late : entry.delta[d] <= share[entry.minute]
    /\ pc \in Sending => draft.delta[d] <= share[Entry(draft).minute]
    /\ SumFunction(share) + Found(d) + Unread(d) <= Accounted(d)

TrafficShared == \A d \in Device : \E share \in [Minutes -> Nat] : Shared(d, share)

TrafficInv == TypeOK /\ ReportTimed /\ WindowsCounters /\ TrafficShared

-----------------------------------------------------------------------------
(***************************************************************************)
(* Why ReportsValid holds.                                                 *)
(***************************************************************************)

\* A collection that goes on has found nothing invalid.
DraftValid == pc \in Collecting \cup Sending => draft.valid

ValidInv == TypeOK /\ ReportTimed /\ WindowsCounters /\ platform \in Platforms /\ DraftValid

\* The disks identify themselves, wherever the agent runs.
DisksIdentified ==
    \A scan \in Scans : /\ "linux" \in Platforms => Identified(SysBlock, scan)
                        /\ "windows" \in Platforms => Identified(<<>>, scan)
=============================================================================
