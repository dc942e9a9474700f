----------------------------- MODULE Collector -----------------------------
(***************************************************************************)
(* Collection on a monitored host (internal/agent/collector.go and         *)
(* windows-agent/collector_windows.go): the counters of the kernel, the    *)
(* values the collector remembers, and the order in which one Collect      *)
(* reads, updates and fails.                                               *)
(*                                                                         *)
(* Traffic goes on while a collection runs, counters start again at zero   *)
(* when a device or the driver is reset, and devices come and go between   *)
(* two reads, with their old counters or with new ones.  One counter per   *)
(* device stands for the eight of an interface and the four of a disk: all *)
(* are treated alike.  On Windows counters have 32 bits and wrap.          *)
(***************************************************************************)
EXTENDS HardwareHealth, Integers

CONSTANTS
    Disk, Net,     \* names of disks and of network interfaces
    Platforms,     \* hosts considered: a subset of {"linux", "windows"}
    SysBlock,      \* the block devices of sysfs
    Scans,         \* what smartctl may answer: sequences of samples
    Mounts,        \* what may be mounted: sequences of partitions
    Width,         \* number of values of a counter on Windows: 2^32
    MaxInterval,   \* 3600 seconds
    MaxMoved,      \* bound: traffic of the host
    MaxPhantom,    \* bound: no device is removed or reset once there is so much of it
    MaxTime        \* bound: the clock

ASSUME CollectorAssumption ==
    /\ None \notin Nat
    /\ Width \in Nat \ {0}
    /\ MaxTime \in Nat
    /\ MaxInterval \in Nat \ {0}
    /\ SysBlock \in Seq(Range(SysBlock))
    /\ \A scan \in Scans : scan \in Seq(Range(scan))
    /\ \A partitions \in Mounts : partitions \in Seq(Range(partitions))

VARIABLES
    platform,      \* chosen by the initial state
    now,
    counter,       \* the kernel's counters
    absent,        \* the devices the kernel does not show
    moved,         \* history: the traffic there really was
    phantom,       \* history: what resets and returns may have added to it
    previous,      \* previousNet and previousDisk, or the state of a row
    last,          \* lastCollection, None before the first
    pc,            \* where the agent's loop is
    draft          \* the collection in progress, then the report

Device == Disk \cup Net
hostVars == <<platform, now, counter, absent, moved, phantom>>
collectorVars == <<previous, last, pc, draft>>

NoDelta == [d \in Device |-> 0]

Nothing == [minute |-> None, listed |-> {}, valid |-> TRUE, delta |-> NoDelta]

CollectorInit ==
    /\ platform \in Platforms
    /\ now = 0
    /\ counter = [d \in Device |-> 0]
    /\ absent = {}
    /\ moved = [d \in Device |-> 0]
    /\ phantom = [d \in Device |-> 0]
    /\ previous = [d \in Device |-> None]
    /\ last = None
    /\ pc = "waiting"
    /\ draft = Nothing

-----------------------------------------------------------------------------
(***************************************************************************)
(* The host.                                                               *)
(***************************************************************************)

AllMoved == SumFunction(moved)

Count(value) == IF platform = "windows" THEN value % Width ELSE value

\* Windows reads no counters of disks.
Counted == IF platform = "windows" THEN Net ELSE Device

Traffic(d) ==
    /\ d \notin absent
    /\ AllMoved < MaxMoved
    /\ moved' = [moved EXCEPT ![d] = @ + 1]
    /\ counter' = [counter EXCEPT ![d] = Count(@ + 1)]
    /\ UNCHANGED <<platform, now, absent, phantom>>

\* The device disappears: it is removed, renamed or moved to another namespace.
Detach(d) ==
    /\ d \notin absent
    /\ SumFunction(phantom) < MaxPhantom
    /\ absent' = absent \cup {d}
    /\ UNCHANGED <<platform, now, counter, moved, phantom>>

\* It is there again as it was.
Return(d) ==
    /\ d \in absent
    /\ absent' = absent \ {d}
    /\ UNCHANGED <<platform, now, counter, moved, phantom>>

\* The device or its driver starts again with counters at zero.  On Windows this
\* cannot be told from a wrap.
Reset(d) ==
    /\ counter[d] # 0
    /\ SumFunction(phantom) < MaxPhantom
    /\ counter' = [counter EXCEPT ![d] = 0]
    /\ absent' = absent \ {d}
    /\ phantom' = [phantom EXCEPT ![d] = IF platform = "windows" THEN @ + Width - 1 ELSE @]
    /\ UNCHANGED <<platform, now, moved>>

-----------------------------------------------------------------------------
(***************************************************************************)
(* Deltas.                                                                 *)
(***************************************************************************)

\* Mutant: unsigned subtraction without the check.
CounterDelta_Unchecked(current, prior) == IF current < prior THEN Width + current - prior
                                          ELSE current - prior

CounterDelta(current, prior) == IF current < prior THEN 0 ELSE current - prior

CounterDelta32(current, prior) == IF current >= prior THEN current - prior
                                  ELSE current + Width - prior

Delta(current, prior) ==
    CASE prior = None -> 0
      [] prior # None /\ platform = "windows" -> CounterDelta32(current, prior)
      [] OTHER -> CounterDelta(current, prior)

\* The devices of D are read as values; the delta of each goes to the draft and
\* its value replaces the previous one at once.
Read(D, value, report) ==
    /\ draft' = [report EXCEPT
                    !.delta = [d \in Device |-> IF d \in D THEN Delta(value[d], previous[d])
                                                ELSE draft.delta[d]]]
    /\ previous' = [d \in Device |-> IF d \in D THEN value[d] ELSE previous[d]]

-----------------------------------------------------------------------------
(***************************************************************************)
(* Inventory.  A partition that answers has ok; uuid is None when          *)
(* /dev/disk/by-uuid has no link to its device.                            *)
(***************************************************************************)

FilesystemKey(p) == IF p.uuid # None THEN <<p.uuid>> ELSE <<p.device, p.mount>>

\* A mount point is listed once and so is a filesystem that is mounted twice,
\* each by its first mount that answers.
AddFilesystem(list, p) ==
    IF /\ \A i \in DOMAIN list : /\ list[i].mount # p.mount
                                 /\ list[i].key # FilesystemKey(p)
       /\ p.ok
    THEN Append(list, [key |-> FilesystemKey(p), mount |-> p.mount])
    ELSE list

CollectFilesystemStats(partitions) == FoldLeft(AddFilesystem, <<>>, partitions)

\* validateInventory on the filesystems: one key each.
FilesystemsValid(list) == \A i, j \in DOMAIN list : i # j => list[i].key # list[j].key

\* What collectStorageHealth makes of the block devices: the disks with counters,
\* and whether the service will take the keys.
Inventory(devices, scan) ==
    LET m == MergeSMARTSamples(devices, scan)
    IN  [names |-> CounterNames(m.devices), valid |-> KeysValid(m)]

\* The outcomes of collectStorageHealth, with sysfs and without, and of
\* collectFilesystems.
LinuxDisks == {Inventory(SysBlock, scan) : scan \in Scans}
WindowsDisks == {Inventory(<<>>, scan) : scan \in Scans}
Filesystems == {FilesystemsValid(CollectFilesystemStats(partitions)) : partitions \in Mounts}

-----------------------------------------------------------------------------
(***************************************************************************)
(* Collect.                                                                *)
(***************************************************************************)

\* The timer fires: at once after the start and then every Interval, which may
\* be configured and is shortened by the time a collection takes.  Windows takes
\* the time of the report here.
StartCollect ==
    /\ pc = "waiting"
    /\ pc' = "started"
    /\ draft' = [Nothing EXCEPT !.minute = IF platform = "windows" THEN now ELSE None]
    /\ UNCHANGED <<hostVars, previous, last>>

\* An error before, between or after the reads ends the collection.  What was
\* read stays remembered, and the report is dropped.  Nothing fails on Windows
\* once the CPU times are read.
FailCollect ==
    /\ pc = "started" \/ (pc \in {"disks", "listed"} /\ platform = "linux")
    /\ pc' = "waiting"
    /\ draft' = Nothing
    /\ UNCHANGED <<hostVars, previous, last>>

\* Linux: collectBlockDevices, collectStorageHealth and collectDisk.  A disk that
\* has no counters is skipped.
CollectDisk ==
    \E m \in LinuxDisks :
        /\ pc = "started"
        /\ platform = "linux"
        /\ Read((Disk \cap m.names) \ absent, counter, [draft EXCEPT !.valid = m.valid])
        /\ pc' = "disks"
        /\ UNCHANGED <<hostVars, last>>

\* The filesystems and the list of interfaces.  The volumes of Windows have a
\* drive letter each, so that only Linux can have one twice.
ListInterfaces ==
    /\ pc = IF platform = "linux" THEN "disks" ELSE "started"
    /\ \E valid \in Filesystems :
        draft' = [draft EXCEPT !.listed = Net \ absent,
                               !.valid = @ /\ (platform = "linux" => valid)]
    /\ pc' = "listed"
    /\ UNCHANGED <<hostVars, previous, last>>

Clamped(interval) ==
    IF interval < 1 THEN 1 ELSE IF interval > MaxInterval THEN MaxInterval ELSE interval

\* The interval since the last collection that succeeded (at first the
\* configured one, which is in range) decides whether the report is valid.
Stamp(report, at) ==
    LET interval == IF last = None THEN 1 ELSE Clamped(at - last)
    IN  [report EXCEPT !.minute = at, !.listed = {},
                       !.valid = @ /\ interval \in 1..MaxInterval]

\* Linux: an interface listed above whose counters are gone reads as zero, so that
\* all of them are counted again if it returns as it was.  Nothing can fail any
\* more and the time is taken.
FinishLinux ==
    /\ pc = "listed"
    /\ platform = "linux"
    /\ Read(draft.listed, [d \in Device |-> IF d \in absent THEN 0 ELSE counter[d]],
            Stamp(draft, now))
    /\ phantom' = [d \in Device |-> IF d \in draft.listed \cap absent
                                    THEN phantom[d] + counter[d] ELSE phantom[d]]
    /\ last' = now
    /\ pc' = "sending"
    /\ UNCHANGED <<platform, now, counter, absent, moved>>

\* The rows of GetIfTable for the interfaces that were listed; none if it fails.
WindowsRows == {{}, draft.listed \ absent}

\* Windows: an interface without a row is skipped, and all block devices come from
\* smartctl.
FinishWindows ==
    /\ pc = "listed"
    /\ platform = "windows"
    /\ \E rows \in WindowsRows, m \in WindowsDisks :
        Read(rows, counter, [Stamp(draft, draft.minute) EXCEPT !.valid = @ /\ m.valid])
    /\ last' = draft.minute
    /\ pc' = "sending"
    /\ UNCHANGED hostVars
============================================================================
