--------------------------- MODULE HardwareHealth ---------------------------
(***************************************************************************)
(* How the agent merges what smartctl says of the disks with the block     *)
(* devices of sysfs (internal/agent/health.go).  A disk can be seen as a   *)
(* device of its own, through a RAID controller, or both, and the same     *)
(* disk may identify itself by a serial number, a WWN or neither.          *)
(*                                                                         *)
(* Vendor, model, size and the readings themselves are left out: nothing   *)
(* else depends on them.  A key is a tuple, so that the key "name|type" is *)
(* a pair; None is the empty string.                                       *)
(***************************************************************************)
EXTENDS Naturals, Sequences, SequencesExt

CONSTANT None

\* firstNonEmpty, for the keys of disks: the last value is never empty.
FirstNonEmpty(serial, wwn, other) ==
    IF serial # None THEN <<serial>> ELSE IF wwn # None THEN <<wwn>> ELSE other

\* A directory of /sys/block, from which collectBlockDevices makes a device.
BlockDevice(name, serial, wwn) ==
    [key |-> FirstNonEmpty(serial, wwn, <<name>>),
     name |-> name, serial |-> serial, wwn |-> wwn, raid |-> FALSE]

\* The answer of smartctl for one scanned device.  ok is FALSE when the command
\* failed, timed out or identified nothing.
Sample(name, type, serial, wwn) ==
    [ok |-> TRUE, name |-> name, type |-> type, serial |-> serial, wwn |-> wwn]

FailedSample(s) == [s EXCEPT !.ok = FALSE]

\* A type is a tuple: the driver and, behind a controller, the number of the disk.
IsRAIDSMARTType(type) ==
    type[1] \in {"megaraid", "aacraid", "areca", "3ware", "hpt", "cciss", "sssraid"}

BlockDeviceFromSMART(s) ==
    [key |-> FirstNonEmpty(s.serial, s.wwn, <<s.name, s.type>>),
     name |-> s.name, serial |-> s.serial, wwn |-> s.wwn, raid |-> IsRAIDSMARTType(s.type)]

Matches(device, candidate) ==
    \/ candidate.serial # None /\ candidate.serial = device.serial
    \/ candidate.wwn # None /\ candidate.wwn = device.wwn
    \/ candidate.name = device.name /\ ~candidate.raid

\* The first index that matches, 0 when there is none.
MatchBlockDevice(devices, candidate) ==
    LET hits == {i \in DOMAIN devices : Matches(devices[i], candidate)}
    IN IF hits = {} THEN 0 ELSE CHOOSE i \in hits : \A j \in hits : i <= j

\* The target keeps its key and its name.
MergeBlockDevice(target, source) ==
    [target EXCEPT !.serial = IF source.serial = None THEN @ ELSE source.serial,
                   !.wwn = IF source.wwn = None THEN @ ELSE source.wwn,
                   !.raid = source.raid]

\* Mutant: the reading is filed under the candidate's own key.
MergeSample_OwnKey(m, s) ==
    LET candidate == BlockDeviceFromSMART(s)
        i == MatchBlockDevice(m.devices, candidate)
    IN  IF ~s.ok THEN m
        ELSE [devices |-> IF i = 0 THEN Append(m.devices, candidate)
                          ELSE [m.devices EXCEPT ![i] = MergeBlockDevice(@, candidate)],
              health |-> m.health \cup {candidate.key}]

\* One turn of the loop.  health is the set of keys with a reading: only the
\* first reading of a key is kept.
MergeSample(m, s) ==
    LET candidate == BlockDeviceFromSMART(s)
        i == MatchBlockDevice(m.devices, candidate)
    IN  IF ~s.ok THEN m
        ELSE [devices |-> IF i = 0 THEN Append(m.devices, candidate)
                          ELSE [m.devices EXCEPT ![i] = MergeBlockDevice(@, candidate)],
              health |-> m.health \cup {IF i = 0 THEN candidate.key ELSE m.devices[i].key}]

\* The samples of a scan in the order of the scan, whatever the order in which
\* the concurrent smartctl processes end.
MergeSMARTSamples(devices, samples) ==
    FoldLeft(MergeSample, [devices |-> devices, health |-> {}], samples)

\* collectDisk asks for the counters of these.  (md, dm and multipath devices, for
\* which it does not ask either, are left out of the model.)
CounterNames(devices) == {devices[i].name : i \in {j \in DOMAIN devices : ~devices[j].raid}}

\* What validateInventory and validateMetrics of the central service require of
\* the block devices and of the readings.
KeysValid(m) ==
    /\ \A i, j \in DOMAIN m.devices : i # j => m.devices[i].key # m.devices[j].key
    /\ m.health \subseteq {m.devices[i].key : i \in DOMAIN m.devices}

-----------------------------------------------------------------------------
(***************************************************************************)
(* What the keys rest on: that the disks identify themselves.              *)
(***************************************************************************)

\* The disks as sysfs and smartctl present them.
Seen(devices, samples) ==
    {devices[i] : i \in DOMAIN devices} \cup
    {BlockDeviceFromSMART(samples[i]) : i \in {j \in DOMAIN samples : samples[j].ok}}

\* Behind each is one disk, here one of the presentations of it.  A serial number
\* and a WWN belong to one disk, which has no other; so does the name of a device
\* that is not behind a controller.  Disks behind a controller go by the name of
\* the controller's device, which then has to be in sysfs.
Presents(devices, samples, disk) ==
    \A a, b \in Seen(devices, samples) :
        /\ \/ a.serial # None /\ a.serial = b.serial
           \/ a.wwn # None /\ a.wwn = b.wwn
           \/ /\ a.name = b.name /\ ~a.raid
              /\ ~b.raid \/ \A i \in DOMAIN devices : devices[i].name # a.name
           => disk[a] = disk[b]
        /\ disk[a] = disk[b] => /\ None \in {a.serial, b.serial} \/ a.serial = b.serial
                                /\ None \in {a.wwn, b.wwn} \/ a.wwn = b.wwn

\* The block devices of sysfs are different disks, parseSMARTScan has dropped
\* repeated pairs of name and type, and no serial number is a WWN or a name.
Identified(devices, samples) ==
    LET S == Seen(devices, samples) IN
    /\ \E disk \in [S -> S] : Presents(devices, samples, disk)
    /\ \A i \in DOMAIN devices :
          devices[i] = BlockDevice(devices[i].name, devices[i].serial, devices[i].wwn)
    /\ \A i, j \in DOMAIN devices : i # j => devices[i].key # devices[j].key
    /\ \A i, j \in DOMAIN samples :
          i # j => <<samples[i].name, samples[i].type>> # <<samples[j].name, samples[j].type>>
    /\ \A a, b \in S : /\ a.serial # None => a.serial # b.wwn /\ a.serial # b.name
                       /\ a.wwn # None => a.wwn # b.name
=============================================================================
