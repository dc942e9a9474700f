------------------------------ MODULE MCAgent ------------------------------
(***************************************************************************)
(* Instances of Agent: a host with one interface and two disks, one of     *)
(* them known to sysfs by its serial number and one only by its name.      *)
(***************************************************************************)
EXTENDS Agent

MCSysBlock == <<BlockDevice("sda", "s1", "w1"), BlockDevice("sdb", None, None)>>

\* The disks as smartctl may present them: directly, through a RAID controller
\* with and without identity, by WWN only, and a disk that sysfs does not show.
MCSamples == {Sample("sda", <<"scsi">>, "s1", None),
              Sample("sda", <<"megaraid", 0>>, "s1", "w1"),
              Sample("sdb", <<"sat">>, "s2", "w2"),
              Sample("sda", <<"megaraid", 1>>, None, "w2"),
              Sample("sda", <<"megaraid", 2>>, None, None),
              FailedSample(Sample("sdb", <<"sat">>, None, None))}

\* parseSMARTScan drops a pair of name and type that it has seen.
MCScans == {scan \in SeqOf(MCSamples, 3) :
                \A i, j \in DOMAIN scan : i # j => <<scan[i].name, scan[i].type>>
                                                     # <<scan[j].name, scan[j].type>>}

Mount(device, mount, uuid, ok) == [device |-> device, mount |-> mount, uuid |-> uuid, ok |-> ok]

\* A filesystem that is mounted twice, one without a UUID, and one that hangs.
MCMounts == SeqOf({Mount("sda", "/", "u1", TRUE), Mount("sda", "/srv", "u1", TRUE),
                   Mount("sda", "/", "u1", FALSE), Mount("nas", "/srv", None, TRUE)}, 3)
============================================================================
