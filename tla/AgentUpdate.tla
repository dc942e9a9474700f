---------------------------- MODULE AgentUpdate ----------------------------
(***************************************************************************)
(* The agent's processes on one host and how they update themselves        *)
(* (internal/agent/updater.go, run.go and cmd/agent/main.go).              *)
(*                                                                         *)
(* cron starts the agent at boot and every five minutes, whether or not it *)
(* runs; a file lock decides which process stays.  A report that is        *)
(* accepted may name a newer version, which is downloaded beside the       *)
(* executable, verified and renamed over it; then the lock is released and *)
(* the process executes the new file.  Processes crash anywhere, the       *)
(* service is deployed forwards and back, and downloads bring the wrong    *)
(* file or a damaged one.                                                  *)
(***************************************************************************)
EXTENDS VersionOrder

CONSTANTS
    Process,      \* processes that cron may have started
    Release,      \* versions of the agent, built for this host
    MaxDeploys,   \* bound: deployments of the service
    MaxCrashes,   \* bound: crashes
    None

ASSUME ReleaseAssumption == Release \subseteq Version
ASSUME NoneAssumption == None \notin Process /\ None \notin Release
ASSUME BoundAssumption == MaxDeploys \in Nat /\ MaxCrashes \in Nat

\* A file that prints version v; only the genuine one is what was published.
\* One that is not may still start and print the version.
Binary == [version : Release, genuine : BOOLEAN]
Genuine(v) == [version |-> v, genuine |-> TRUE]

VARIABLES
    server,       \* latestAgentVersion of the service
    executable,   \* the installed file
    lock,         \* the holder of the file lock
    pc,           \* where a process is
    running,      \* the version a process executes
    target,       \* the version it was asked to install
    expected,     \* the digest it read from checksums.txt: the file that has it
    temporary,    \* its temporary file
    rolledBack,   \* history: the service went back to an older version
    deploys, crashes

vars == <<server, executable, lock, pc, running, target, expected, temporary, rolledBack,
          deploys, crashes>>

serviceVars == <<server, rolledBack, deploys>>

Init ==
    /\ server \in Release
    /\ executable \in {Genuine(v) : v \in Release}
    /\ lock = None
    /\ pc = [p \in Process |-> "off"]
    /\ running = [p \in Process |-> None]
    /\ target = [p \in Process |-> None]
    /\ expected = [p \in Process |-> None]
    /\ temporary = [p \in Process |-> None]
    /\ rolledBack = FALSE
    /\ deploys = 0
    /\ crashes = 0

-----------------------------------------------------------------------------
(***************************************************************************)
(* main and AcquireLock.                                                   *)
(***************************************************************************)

\* A process ends; what it leaves in the directory is nobody's any more.
Exit(p) ==
    /\ pc' = [pc EXCEPT ![p] = "off"]
    /\ running' = [running EXCEPT ![p] = None]
    /\ target' = [target EXCEPT ![p] = None]
    /\ expected' = [expected EXCEPT ![p] = None]
    /\ temporary' = [temporary EXCEPT ![p] = None]

\* cron executes the installed file.
Start(p) ==
    /\ pc[p] = "off"
    /\ pc' = [pc EXCEPT ![p] = "starting"]
    /\ running' = [running EXCEPT ![p] = executable.version]
    /\ UNCHANGED <<serviceVars, executable, lock, target, expected, temporary, crashes>>

\* Mutant: the agent starts without asking for the lock.
LockFree_Ignored == TRUE

LockFree == lock = None

AcquireLock(p) ==
    /\ pc[p] = "starting"
    /\ LockFree
    /\ lock' = p
    /\ pc' = [pc EXCEPT ![p] = "running"]
    /\ UNCHANGED <<serviceVars, executable, running, target, expected, temporary, crashes>>

LockHeld(p) ==
    /\ pc[p] = "starting"
    /\ ~LockFree
    /\ Exit(p)
    /\ UNCHANGED <<serviceVars, executable, lock, crashes>>

-----------------------------------------------------------------------------
(***************************************************************************)
(* The receipt of a report and Updater.Apply.                              *)
(***************************************************************************)

\* Mutant: the comparison the wrong way round.
Receipt_Swapped(p) ==
    /\ pc[p] = "running"
    /\ Older(server, running[p])
    /\ target' = [target EXCEPT ![p] = server]
    /\ pc' = [pc EXCEPT ![p] = "asked"]
    /\ UNCHANGED <<serviceVars, executable, lock, running, expected, temporary, crashes>>

\* A report is accepted.  The service names its version if the report came from
\* an older one, and Apply compares again.
Receipt(p) ==
    /\ pc[p] = "running"
    /\ Older(running[p], server)
    /\ target' = [target EXCEPT ![p] = server]
    /\ pc' = [pc EXCEPT ![p] = "asked"]
    /\ UNCHANGED <<serviceVars, executable, lock, running, expected, temporary, crashes>>

\* Apply returns an error: the temporary file is removed and the loop goes on.
Abort(p) ==
    /\ pc' = [pc EXCEPT ![p] = "running"]
    /\ target' = [target EXCEPT ![p] = None]
    /\ expected' = [expected EXCEPT ![p] = None]
    /\ temporary' = [temporary EXCEPT ![p] = None]

\* checksums.txt of the target lists the digest of its file.
GetChecksums(p) ==
    /\ pc[p] = "asked"
    /\ expected' = [expected EXCEPT ![p] = Genuine(target[p])]
    /\ pc' = [pc EXCEPT ![p] = "listed"]
    /\ UNCHANGED <<serviceVars, executable, lock, running, target, temporary, crashes>>

\* The temporary file is written: the release, another one, or a damaged file.
Download(p, file) ==
    /\ pc[p] = "listed"
    /\ temporary' = [temporary EXCEPT ![p] = file]
    /\ pc' = [pc EXCEPT ![p] = "downloaded"]
    /\ UNCHANGED <<serviceVars, executable, lock, running, target, expected, crashes>>

\* The digest of the file, and what it prints for --version.
Verified(p) == temporary[p] = expected[p] /\ temporary[p].version = target[p]

Verify(p) ==
    /\ pc[p] = "downloaded"
    /\ Verified(p)
    /\ pc' = [pc EXCEPT ![p] = "verified"]
    /\ UNCHANGED <<serviceVars, executable, lock, running, target, expected, temporary, crashes>>

Refuse(p) ==
    /\ pc[p] = "downloaded"
    /\ ~Verified(p)
    /\ Abort(p)
    /\ UNCHANGED <<serviceVars, executable, lock, running, crashes>>

\* A download, a write or the rename fails.
Fail(p) ==
    /\ pc[p] \in {"asked", "listed", "verified"}
    /\ Abort(p)
    /\ UNCHANGED <<serviceVars, executable, lock, running, crashes>>

\* os.Rename, and Run returns ErrUpdateApplied.
Replace(p) ==
    /\ pc[p] = "verified"
    /\ executable' = temporary[p]
    /\ pc' = [pc EXCEPT ![p] = "replaced"]
    /\ target' = [target EXCEPT ![p] = None]
    /\ expected' = [expected EXCEPT ![p] = None]
    /\ temporary' = [temporary EXCEPT ![p] = None]
    /\ UNCHANGED <<serviceVars, lock, running, crashes>>

ReleaseLock(p) ==
    /\ pc[p] = "replaced"
    /\ lock' = None
    /\ pc' = [pc EXCEPT ![p] = "unlocked"]
    /\ UNCHANGED <<serviceVars, executable, running, target, expected, temporary, crashes>>

\* syscall.Exec: the same process starts again from the file.
Exec(p) ==
    /\ pc[p] = "unlocked"
    /\ running' = [running EXCEPT ![p] = executable.version]
    /\ pc' = [pc EXCEPT ![p] = "starting"]
    /\ UNCHANGED <<serviceVars, executable, lock, target, expected, temporary, crashes>>

-----------------------------------------------------------------------------
\* A signal, a failed exec or a reboot ends the process, and the kernel releases
\* its lock.
Crash(p) ==
    /\ pc[p] # "off"
    /\ crashes < MaxCrashes
    /\ crashes' = crashes + 1
    /\ lock' = IF lock = p THEN None ELSE lock
    /\ Exit(p)
    /\ UNCHANGED <<serviceVars, executable>>

\* The service is deployed with another version, newer or older.
Deploy(v) ==
    /\ deploys < MaxDeploys
    /\ deploys' = deploys + 1
    /\ server' = v
    /\ rolledBack' = (rolledBack \/ Older(v, server))
    /\ UNCHANGED <<executable, lock, pc, running, target, expected, temporary, crashes>>

Step(p) ==
    \/ Start(p)
    \/ AcquireLock(p)
    \/ LockHeld(p)
    \/ Receipt(p)
    \/ GetChecksums(p)
    \/ \E file \in Binary : Download(p, file)
    \/ Verify(p)
    \/ Refuse(p)
    \/ Fail(p)
    \/ Replace(p)
    \/ ReleaseLock(p)
    \/ Exec(p)

Next ==
    \/ \E p \in Process : Step(p) \/ Crash(p)
    \/ \E v \in Release : Deploy(v)

Spec == Init /\ [][Next]_vars

\* Processes run and cron keeps starting them.  Each of the steps that can fail
\* succeeds again and again when it is tried again and again.
Fairness ==
    \A p \in Process :
        /\ WF_vars(Step(p))
        /\ SF_vars(GetChecksums(p))
        /\ SF_vars(Download(p, Genuine(target[p])))
        /\ SF_vars(Replace(p))

FairSpec == Spec /\ Fairness

-----------------------------------------------------------------------------
(***************************************************************************)
(* Properties.                                                             *)
(***************************************************************************)

\* The variables have their types.
TypeOK ==
    /\ server \in Release
    /\ executable \in Binary
    /\ lock \in Process \cup {None}
    /\ pc \in [Process -> {"off", "starting", "running", "asked", "listed", "downloaded",
                           "verified", "replaced", "unlocked"}]
    /\ running \in [Process -> Release \cup {None}]
    /\ target \in [Process -> Release \cup {None}]
    /\ expected \in [Process -> Binary \cup {None}]
    /\ temporary \in [Process -> Binary \cup {None}]
    /\ rolledBack \in BOOLEAN
    /\ deploys \in Nat
    /\ crashes \in Nat

\* Whatever processes cron starts, wherever one crashes or hands over, and
\* whatever was downloaded, the installed file is only ever replaced by the
\* published file of a newer version (Apply, AcquireLock; README.md: no automatic
\* downgrade).  The exception: a process that cron started from the old file may
\* get the lock when the updated one gives it up, and if the service has since
\* been rolled back it takes an update that is older than the file.
NeverDowngraded ==
    [][executable' # executable =>
         /\ executable'.genuine
         /\ Older(executable.version, executable'.version) \/ rolledBack]_vars

\* In the end an agent reports, and it is not older than the service: the hand
\* over of the lock, failed updates and crashes leave neither the host without an
\* agent nor an old one in place.
UpToDateInTheEnd ==
    <>[](\E p \in Process : pc[p] = "running" /\ ~Older(running[p], server))

-----------------------------------------------------------------------------
(***************************************************************************)
(* Why NeverDowngraded holds: the parts of an inductive invariant.         *)
(***************************************************************************)

Updating == {"asked", "listed", "downloaded", "verified"}

\* The process lock: from AcquireLock to ReleaseLock nobody else has it.
HoldsLock == \A p \in Process : pc[p] \in Updating \cup {"running", "replaced"} => lock = p

\* What an update is about, and that a file is verified against the digest of
\* the published one.
UpdateSound ==
    \A p \in Process :
        /\ pc[p] # "off" => running[p] \in Release
        /\ pc[p] \in Updating => target[p] \in Release
        /\ pc[p] \in {"listed", "downloaded", "verified"} => expected[p] = Genuine(target[p])
        /\ pc[p] = "verified" => temporary[p] = Genuine(target[p])

\* The installed file is what was published.
ExecutableGenuine == executable = Genuine(executable.version)

\* As long as the service is not rolled back, a file installed since a process
\* was started is no newer than the service, and neither is a target; a target
\* is no older than the file.
TargetNotOlder ==
    ~rolledBack => \A p \in Process :
        /\ pc[p] # "off" => \/ running[p] = executable.version
                            \/ ~Older(server, executable.version)
        /\ pc[p] \in Updating => /\ ~Older(server, target[p])
                                 /\ ~Older(target[p], executable.version)

IInv == TypeOK /\ HoldsLock /\ UpdateSound /\ ExecutableGenuine /\ TargetNotOlder
=============================================================================
