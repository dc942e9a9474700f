---------------------------- MODULE ReleaseCache ----------------------------
(***************************************************************************)
(* The agent releases that the central service hands on                    *)
(* (internal/server/release_cache.go): GET /agent/releases/{version}/      *)
(* {asset} serves an asset bundled with the image or a file cached from    *)
(* upstream.                                                               *)
(*                                                                         *)
(* One mutex serializes the work on the cache directory, but a request     *)
(* opens the file it was given after it has released the mutex.  A         *)
(* download replaces the cached file (rename) before it is verified.       *)
(*                                                                         *)
(* Data.  A file is the release it belongs to, or garbage; the digest of   *)
(* a file is taken to identify it.  Checksums that parse are those of one  *)
(* release.  Local files can be read and removed: what fails is upstream,  *)
(* which may also answer 200 with something else.  Request contexts, disk  *)
(* errors while writing and the size limit are failed downloads.  Left     *)
(* out: headers, ranges, unknown names (404) and the write deadline.       *)
(***************************************************************************)
EXTENDS Integers

CONSTANTS
    Request,       \* requests in flight
    Asset,         \* names of the binaries
    Sums,          \* "checksums.txt"
    Latest,        \* the version name "latest"
    Asked,         \* the versions that clients ask for
    MaxRelease,    \* bound: releases published upstream
    Listed,        \* the assets in the checksums of each release
    Garbage,       \* contents that no checksums match and that do not parse
    Empty,         \* the garbage of size 0
    Bundle,        \* bundledDirectory: the versions it has, and their files
    TTL,           \* latestTTL, 10 minutes
    FetchTimeout,  \* http.Client.Timeout, 3 minutes
    MaxTime,       \* bound: the clock
    None           \* no file, no value

Release == 1..MaxRelease
Version == Release \cup {Latest}
File == Asset \cup {Sums}
Content == Release \cup Garbage

CachedFile == [content : Content, mtime : Nat]

ASSUME NameAssumption ==
    /\ Sums \notin Asset /\ Latest \notin Nat /\ Empty \in Garbage
    /\ Garbage \cap Nat = {} /\ None \notin Content \cup Nat \cup File \cup Version \cup CachedFile
    /\ None \notin Request
ASSUME TimeAssumption ==
    /\ MaxRelease \in Nat \ {0} /\ TTL \in Nat \ {0} /\ FetchTimeout \in Nat /\ MaxTime \in Nat
ASSUME ReleaseAssumption == Listed \in [Release -> SUBSET Asset] /\ Asked \subseteq Version
\* The image is built with the checksums of the version it names.
ASSUME BundleAssumption ==
    \E V \in SUBSET Version :
        /\ Bundle \in [V -> [File -> Content \cup {None}]]
        /\ \A v \in V \cap Release : Bundle[v][Sums] \in {v} \cup Garbage \cup {None}

VARIABLES
    now,        \* the clock
    latest,     \* the newest release upstream
    published,  \* when each release became the newest; read by properties only
    cache,      \* the cache directory
    mutex,      \* releaseCache.mu: the request that holds it
    req         \* the requests

vars == <<now, latest, published, cache, mutex, req>>

\* expect: the checksums read; fetch, since: a download under way;
\* stale, checked: how and when the checksums were obtained; answer: the body.
IdleReq == [pc |-> "idle", version |-> None, file |-> None, round |-> 1, expect |-> None,
            fetch |-> None, since |-> 0, stale |-> FALSE, checked |-> 0, answer |-> None]

Init ==
    /\ now = 0
    /\ latest = 1
    /\ published = [r \in Release |-> IF r = 1 THEN 0 ELSE None]
    /\ cache = [v \in Version |-> [f \in File |-> None]]
    /\ mutex = None
    /\ req = [r \in Request |-> IdleReq]

-----------------------------------------------------------------------------
(***************************************************************************)
(* Upstream, the clock and the service's life.                             *)
(***************************************************************************)

\* What a download of file f of version v may bring; nothing if upstream has no
\* such file (404).
Upstream(v, f) ==
    LET r == IF v = Latest THEN latest ELSE v IN
    IF r <= latest /\ (f = Sums \/ f \in Listed[r]) THEN {r} \cup Garbage ELSE {}

Publish ==
    /\ latest < MaxRelease
    /\ latest' = latest + 1
    /\ published' = [published EXCEPT ![latest + 1] = now]
    /\ UNCHANGED <<now, cache, mutex, req>>

\* No download outlasts the client's timeout.
Tick ==
    /\ now < MaxTime
    /\ \A r \in Request : req[r].fetch # None => now < req[r].since + FetchTimeout
    /\ now' = now + 1
    /\ UNCHANGED <<latest, published, cache, mutex, req>>

\* The service stops or crashes: the cache directory is a persistent volume.
Restart ==
    /\ mutex' = None
    /\ req' = [r \in Request |-> IdleReq]
    /\ UNCHANGED <<now, latest, published, cache>>

-----------------------------------------------------------------------------
(***************************************************************************)
(* Bundled assets: read-only files, no mutex.                              *)
(***************************************************************************)

HasBundle(v) == v \in DOMAIN Bundle /\ Bundle[v][Sums] # None

\* parseReleaseChecksums and checksumForAsset.
Lists(sums, f) == sums \in Release /\ (f = Sums \/ f \in Listed[sums])

\* What bundledAssetPath finds, None when it reports an error.
BundledAsset(v, f) ==
    IF Lists(Bundle[v][Sums], f) /\ Bundle[v][f] = Bundle[v][Sums] THEN Bundle[v][f] ELSE None

\* The request is answered; of its way only what the properties read is kept.
Answer(r, body) ==
    [req EXCEPT ![r] = [IdleReq EXCEPT !.pc = "done", !.version = req[r].version,
                            !.file = req[r].file, !.expect = req[r].expect,
                            !.stale = req[r].stale, !.checked = req[r].checked, !.answer = body]]

\* serve, with the look at the bundle: a bundled version is answered at once.
Arrive(r, v, f) ==
    /\ req[r].pc \in {"idle", "done"}
    /\ req' = [req EXCEPT ![r] =
            [IdleReq EXCEPT !.version = v, !.file = f,
                            !.pc = IF HasBundle(v) THEN "done" ELSE "waiting",
                            !.answer = IF HasBundle(v) THEN BundledAsset(v, f) ELSE None]]
    /\ UNCHANGED <<now, latest, published, cache, mutex>>

-----------------------------------------------------------------------------
(***************************************************************************)
(* ensureFile and downloadFile.                                            *)
(***************************************************************************)

\* Mutant: two requests work on the cache at once.
MutexFree_Ignored == TRUE

MutexFree == mutex = None

Lock(r) ==
    /\ req[r].pc = "waiting"
    /\ MutexFree
    /\ mutex' = r
    /\ req' = [req EXCEPT ![r].pc = "sums"]
    /\ UNCHANGED <<now, latest, published, cache>>

\* The file that request r is at.
Wanted(r) == IF req[r].pc = "sums" THEN Sums ELSE req[r].file

Usable(v, f) == cache[v][f] # None /\ cache[v][f].content # Empty

\* Mutant: a cached file of latest never expires.
Fresh_Forever(v, f) == Usable(v, f)

Fresh(v, f) == Usable(v, f) /\ (v = Latest => now - cache[v][f].mtime < TTL)

Put(v, f, c) == [cache EXCEPT ![v][f] = [content |-> c, mtime |-> now]]
Remove(v, F) == [cache EXCEPT ![v] = [f \in File |-> IF f \in F THEN None ELSE cache[v][f]]]

\* The mutex is released and the request goes on to open its file.
Return(r) ==
    /\ mutex' = None
    /\ req' = [req EXCEPT ![r] = [req[r] EXCEPT !.pc = "open"]]

\* Mutant: an error path that does not release the mutex.
Fail_KeepsMutex(r) ==
    /\ mutex' = mutex
    /\ req' = Answer(r, None)

\* The mutex is released and the answer is a 502.
Fail(r) ==
    /\ mutex' = None
    /\ req' = Answer(r, None)

\* assetPath once ensureFile has the checksums c, `files` being the directory.
WithSums(r, c, files, stale) ==
    LET v == req[r].version
        f == req[r].file
        step == [req[r] EXCEPT !.fetch = None, !.since = 0, !.expect = c, !.stale = stale, !.checked = now]
    IN
    \/ /\ Lists(c, f)
       /\ cache' = files
       /\ IF f = Sums
          THEN mutex' = None /\ req' = [req EXCEPT ![r] = [step EXCEPT !.pc = "open"]]
          ELSE mutex' = mutex /\ req' = [req EXCEPT ![r] = [step EXCEPT !.pc = "asset"]]
    \* Only the first attempt removes checksums it cannot use.
    \/ /\ ~Lists(c, f)
       /\ cache' = IF req[r].round = 1 THEN [files EXCEPT ![v][Sums] = None] ELSE files
       /\ Fail(r)

\* assetPath once ensureFile has the asset.
WithAsset(r, files) ==
    /\ cache' = files
    /\ mutex' = mutex
    /\ req' = [req EXCEPT ![r] = [req[r] EXCEPT !.pc = "verify", !.fetch = None, !.since = 0]]

\* ensureFile returned: `files` holds the file.
Ensured(r, files, stale) ==
    IF req[r].pc = "sums"
    THEN WithSums(r, files[req[r].version][Sums].content, files, stale)
    ELSE WithAsset(r, files)

Ensuring(r) == req[r].pc \in {"sums", "asset"}

\* A cached file that has not expired.
UseCached(r) ==
    /\ Ensuring(r) /\ req[r].fetch = None
    /\ Fresh(req[r].version, Wanted(r))
    /\ Ensured(r, cache, FALSE)
    /\ UNCHANGED <<now, latest, published>>

\* Upstream begins to answer with c.
StartDownload(r, c) ==
    /\ Ensuring(r) /\ req[r].fetch = None
    /\ ~Fresh(req[r].version, Wanted(r))
    /\ c \in Upstream(req[r].version, Wanted(r))
    /\ req' = [req EXCEPT ![r] = [req[r] EXCEPT !.fetch = c, !.since = now]]
    /\ UNCHANGED <<now, latest, published, cache, mutex>>

\* The temporary file is complete and is renamed.
FinishDownload(r) ==
    /\ Ensuring(r) /\ req[r].fetch # None
    /\ Ensured(r, Put(req[r].version, Wanted(r), req[r].fetch), FALSE)
    /\ UNCHANGED <<now, latest, published>>

\* The download fails, before or after it began: the expired file will do.
FailDownload(r) ==
    /\ Ensuring(r)
    /\ req[r].fetch = None => ~Fresh(req[r].version, Wanted(r))
    /\ \/ Usable(req[r].version, Wanted(r)) /\ Ensured(r, cache, TRUE)
       \/ ~Usable(req[r].version, Wanted(r)) /\ Fail(r) /\ UNCHANGED cache
    /\ UNCHANGED <<now, latest, published>>

-----------------------------------------------------------------------------
(***************************************************************************)
(* verifyReleaseAsset and the second attempt.                              *)
(***************************************************************************)

\* Mutant: the asset is not hashed.
Matches_Anything(r) == TRUE

Matches(r) == cache[req[r].version][req[r].file].content = req[r].expect

Verify(r) ==
    /\ req[r].pc = "verify"
    /\ Matches(r)
    /\ Return(r)
    /\ UNCHANGED <<now, latest, published, cache>>

\* Mutant: every mismatch is tried again.
Retry_Always(r) ==
    LET v == req[r].version IN
    /\ req[r].pc = "verify"
    /\ ~Matches(r)
    /\ cache' = Remove(v, IF v = Latest THEN {req[r].file, Sums} ELSE {req[r].file})
    /\ req' = [req EXCEPT ![r] = [req[r] EXCEPT !.round = @ + 1,
                                    !.pc = IF v = Latest THEN "sums" ELSE "asset"]]
    /\ UNCHANGED <<now, latest, published, mutex>>

\* The first mismatch removes the asset and, for latest, the checksums, which are
\* then downloaded again.
Retry(r) ==
    LET v == req[r].version IN
    /\ req[r].pc = "verify" /\ req[r].round = 1
    /\ ~Matches(r)
    /\ cache' = Remove(v, IF v = Latest THEN {req[r].file, Sums} ELSE {req[r].file})
    /\ req' = [req EXCEPT ![r] = [req[r] EXCEPT !.round = 2,
                                    !.pc = IF v = Latest THEN "sums" ELSE "asset"]]
    /\ UNCHANGED <<now, latest, published, mutex>>

GiveUp(r) ==
    /\ req[r].pc = "verify" /\ req[r].round = 2
    /\ ~Matches(r)
    /\ cache' = Remove(req[r].version, {req[r].file})
    /\ Fail(r)
    /\ UNCHANGED <<now, latest, published>>

\* os.Open after the mutex is released: the file that is there now, if any.
Open(r) ==
    LET f == cache[req[r].version][req[r].file] IN
    /\ req[r].pc = "open"
    /\ req' = Answer(r, IF f = None THEN None ELSE f.content)
    /\ UNCHANGED <<now, latest, published, cache, mutex>>

Step(r) ==
    \/ Lock(r)
    \/ UseCached(r)
    \/ \E c \in Content : StartDownload(r, c)
    \/ FinishDownload(r)
    \/ FailDownload(r)
    \/ Verify(r)
    \/ Retry(r)
    \/ GiveUp(r)
    \/ Open(r)

Next ==
    \/ \E r \in Request, v \in Asked, f \in File : Arrive(r, v, f)
    \/ \E r \in Request : Step(r)
    \/ Publish
    \/ Tick
    \/ Restart

\* Goroutines run, downloads end or time out, and sync.Mutex serves every waiter
\* in the end (its starvation mode hands the lock to the one that waits longest).
Fairness == \A r \in Request : WF_vars(Step(r)) /\ SF_vars(Lock(r))

Spec == Init /\ [][Next]_vars /\ Fairness

-----------------------------------------------------------------------------
(***************************************************************************)
(* Properties.                                                             *)
(***************************************************************************)

ReqState == [pc : {"idle", "waiting", "sums", "asset", "verify", "open", "done"},
             version : Version \cup {None}, file : File \cup {None}, round : {1, 2},
             expect : Content \cup {None}, fetch : Content \cup {None}, since : Nat,
             stale : BOOLEAN, checked : Nat, answer : Content \cup {None}]

\* The cache and the requests hold values of their types.
TypeOK ==
    /\ now \in Nat
    /\ latest \in Release
    /\ published \in [Release -> Nat \cup {None}]
    /\ cache \in [Version -> [File -> CachedFile \cup {None}]]
    /\ mutex \in Request \cup {None}
    /\ req \in [Request -> ReqState]

\* Until it is verified, an asset is compared with checksums that are still the
\* ones in the directory: nobody replaces them between the read and the use.
ExpectedIsStored ==
    \A r \in Request : req[r].pc \in {"asset", "verify"} =>
        LET sums == cache[req[r].version][Sums]
        IN  mutex = r /\ sums # None /\ sums.content = req[r].expect

\* Whatever upstream sends, and wherever the service crashed, an answer for a
\* numbered version is that release's file.
NumberedVersionsExact ==
    \A r \in Request :
        req[r].pc = "done" /\ req[r].version \in Release /\ req[r].answer # None
            => req[r].answer = req[r].version

\* README.md, the table of interfaces: the release interface returns assets that
\* the centre has verified.  So the binary sent is the one that was verified.
AnswersVerified ==
    \A r \in Request :
        /\ req[r].pc = "done" /\ req[r].file \in Asset /\ req[r].answer # None
        /\ ~HasBundle(req[r].version)
        => req[r].answer = req[r].expect

\* If upstream did not fail the request, the answer for latest is a release that
\* was the newest at most latestTTL and one download before the checksums were
\* looked at.
LatestWithinTTL ==
    \A r \in Request :
        /\ req[r].pc = "done" /\ req[r].version = Latest /\ ~HasBundle(Latest)
        /\ ~req[r].stale /\ req[r].answer \in Release /\ req[r].answer < latest
        => published[req[r].answer + 1] + TTL + FetchTimeout > req[r].checked

\* Every request is answered: the mutex is released on every path.
EveryRequestAnswered == \A r \in Request : req[r].pc = "waiting" ~> req[r].pc \in {"done", "idle"}

-----------------------------------------------------------------------------
(***************************************************************************)
(* Why the invariants hold: the parts of an inductive invariant.           *)
(***************************************************************************)

\* A request works on the directory only while it holds the mutex, downloads only
\* then, has the asset it is about to verify, and has no answer before it is done.
RequestsSound ==
    \A r \in Request :
        /\ req[r].pc # "idle" => req[r].version \in Version /\ req[r].file \in File
        /\ req[r].pc \in {"sums", "asset", "verify"} => mutex = r
        /\ req[r].pc \in {"asset", "verify"} => req[r].file \in Asset
        /\ req[r].pc = "verify" => cache[req[r].version][req[r].file] # None
        /\ req[r].fetch # None =>
                Ensuring(r) /\ req[r].since <= now /\ now <= req[r].since + FetchTimeout
        /\ req[r].checked <= now
        /\ req[r].pc # "done" => req[r].answer = None

\* Cached checksums of a numbered version are its own.
NumberedSums == \A v \in Release : cache[v][Sums] # None => cache[v][Sums].content = v

\* A request for a numbered version reads the checksums once, downloads only what
\* is missing, and opens a file that nobody replaces or removes.
NumberedRequests ==
    \A r \in Request : req[r].version \in Release =>
        LET v == req[r].version
            f == req[r].file
        IN  /\ req[r].pc \in {"waiting", "sums"} => req[r].round = 1
            /\ req[r].fetch # None => ~Usable(v, Wanted(r)) /\ req[r].fetch \in {v} \cup Garbage
            /\ req[r].pc = "open" /\ f \in Asset => cache[v][f] # None /\ cache[v][f].content = v

\* Release c was the newest until time t, if it is not the newest now.
NewestUntil(c, t) == c <= latest /\ (c < latest => published[c + 1] >= t)

\* The releases that are out have their date.
PublishedDates == \A c \in Release : c <= latest => published[c] \in Nat

\* A release cached or being downloaded as latest was the newest when its download
\* began.
LatestFiles ==
    \A f \in File : LET file == cache[Latest][f] IN
        file # None => /\ file.mtime <= now
                       /\ file.content \in Release => NewestUntil(file.content, file.mtime - FetchTimeout)

LatestDownloads ==
    \A r \in Request :
        req[r].version = Latest /\ req[r].fetch \in Release => NewestUntil(req[r].fetch, req[r].since)

\* Checksums were read at most one time to live after that, and a file that was
\* put in the way of the one verified is younger than the look at the checksums.
LatestRequests ==
    \A r \in Request : req[r].version = Latest =>
        LET file == cache[Latest][req[r].file] IN
        /\ ~req[r].stale /\ req[r].expect \in Release =>
                NewestUntil(req[r].expect, req[r].checked - TTL - FetchTimeout + 1)
        /\ req[r].pc = "open" /\ file # None =>
                file.content = req[r].expect \/ file.mtime >= req[r].checked
        /\ ~HasBundle(Latest) /\ ~req[r].stale /\ req[r].answer \in Release =>
                NewestUntil(req[r].answer, req[r].checked - TTL - FetchTimeout + 1)

IInv ==
    /\ TypeOK /\ RequestsSound /\ ExpectedIsStored
    /\ NumberedSums /\ NumberedRequests /\ NumberedVersionsExact
    /\ PublishedDates /\ LatestFiles /\ LatestDownloads /\ LatestRequests
============================================================================
