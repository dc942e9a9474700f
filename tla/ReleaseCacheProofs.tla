------------------------- MODULE ReleaseCacheProofs -------------------------
(***************************************************************************)
(* The release cache answers for a numbered version with that release and  *)
(* for latest with a recent one, for any requests, assets, releases and    *)
(* time limits, whatever upstream sends and wherever the service stops.    *)
(***************************************************************************)
EXTENDS ReleaseCache, TLAPS

-----------------------------------------------------------------------------
(***************************************************************************)
(* Names and types.                                                        *)
(***************************************************************************)

LEMMA Names ==
    /\ Sums \notin Asset /\ Sums \in File /\ Asset \subseteq File
    /\ Latest \in Version /\ Latest \notin Release /\ Latest # None
    /\ Release \subseteq Nat /\ Release \subseteq Version /\ Release \subseteq Content
    /\ Garbage \subseteq Content /\ Empty \in Content /\ Empty \notin Release
    /\ Release \cap Garbage = {}
    /\ None \notin Content /\ None \notin Nat /\ None \notin File /\ None \notin Version
    /\ None \notin CachedFile /\ None \notin Request /\ None \notin Release /\ None \notin Garbage
BY NameAssumption, TimeAssumption DEF Version, Content, File, Release

\* A request by its fields.
LEMMA ReqFields ==
    ASSUME TypeOK, NEW r \in Request
    PROVE  /\ req[r] \in ReqState
           /\ req[r].pc \in {"idle", "waiting", "sums", "asset", "verify", "open", "done"}
           /\ req[r].version \in Version \cup {None} /\ req[r].file \in File \cup {None}
           /\ req[r].round \in {1, 2}
           /\ req[r].expect \in Content \cup {None} /\ req[r].fetch \in Content \cup {None}
           /\ req[r].since \in Nat /\ req[r].stale \in BOOLEAN /\ req[r].checked \in Nat
           /\ req[r].answer \in Content \cup {None}
BY DEF TypeOK, ReqState

\* A cached file by its fields.
LEMMA FileFields ==
    ASSUME TypeOK, NEW v \in Version, NEW f \in File, cache[v][f] # None
    PROVE  /\ cache[v][f] \in CachedFile
           /\ cache[v][f].content \in Content /\ cache[v][f].mtime \in Nat
BY DEF TypeOK, CachedFile

LEMMA IdleFields ==
    /\ IdleReq \in ReqState
    /\ IdleReq.pc = "idle" /\ IdleReq.version = None /\ IdleReq.file = None
    /\ IdleReq.round = 1 /\ IdleReq.expect = None /\ IdleReq.fetch = None /\ IdleReq.since = 0
    /\ IdleReq.stale = FALSE /\ IdleReq.checked = 0 /\ IdleReq.answer = None
BY DEF IdleReq, ReqState

-----------------------------------------------------------------------------
(***************************************************************************)
(* What the steps do to the request that takes them.                       *)
(***************************************************************************)

\* Only request r changes; it stays with its version and file.
Own(r) ==
    /\ req' \in [Request -> ReqState]
    /\ \A s \in Request : s # r => req'[s] = req[s]
    /\ req'[r].version = req[r].version /\ req'[r].file = req[r].file

\* What a step leaves alone when it only moves r on.
Same(r) ==
    /\ req'[r].expect = req[r].expect /\ req'[r].stale = req[r].stale
    /\ req'[r].checked = req[r].checked

\* r is answered with body.
Answered(r, body) ==
    Own(r) /\ Same(r) /\ req'[r].pc = "done" /\ req'[r].answer = body /\ req'[r].fetch = None

\* r moves on to p, no download under way.
Advanced(r, p) ==
    /\ Own(r) /\ Same(r) /\ req'[r].pc = p /\ req'[r].answer = req[r].answer
    /\ req'[r].round = req[r].round /\ req'[r].fetch = None

\* r has read the checksums c, which list its file.
ReadSums(r, c, stale) ==
    /\ Own(r)
    /\ req'[r].expect = c /\ req'[r].stale = stale /\ req'[r].checked = now
    /\ req'[r].answer = req[r].answer /\ req'[r].fetch = None
    /\ Lists(c, req[r].file)
    /\ \/ req[r].file = Sums /\ req'[r].pc = "open" /\ mutex' = None
       \/ req[r].file # Sums /\ req'[r].pc = "asset" /\ mutex' = mutex

LEMMA AnswerStep ==
    ASSUME TypeOK, NEW r \in Request, NEW body \in Content \cup {None}, req' = Answer(r, body)
    PROVE  Answered(r, body)
<1> DEFINE q == [IdleReq EXCEPT !.pc = "done", !.version = req[r].version,
                            !.file = req[r].file, !.expect = req[r].expect,
                            !.stale = req[r].stale, !.checked = req[r].checked, !.answer = body]
<1>1. q \in ReqState
  BY ReqFields, IdleFields DEF ReqState
<1>2. /\ q.pc = "done" /\ q.version = req[r].version /\ q.file = req[r].file
      /\ q.expect = req[r].expect /\ q.stale = req[r].stale /\ q.checked = req[r].checked
      /\ q.answer = body /\ q.fetch = None
  BY IdleFields DEF ReqState
<1>3. req \in [Request -> ReqState] /\ req' = [req EXCEPT ![r] = q]
  BY DEF TypeOK, Answer
<1> HIDE DEF q
<1> QED BY <1>1, <1>2, <1>3 DEF Answered, Own, Same

\* Updates of the request that keep its round, answer and checksums.
LEMMA AdvanceStep ==
    ASSUME TypeOK, NEW r \in Request, NEW p \in {"open", "verify"},
           req' = [req EXCEPT ![r] = [req[r] EXCEPT !.pc = p, !.fetch = None, !.since = 0]]
    PROVE  Advanced(r, p)
<1> DEFINE q == [req[r] EXCEPT !.pc = p, !.fetch = None, !.since = 0]
<1>0. req[r] \in ReqState
  BY ReqFields
<1>1. q \in ReqState
  BY <1>0 DEF ReqState
<1>2. /\ q.pc = p /\ q.version = req[r].version /\ q.file = req[r].file
      /\ q.expect = req[r].expect /\ q.stale = req[r].stale /\ q.checked = req[r].checked
      /\ q.answer = req[r].answer /\ q.fetch = None /\ q.round = req[r].round
  BY <1>0 DEF ReqState
<1>3. req \in [Request -> ReqState] /\ req' = [req EXCEPT ![r] = q]
  BY DEF TypeOK
<1> HIDE DEF q
<1> QED BY <1>1, <1>2, <1>3 DEF Advanced, Own, Same

\* WithSums: the checksums list the file, or the request fails.
LEMMA WithSumsCases ==
    ASSUME TypeOK, NEW r \in Request, NEW c \in Content, NEW files, NEW stale \in BOOLEAN,
           WithSums(r, c, files, stale)
    PROVE  \/ ReadSums(r, c, stale) /\ cache' = files
           \/ /\ Answered(r, None) /\ mutex' = None /\ ~Lists(c, req[r].file)
              /\ cache' = IF req[r].round = 1 THEN [files EXCEPT ![req[r].version][Sums] = None]
                                              ELSE files
<1> DEFINE step == [req[r] EXCEPT !.fetch = None, !.since = 0, !.expect = c, !.stale = stale, !.checked = now]
           o == [step EXCEPT !.pc = "open"]
           a == [step EXCEPT !.pc = "asset"]
<1>0. req[r] \in ReqState /\ now \in Nat
  BY ReqFields DEF TypeOK
<1>1. step \in ReqState
  BY <1>0 DEF ReqState
<1>2. /\ step.version = req[r].version /\ step.file = req[r].file /\ step.expect = c
      /\ step.stale = stale /\ step.checked = now /\ step.answer = req[r].answer /\ step.fetch = None
  BY <1>0 DEF ReqState
<1>3. req \in [Request -> ReqState]
  BY DEF TypeOK
<1>4. CASE /\ Lists(c, req[r].file) /\ req[r].file = Sums
           /\ cache' = files /\ mutex' = None /\ req' = [req EXCEPT ![r] = o]
  <2> HIDE DEF step
  <2>1. /\ o \in ReqState /\ o.pc = "open" /\ o.version = step.version /\ o.file = step.file
        /\ o.expect = step.expect /\ o.stale = step.stale /\ o.checked = step.checked
        /\ o.answer = step.answer /\ o.fetch = step.fetch
    BY <1>1 DEF ReqState
  <2> HIDE DEF o
  <2> QED BY <1>2, <1>3, <1>4, <2>1 DEF ReadSums, Own
<1>5. CASE /\ Lists(c, req[r].file) /\ req[r].file # Sums
           /\ cache' = files /\ mutex' = mutex /\ req' = [req EXCEPT ![r] = a]
  <2> HIDE DEF step
  <2>1. /\ a \in ReqState /\ a.pc = "asset" /\ a.version = step.version /\ a.file = step.file
        /\ a.expect = step.expect /\ a.stale = step.stale /\ a.checked = step.checked
        /\ a.answer = step.answer /\ a.fetch = step.fetch
    BY <1>1 DEF ReqState
  <2> HIDE DEF a
  <2> QED BY <1>2, <1>3, <1>5, <2>1 DEF ReadSums, Own
<1>6. CASE /\ ~Lists(c, req[r].file) /\ mutex' = None /\ req' = Answer(r, None)
           /\ cache' = IF req[r].round = 1 THEN [files EXCEPT ![req[r].version][Sums] = None]
                                           ELSE files
  BY <1>6, AnswerStep
<1> HIDE DEF step
<1> QED BY <1>4, <1>5, <1>6, Zenon DEF WithSums, Fail, step

-----------------------------------------------------------------------------
(***************************************************************************)
(* What the steps do to the directory.                                     *)
(***************************************************************************)

Directory == [Version -> [File -> CachedFile \cup {None}]]

LEMMA PutFile ==
    ASSUME TypeOK, NEW v \in Version, NEW f \in File, NEW c \in Content
    PROVE  /\ Put(v, f, c) \in Directory
           /\ Put(v, f, c)[v][f] # None
           /\ Put(v, f, c)[v][f].content = c /\ Put(v, f, c)[v][f].mtime = now
           /\ \A w \in Version, g \in File : w # v \/ g # f => Put(v, f, c)[w][g] = cache[w][g]
<1> DEFINE x == [content |-> c, mtime |-> now]
<1>1. x \in CachedFile /\ x # None /\ x.content = c /\ x.mtime = now
  BY Names DEF TypeOK, CachedFile
<1>2. cache \in Directory /\ Put(v, f, c) = [cache EXCEPT ![v][f] = x]
  BY DEF TypeOK, Directory, Put
<1> HIDE DEF x
<1> QED BY <1>1, <1>2 DEF Directory

LEMMA DropSums ==
    ASSUME NEW files \in Directory, NEW v \in Version
    PROVE  LET d == [files EXCEPT ![v][Sums] = None] IN
           /\ d \in Directory
           /\ d[v][Sums] = None
           /\ \A w \in Version, g \in File : w # v \/ g # Sums => d[w][g] = files[w][g]
BY Names DEF Directory

LEMMA RemoveFiles ==
    ASSUME TypeOK, NEW v \in Version, NEW F
    PROVE  /\ Remove(v, F) \in Directory
           /\ \A w \in Version, g \in File :
                    Remove(v, F)[w][g] = IF w = v /\ g \in F THEN None ELSE cache[w][g]
BY DEF TypeOK, Directory, Remove

\* The checksums stay when an asset is removed.
LEMMA RemoveKeepsSums ==
    ASSUME TypeOK, NEW v \in Version, NEW f \in Asset
    PROVE  Remove(v, {f})[v][Sums] = cache[v][Sums]
<1>1. Sums \in File /\ Sums \notin {f}
  BY Names
<1>2. cache \in [Version -> [File -> CachedFile \cup {None}]]
  BY DEF TypeOK, Directory
<1> QED BY <1>1, <1>2 DEF Remove

\* What ensureFile returned to r: the file it found, fresh or stale, or the one it
\* downloaded.
Ready(r, files, stale) ==
    LET v == req[r].version IN
    /\ Ensuring(r) /\ stale \in BOOLEAN
    /\ \/ files = cache /\ Usable(v, Wanted(r)) /\ (stale \/ Fresh(v, Wanted(r)))
       \/ files = Put(v, Wanted(r), req[r].fetch) /\ req[r].fetch # None /\ ~stale

LEMMA WantedFile ==
    ASSUME TypeOK, RequestsSound, NEW r \in Request, Ensuring(r)
    PROVE  /\ req[r].version \in Version /\ req[r].file \in File /\ Wanted(r) \in File
           /\ mutex = r
BY Names DEF RequestsSound, Ensuring, Wanted

\* The other files of the directory are as they were.
LEMMA ReadyFiles ==
    ASSUME TypeOK, RequestsSound, NEW r \in Request, NEW files, NEW stale, Ready(r, files, stale)
    PROVE  LET v == req[r].version
               w == Wanted(r)
           IN  /\ files \in Directory /\ files[v][w] # None
               /\ files[v][w].content \in Content /\ files[v][w].mtime \in Nat
               /\ \A u \in Version, g \in File : u # v \/ g # w => files[u][g] = cache[u][g]
               /\ \/ files[v][w] = cache[v][w] /\ Usable(v, w) /\ (stale \/ Fresh(v, w))
                  \/ /\ files[v][w].content = req[r].fetch /\ files[v][w].mtime = now
                     /\ req[r].fetch # None /\ ~stale
<1> DEFINE v == req[r].version
           w == Wanted(r)
<1>1. v \in Version /\ w \in File /\ Ensuring(r)
  BY WantedFile DEF Ready
<1>2. CASE files = cache /\ Usable(v, w) /\ (stale \/ Fresh(v, w))
  <2>1. cache[v][w] # None
    BY <1>2 DEF Usable
  <2> QED BY <1>1, <1>2, <2>1, FileFields DEF TypeOK, Directory
<1>3. CASE files = Put(v, w, req[r].fetch) /\ req[r].fetch # None /\ ~stale
  <2>1. req[r].fetch \in Content /\ now \in Nat
    BY <1>3, ReqFields DEF TypeOK
  <2> QED BY <1>1, <1>3, <2>1, PutFile
<1> QED BY <1>2, <1>3 DEF Ready

\* ensureFile ends with a file or the request fails.
LEMMA EnsureCases ==
    ASSUME TypeOK, RequestsSound, NEW r \in Request,
           UseCached(r) \/ FinishDownload(r) \/ FailDownload(r)
    PROVE  /\ UNCHANGED <<now, latest, published>>
           /\ Ensuring(r)
           /\ \/ \E files, stale : Ready(r, files, stale) /\ Ensured(r, files, stale)
              \/ Answered(r, None) /\ mutex' = None /\ cache' = cache
<1>1. CASE UseCached(r)
  <2>1. Ready(r, cache, FALSE) /\ Ensured(r, cache, FALSE)
    BY <1>1 DEF UseCached, Ready, Fresh
  <2> QED BY <1>1, <2>1 DEF UseCached
<1>2. CASE FinishDownload(r)
  <2> DEFINE files == Put(req[r].version, Wanted(r), req[r].fetch)
  <2>1. Ready(r, files, FALSE) /\ Ensured(r, files, FALSE)
    BY <1>2 DEF FinishDownload, Ready
  <2> HIDE DEF files
  <2> QED BY <1>2, <2>1 DEF FinishDownload
<1>3. CASE FailDownload(r)
  <2>1. CASE Usable(req[r].version, Wanted(r)) /\ Ensured(r, cache, TRUE)
    <3>1. Ready(r, cache, TRUE)
      BY <1>3, <2>1 DEF FailDownload, Ready
    <3> QED BY <1>3, <2>1, <3>1 DEF FailDownload
  <2>2. CASE Fail(r) /\ UNCHANGED cache
    <3>1. Answered(r, None)
      BY <2>2, AnswerStep DEF Fail
    <3> QED BY <1>3, <2>2, <3>1 DEF FailDownload, Fail
  <2> QED BY <1>3, <2>1, <2>2 DEF FailDownload
<1> QED BY <1>1, <1>2, <1>3

\* After ensureFile: the checksums are used or refused, the asset is verified next.
LEMMA EnsuredCases ==
    ASSUME TypeOK, RequestsSound, NEW r \in Request, NEW files, NEW stale,
           Ready(r, files, stale), Ensured(r, files, stale)
    PROVE  LET v == req[r].version
               c == files[v][Sums].content
           IN  \/ req[r].pc = "sums" /\ ReadSums(r, c, stale) /\ cache' = files
               \/ /\ req[r].pc = "sums" /\ Answered(r, None) /\ mutex' = None
                  /\ ~Lists(c, req[r].file)
                  /\ cache' = IF req[r].round = 1 THEN [files EXCEPT ![v][Sums] = None] ELSE files
               \/ req[r].pc = "asset" /\ Advanced(r, "verify") /\ mutex' = mutex /\ cache' = files
<1> DEFINE v == req[r].version
           c == files[v][Sums].content
<1>1. CASE req[r].pc = "sums"
  <2>1. Wanted(r) = Sums
    BY <1>1 DEF Wanted
  <2>2. c \in Content /\ stale \in BOOLEAN
    BY <2>1, ReadyFiles DEF Ready
  <2>3. WithSums(r, c, files, stale)
    BY <1>1 DEF Ensured
  <2> HIDE DEF c
  <2> QED BY <1>1, <2>2, <2>3, WithSumsCases DEF c
<1>2. CASE req[r].pc # "sums"
  <2>1. WithAsset(r, files) /\ req[r].pc = "asset"
    BY <1>2 DEF Ensured, Ready, Ensuring
  <2> QED BY <2>1, AdvanceStep DEF WithAsset
<1> QED BY <1>1, <1>2

-----------------------------------------------------------------------------
(***************************************************************************)
(* The other steps of a request.                                           *)
(***************************************************************************)

LEMMA ArriveStep ==
    ASSUME TypeOK, NEW r \in Request, NEW v \in Version, NEW f \in File, Arrive(r, v, f)
    PROVE  /\ req' \in [Request -> ReqState]
           /\ \A s \in Request : s # r => req'[s] = req[s]
           /\ req'[r].version = v /\ req'[r].file = f /\ req'[r].expect = None
           /\ req'[r].fetch = None /\ req'[r].checked = 0 /\ req'[r].pc \in {"waiting", "done"}
           /\ req'[r].round = 1
           /\ HasBundle(v) => req'[r].pc = "done" /\ req'[r].answer = BundledAsset(v, f)
           /\ ~HasBundle(v) => req'[r].pc = "waiting" /\ req'[r].answer = None
           /\ UNCHANGED <<now, latest, published, cache, mutex>>
<1> DEFINE b == BundledAsset(v, f)
<1>0. req \in [Request -> ReqState]
  BY DEF TypeOK
<1>1. CASE HasBundle(v)
  <2>1. b \in Content \cup {None}
    <3>1. \A V : Bundle \in [V -> [File -> Content \cup {None}]] => V = DOMAIN Bundle
      OBVIOUS
    <3>2. Bundle[v][f] \in Content \cup {None}
      BY <1>1, <3>1, BundleAssumption DEF HasBundle
    <3> QED BY <3>2 DEF BundledAsset
  <2> HIDE DEF b
  <2> DEFINE q == [IdleReq EXCEPT !.version = v, !.file = f, !.pc = "done", !.answer = b]
  <2>2. req' = [req EXCEPT ![r] = q]
    BY <1>1 DEF Arrive, b
  <2>3. q \in ReqState
    BY <2>1, IdleFields DEF ReqState
  <2>4. /\ q.pc = "done" /\ q.version = v /\ q.file = f /\ q.expect = None /\ q.fetch = None
        /\ q.checked = 0 /\ q.answer = b /\ q.round = 1
    BY IdleFields DEF ReqState
  <2> HIDE DEF q
  <2> QED BY <1>0, <1>1, <2>2, <2>3, <2>4 DEF Arrive, b
<1>2. CASE ~HasBundle(v)
  <2> DEFINE q == [IdleReq EXCEPT !.version = v, !.file = f, !.pc = "waiting", !.answer = None]
  <2>2. req' = [req EXCEPT ![r] = q]
    BY <1>2 DEF Arrive
  <2>3. q \in ReqState
    BY IdleFields DEF ReqState
  <2>4. /\ q.pc = "waiting" /\ q.version = v /\ q.file = f /\ q.expect = None /\ q.fetch = None
        /\ q.checked = 0 /\ q.answer = None /\ q.round = 1
    BY IdleFields DEF ReqState
  <2> HIDE DEF q
  <2> QED BY <1>0, <1>2, <2>2, <2>3, <2>4 DEF Arrive
<1> QED BY <1>1, <1>2

LEMMA LockStep ==
    ASSUME TypeOK, NEW r \in Request, Lock(r)
    PROVE  /\ Own(r) /\ Same(r) /\ req[r].pc = "waiting" /\ req'[r].pc = "sums"
           /\ req'[r].fetch = req[r].fetch /\ req'[r].since = req[r].since
           /\ req'[r].answer = req[r].answer /\ req'[r].round = req[r].round
           /\ mutex = None /\ mutex' = r
           /\ UNCHANGED <<now, latest, published, cache>>
<1> DEFINE q == [req[r] EXCEPT !.pc = "sums"]
<1>0. req[r] \in ReqState /\ req \in [Request -> ReqState]
  BY ReqFields DEF TypeOK
<1>1. q \in ReqState
  BY <1>0 DEF ReqState
<1>2. /\ q.pc = "sums" /\ q.version = req[r].version /\ q.file = req[r].file
      /\ q.expect = req[r].expect /\ q.stale = req[r].stale /\ q.checked = req[r].checked
      /\ q.answer = req[r].answer /\ q.fetch = req[r].fetch /\ q.since = req[r].since
      /\ q.round = req[r].round
  BY <1>0 DEF ReqState
<1>3. req' = [req EXCEPT ![r] = q]
  BY DEF Lock
<1> HIDE DEF q
<1> QED BY <1>0, <1>1, <1>2, <1>3 DEF Lock, MutexFree, Own, Same

LEMMA StartStep ==
    ASSUME TypeOK, NEW r \in Request, NEW c \in Content, StartDownload(r, c)
    PROVE  /\ Own(r) /\ Same(r) /\ Ensuring(r) /\ req'[r].pc = req[r].pc
           /\ ~Fresh(req[r].version, Wanted(r)) /\ c \in Upstream(req[r].version, Wanted(r))
           /\ req'[r].fetch = c /\ req'[r].since = now
           /\ req'[r].answer = req[r].answer /\ req'[r].round = req[r].round
           /\ UNCHANGED <<now, latest, published, cache, mutex>>
<1> DEFINE q == [req[r] EXCEPT !.fetch = c, !.since = now]
<1>0. req[r] \in ReqState /\ req \in [Request -> ReqState] /\ now \in Nat
  BY ReqFields DEF TypeOK
<1>1. q \in ReqState
  BY <1>0 DEF ReqState
<1>2. /\ q.pc = req[r].pc /\ q.version = req[r].version /\ q.file = req[r].file
      /\ q.expect = req[r].expect /\ q.stale = req[r].stale /\ q.checked = req[r].checked
      /\ q.answer = req[r].answer /\ q.fetch = c /\ q.since = now /\ q.round = req[r].round
  BY <1>0 DEF ReqState
<1>3. req' = [req EXCEPT ![r] = q]
  BY DEF StartDownload
<1> HIDE DEF q
<1> QED BY <1>0, <1>1, <1>2, <1>3 DEF StartDownload, Own, Same

LEMMA VerifyStep ==
    ASSUME TypeOK, RequestsSound, NEW r \in Request, Verify(r)
    PROVE  /\ req[r].pc = "verify" /\ Matches(r)
           /\ Advanced(r, "open") /\ mutex' = None
           /\ UNCHANGED <<now, latest, published, cache>>
<1> DEFINE q == [req[r] EXCEPT !.pc = "open"]
<1>0. req[r] \in ReqState /\ req \in [Request -> ReqState] /\ req[r].fetch = None
  BY ReqFields DEF TypeOK, RequestsSound, Verify, Ensuring
<1>1. q \in ReqState
  BY <1>0 DEF ReqState
<1>2. /\ q.pc = "open" /\ q.version = req[r].version /\ q.file = req[r].file
      /\ q.expect = req[r].expect /\ q.stale = req[r].stale /\ q.checked = req[r].checked
      /\ q.answer = req[r].answer /\ q.fetch = req[r].fetch /\ q.round = req[r].round
  BY <1>0 DEF ReqState
<1>3. req' = [req EXCEPT ![r] = q]
  BY DEF Verify, Return
<1> HIDE DEF q
<1> QED BY <1>0, <1>1, <1>2, <1>3 DEF Verify, Return, Advanced, Own, Same

LEMMA RetryStep ==
    ASSUME TypeOK, RequestsSound, NEW r \in Request, Retry(r)
    PROVE  LET v == req[r].version IN
           /\ req[r].pc = "verify" /\ ~Matches(r)
           /\ Own(r) /\ Same(r) /\ req'[r].answer = req[r].answer /\ req'[r].fetch = None
           /\ req'[r].pc = IF v = Latest THEN "sums" ELSE "asset"
           /\ cache' = Remove(v, IF v = Latest THEN {req[r].file, Sums} ELSE {req[r].file})
           /\ UNCHANGED <<now, latest, published, mutex>>
<1> DEFINE p == IF req[r].version = Latest THEN "sums" ELSE "asset"
           q == [req[r] EXCEPT !.round = 2, !.pc = p]
<1>0. req[r] \in ReqState /\ req \in [Request -> ReqState] /\ req[r].fetch = None
  BY ReqFields DEF TypeOK, RequestsSound, Retry, Ensuring
<1>1. p \in {"sums", "asset"}
  OBVIOUS
<1>2. req' = [req EXCEPT ![r] = q]
  BY DEF Retry
<1> HIDE DEF p
<1>3. q \in ReqState
  BY <1>0, <1>1 DEF ReqState
<1>4. /\ q.pc = p /\ q.version = req[r].version /\ q.file = req[r].file
      /\ q.expect = req[r].expect /\ q.stale = req[r].stale /\ q.checked = req[r].checked
      /\ q.answer = req[r].answer /\ q.fetch = req[r].fetch
  BY <1>0 DEF ReqState
<1> HIDE DEF q
<1> QED BY <1>0, <1>2, <1>3, <1>4 DEF Retry, Own, Same, p

LEMMA GiveUpStep ==
    ASSUME TypeOK, NEW r \in Request, GiveUp(r)
    PROVE  /\ req[r].pc = "verify" /\ ~Matches(r)
           /\ Answered(r, None) /\ mutex' = None
           /\ cache' = Remove(req[r].version, {req[r].file})
           /\ UNCHANGED <<now, latest, published>>
BY AnswerStep DEF GiveUp, Fail

LEMMA OpenStep ==
    ASSUME TypeOK, RequestsSound, NEW r \in Request, Open(r)
    PROVE  LET f == cache[req[r].version][req[r].file] IN
           /\ req[r].pc = "open"
           /\ Answered(r, IF f = None THEN None ELSE f.content)
           /\ UNCHANGED <<now, latest, published, cache, mutex>>
<1> DEFINE f == cache[req[r].version][req[r].file]
           b == IF f = None THEN None ELSE f.content
<1>1. req[r].version \in Version /\ req[r].file \in File
  BY DEF RequestsSound, Open
<1>2. b \in Content \cup {None}
  BY <1>1, FileFields
<1>3. req' = Answer(r, b)
  BY DEF Open
<1> HIDE DEF b
<1>4. Answered(r, b)
  BY <1>2, <1>3, AnswerStep
<1> QED BY <1>4 DEF Open, b

LEMMA RestartStep ==
    ASSUME Restart
    PROVE  /\ req' \in [Request -> ReqState] /\ mutex' = None
           /\ \A r \in Request : req'[r] = IdleReq
           /\ UNCHANGED <<now, latest, published, cache>>
BY IdleFields DEF Restart

-----------------------------------------------------------------------------
(***************************************************************************)
(* The invariant at the start, and its types.                              *)
(***************************************************************************)

LEMMA InitIInv == Init => IInv
<1> SUFFICES ASSUME Init PROVE IInv
  OBVIOUS
<1>0. /\ now = 0 /\ latest = 1 /\ mutex = None
      /\ \A r \in Request : req[r] = IdleReq
      /\ \A v \in Version, f \in File : cache[v][f] = None
  BY DEF Init
<1>1. TypeOK
  BY IdleFields, TimeAssumption DEF Init, TypeOK, Release
<1>2. RequestsSound /\ ExpectedIsStored
  BY <1>0, IdleFields DEF RequestsSound, ExpectedIsStored
<1>3. NumberedSums /\ NumberedRequests /\ NumberedVersionsExact
  BY <1>0, IdleFields, Names DEF NumberedSums, NumberedRequests, NumberedVersionsExact
<1>4. PublishedDates /\ LatestFiles /\ LatestDownloads /\ LatestRequests
  <2>1. PublishedDates
    <3>1. \A c \in Release : c <= latest => c = 1
      BY <1>0, TimeAssumption DEF Release
    <3> QED BY <3>1 DEF Init, PublishedDates
  <2>2. LatestFiles /\ LatestDownloads /\ LatestRequests
    BY <1>0, IdleFields, Names DEF LatestFiles, LatestDownloads, LatestRequests
  <2> QED BY <2>1, <2>2
<1> QED BY <1>1, <1>2, <1>3, <1>4 DEF IInv

LEMMA NextTypeOK ==
    TypeOK /\ RequestsSound /\ [Next]_vars => TypeOK'
<1> SUFFICES ASSUME TypeOK, RequestsSound, [Next]_vars PROVE TypeOK'
  OBVIOUS
<1>0. now \in Nat /\ latest \in Release /\ published \in [Release -> Nat \cup {None}]
      /\ cache \in Directory /\ mutex \in Request \cup {None} /\ req \in [Request -> ReqState]
  BY DEF TypeOK, Directory
<1>1. ASSUME NEW r \in Request, NEW v \in Asked, NEW f \in File, Arrive(r, v, f) PROVE TypeOK'
  BY <1>0, <1>1, ArriveStep, ReleaseAssumption DEF TypeOK, Directory
<1>2. ASSUME NEW r \in Request, Lock(r) PROVE TypeOK'
  BY <1>0, <1>2, LockStep DEF TypeOK, Directory, Own
<1>3. ASSUME NEW r \in Request, UseCached(r) \/ FinishDownload(r) \/ FailDownload(r) PROVE TypeOK'
  <2>1. UNCHANGED <<now, latest, published>> /\ Ensuring(r)
    BY <1>3, EnsureCases
  <2>2. CASE Answered(r, None) /\ mutex' = None /\ cache' = cache
    BY <1>0, <2>1, <2>2 DEF Answered, Own, TypeOK, Directory
  <2>3. ASSUME NEW files, NEW stale, Ready(r, files, stale), Ensured(r, files, stale) PROVE TypeOK'
    <3>1. files \in Directory /\ req[r].version \in Version
      BY <2>1, <2>3, ReadyFiles, WantedFile
    <3>2. [files EXCEPT ![req[r].version][Sums] = None] \in Directory
      BY <3>1, DropSums
    <3>3. cache' \in Directory
      BY <2>3, <3>1, <3>2, EnsuredCases
    <3>4. mutex' \in Request \cup {None} /\ req' \in [Request -> ReqState]
      BY <1>0, <2>3, EnsuredCases DEF ReadSums, Answered, Advanced, Own
    <3> QED BY <1>0, <2>1, <3>3, <3>4 DEF TypeOK, Directory
  <2> QED BY <1>3, <2>2, <2>3, EnsureCases
<1>4. ASSUME NEW r \in Request, NEW c \in Content, StartDownload(r, c) PROVE TypeOK'
  BY <1>0, <1>4, StartStep DEF TypeOK, Directory, Own
<1>5. ASSUME NEW r \in Request, Verify(r) PROVE TypeOK'
  BY <1>0, <1>5, VerifyStep DEF TypeOK, Directory, Advanced, Own
<1>6. ASSUME NEW r \in Request, Retry(r) PROVE TypeOK'
  <2>1. req[r].version \in Version
    BY <1>6 DEF Retry, RequestsSound
  <2>2. cache' \in Directory
    <3>1. \A F : Remove(req[r].version, F) \in Directory
      BY <2>1, RemoveFiles
    <3> QED BY <1>6, <3>1, RetryStep
  <2> QED BY <1>0, <1>6, <2>2, RetryStep DEF TypeOK, Directory, Own
<1>7. ASSUME NEW r \in Request, GiveUp(r) PROVE TypeOK'
  <2>1. req[r].version \in Version
    BY <1>7 DEF GiveUp, RequestsSound
  <2>2. cache' \in Directory
    <3>1. \A F : Remove(req[r].version, F) \in Directory
      BY <2>1, RemoveFiles
    <3> QED BY <1>7, <3>1, GiveUpStep
  <2> QED BY <1>0, <1>7, <2>2, GiveUpStep DEF TypeOK, Directory, Answered, Own
<1>8. ASSUME NEW r \in Request, Open(r) PROVE TypeOK'
  BY <1>0, <1>8, OpenStep DEF TypeOK, Directory, Answered, Own
<1>9. CASE Publish
  <2>1. latest + 1 \in Release
    BY <1>0, <1>9, TimeAssumption DEF Publish, Release
  <2> QED BY <1>0, <1>9, <2>1 DEF Publish, TypeOK, Directory
<1>10. CASE Tick
  BY <1>0, <1>10 DEF Tick, TypeOK, Directory
<1>11. CASE Restart
  BY <1>0, <1>11, RestartStep DEF TypeOK, Directory
<1>12. CASE UNCHANGED vars
  BY <1>0, <1>12 DEF vars, TypeOK, Directory
<1> QED BY <1>1, <1>2, <1>3, <1>4, <1>5, <1>6, <1>7, <1>8, <1>9, <1>10, <1>11, <1>12
        DEF Next, Step

-----------------------------------------------------------------------------
(***************************************************************************)
(* The mutex, and the checksums an asset is compared with.                 *)
(***************************************************************************)

\* While r holds the mutex no other request works on the directory.
LEMMA OthersWait ==
    ASSUME RequestsSound, NEW r \in Request, mutex = r, NEW s \in Request, s # r
    PROVE  req[s].pc \notin {"sums", "asset", "verify"} /\ req[s].fetch = None
BY DEF RequestsSound, Ensuring

\* The part of RequestsSound that says of one request.
RequestSound(r) ==
    /\ req[r].pc # "idle" => req[r].version \in Version /\ req[r].file \in File
    /\ req[r].pc \in {"sums", "asset", "verify"} => mutex = r
    /\ req[r].pc \in {"asset", "verify"} => req[r].file \in Asset
    /\ req[r].pc = "verify" => cache[req[r].version][req[r].file] # None
    /\ req[r].fetch # None =>
            Ensuring(r) /\ req[r].since <= now /\ now <= req[r].since + FetchTimeout
    /\ req[r].checked <= now
    /\ req[r].pc # "done" => req[r].answer = None

\* A request that does not work on the directory stays sound when another one does.
LEMMA OthersSound ==
    ASSUME RequestsSound, NEW r \in Request, mutex = r, now' = now,
           \A s \in Request : s # r => req'[s] = req[s]
    PROVE  \A s \in Request : s # r => RequestSound(s)'
<1> TAKE s \in Request
<1> HAVE s # r
<1>1. req'[s] = req[s] /\ req[s].pc \notin {"sums", "asset", "verify"} /\ req[s].fetch = None
  BY OthersWait
<1> QED BY <1>1 DEF RequestsSound, RequestSound

\* The asset is compared with the checksums in the directory.
ExpectStored(r) ==
    req[r].pc \in {"asset", "verify"} =>
        /\ mutex = r /\ cache[req[r].version][Sums] # None
        /\ cache[req[r].version][Sums].content = req[r].expect

LEMMA NextRequests ==
    TypeOK /\ RequestsSound /\ ExpectedIsStored /\ [Next]_vars
        => RequestsSound' /\ ExpectedIsStored'
<1> SUFFICES ASSUME TypeOK, RequestsSound, ExpectedIsStored, [Next]_vars
             PROVE  \A s \in Request : RequestSound(s)' /\ ExpectStored(s)'
  BY DEF RequestsSound, RequestSound, ExpectedIsStored, ExpectStored
<1>0. /\ now \in Nat
      /\ \A s \in Request : RequestSound(s) /\ ExpectStored(s)
  BY DEF TypeOK, RequestsSound, RequestSound, ExpectedIsStored, ExpectStored
<1> USE TimeAssumption, Names
<1> DEFINE Goal == \A s \in Request : RequestSound(s)' /\ ExpectStored(s)'
\* The requests other than r, when r holds the mutex.
<1>a. ASSUME NEW r \in Request, mutex = r, now' = now, Own(r)
      PROVE  \A s \in Request : s # r => RequestSound(s)' /\ ExpectStored(s)'
  <2>1. \A s \in Request : s # r => RequestSound(s)'
    BY <1>a, OthersSound DEF Own
  <2>2. \A s \in Request : s # r => ExpectStored(s)'
    BY <1>a, OthersWait DEF Own, ExpectStored
  <2> QED BY <2>1, <2>2
<1>1. ASSUME NEW r \in Request, NEW v \in Asked, NEW f \in File, Arrive(r, v, f) PROVE Goal
  <2>1. v \in Version
    BY ReleaseAssumption
  <2>2. \A s \in Request : s # r => RequestSound(s)' /\ ExpectStored(s)'
    BY <1>0, <1>1, <2>1, ArriveStep DEF RequestSound, ExpectStored, Ensuring
  <2>3. RequestSound(r)' /\ ExpectStored(r)'
    BY <1>0, <1>1, <2>1, ArriveStep DEF RequestSound, ExpectStored
  <2> QED BY <2>2, <2>3
<1>2. ASSUME NEW r \in Request, Lock(r) PROVE Goal
  <2>1. \A s \in Request : req[s].pc \notin {"sums", "asset", "verify"} /\ req[s].fetch = None
    BY <1>0, <1>2, LockStep DEF RequestSound, Ensuring
  <2>2. \A s \in Request : s # r => RequestSound(s)' /\ ExpectStored(s)'
    BY <1>0, <1>2, <2>1, LockStep DEF Own, RequestSound, ExpectStored
  <2>3. RequestSound(r)' /\ ExpectStored(r)'
    BY <1>0, <1>2, <2>1, LockStep DEF Own, Same, RequestSound, ExpectStored
  <2> QED BY <2>2, <2>3
<1>3. ASSUME NEW r \in Request, UseCached(r) \/ FinishDownload(r) \/ FailDownload(r) PROVE Goal
  <2>1. now' = now /\ Ensuring(r)
    BY <1>3, EnsureCases
  <2>2. mutex = r /\ req[r].version \in Version /\ req[r].file \in File
    BY <2>1, WantedFile
  <2>3. CASE Answered(r, None)
    <3>1. RequestSound(r)' /\ ExpectStored(r)'
      BY <1>0, <2>1, <2>2, <2>3 DEF Answered, Own, Same, RequestSound, ExpectStored
    <3> QED BY <1>a, <2>1, <2>2, <2>3, <3>1 DEF Answered
  <2>4. ASSUME NEW files, NEW stale, Ready(r, files, stale), Ensured(r, files, stale) PROVE Goal
    <3> DEFINE c == files[req[r].version][Sums].content
    <3>1. files[req[r].version][Wanted(r)] # None
      BY <2>4, ReadyFiles
    <3>2. CASE req[r].pc = "sums" /\ ReadSums(r, c, stale) /\ cache' = files
      <4>1. req[r].answer = None /\ Wanted(r) = Sums
        BY <1>0, <3>2 DEF RequestSound, Wanted
      <4>2. RequestSound(r)'
        BY <1>0, <2>1, <2>2, <3>2, <4>1 DEF ReadSums, Own, RequestSound, File
      <4>3. ExpectStored(r)'
        BY <2>2, <3>1, <3>2, <4>1 DEF ReadSums, Own, ExpectStored
      <4> QED BY <1>a, <2>1, <2>2, <3>2, <4>2, <4>3 DEF ReadSums
    <3>3. CASE req[r].pc = "asset" /\ Advanced(r, "verify") /\ mutex' = mutex /\ cache' = files
      <4>1. req[r].answer = None /\ Wanted(r) = req[r].file /\ req[r].file \in Asset
        BY <1>0, <3>3 DEF RequestSound, Wanted
      <4>2. RequestSound(r)'
        BY <1>0, <2>1, <2>2, <3>1, <3>3, <4>1 DEF Advanced, Own, Same, RequestSound
      <4>3. files[req[r].version][Sums] = cache[req[r].version][Sums]
        <5>1. \A u \in Version, g \in File :
                u # req[r].version \/ g # Wanted(r) => files[u][g] = cache[u][g]
          BY <2>4, ReadyFiles
        <5> QED BY <2>2, <4>1, <5>1
      <4>4. ExpectStored(r)'
        BY <1>0, <2>2, <3>3, <4>3 DEF Advanced, Own, Same, ExpectStored
      <4> QED BY <1>a, <2>1, <2>2, <3>3, <4>2, <4>4 DEF Advanced
    <3> QED BY <2>3, <2>4, <3>2, <3>3, EnsuredCases
  <2> QED BY <1>3, <2>3, <2>4, EnsureCases
<1>4. ASSUME NEW r \in Request, NEW c \in Content, StartDownload(r, c) PROVE Goal
  <2>1. mutex = r /\ now' = now /\ Own(r)
    BY <1>4, StartStep, WantedFile
  <2>2. RequestSound(r)' /\ ExpectStored(r)'
    BY <1>0, <1>4, StartStep DEF Own, Same, RequestSound, ExpectStored, Ensuring
  <2> QED BY <1>a, <2>1, <2>2
<1>5. ASSUME NEW r \in Request, Verify(r) PROVE Goal
  <2>1. mutex = r /\ now' = now /\ Own(r)
    BY <1>0, <1>5, VerifyStep DEF Advanced, RequestSound
  <2>2. RequestSound(r)' /\ ExpectStored(r)'
    BY <1>0, <1>5, VerifyStep DEF Advanced, Own, Same, RequestSound, ExpectStored
  <2> QED BY <1>a, <2>1, <2>2
<1>6. ASSUME NEW r \in Request, Retry(r) PROVE Goal
  <2>1. mutex = r /\ now' = now /\ Own(r) /\ req[r].version \in Version /\ req[r].file \in Asset
    BY <1>0, <1>6, RetryStep DEF RequestSound
  <2>2. RequestSound(r)'
    BY <1>0, <1>6, <2>1, RetryStep DEF Own, Same, RequestSound
  <2>3. ExpectStored(r)'
    <3>1. CASE req[r].version = Latest
      BY <1>6, <3>1, RetryStep DEF ExpectStored
    <3>2. CASE req[r].version # Latest
      <4>1. cache' = Remove(req[r].version, {req[r].file})
        BY <1>6, <3>2, RetryStep
      <4>2. cache'[req[r].version][Sums] = cache[req[r].version][Sums]
        BY <2>1, <4>1, RemoveKeepsSums
      <4>3. /\ req[r].pc = "verify" /\ mutex' = mutex /\ req'[r].version = req[r].version
            /\ req'[r].expect = req[r].expect
        BY <1>6, RetryStep DEF Own, Same
      <4> QED BY <1>0, <4>2, <4>3 DEF ExpectStored
    <3> QED BY <3>1, <3>2
  <2> QED BY <1>a, <2>1, <2>2, <2>3
<1>7. ASSUME NEW r \in Request, GiveUp(r) PROVE Goal
  <2>1. mutex = r /\ now' = now /\ Own(r)
    BY <1>0, <1>7, GiveUpStep DEF Answered, RequestSound
  <2>2. RequestSound(r)' /\ ExpectStored(r)'
    BY <1>0, <1>7, GiveUpStep DEF Answered, Own, Same, RequestSound, ExpectStored
  <2> QED BY <1>a, <2>1, <2>2
<1>8. ASSUME NEW r \in Request, Open(r) PROVE Goal
  <2> DEFINE f == cache[req[r].version][req[r].file]
             b == IF f = None THEN None ELSE f.content
  <2>1. Answered(r, b) /\ req[r].pc = "open" /\ UNCHANGED <<now, cache, mutex>>
    BY <1>8, OpenStep
  <2> HIDE DEF b
  <2>2. \A s \in Request : s # r => RequestSound(s)' /\ ExpectStored(s)'
    BY <1>0, <2>1 DEF Answered, Own, RequestSound, ExpectStored, Ensuring
  <2>3. RequestSound(r)' /\ ExpectStored(r)'
    BY <1>0, <2>1 DEF Answered, Own, Same, RequestSound, ExpectStored
  <2> QED BY <2>2, <2>3
<1>9. CASE Publish
  BY <1>0, <1>9 DEF Publish, RequestSound, ExpectStored, Ensuring
<1>10. CASE Tick
  <2>1. now' = now + 1 /\ UNCHANGED <<cache, mutex, req>>
    BY <1>10 DEF Tick
  <2>2. \A s \in Request : req[s].fetch # None => now < req[s].since + FetchTimeout
    BY <1>10 DEF Tick
  <2> QED BY <1>0, <2>1, <2>2, ReqFields DEF RequestSound, ExpectStored, Ensuring
<1>11. CASE Restart
  BY <1>0, <1>11, RestartStep, IdleFields DEF RequestSound, ExpectStored
<1>12. CASE UNCHANGED vars
  BY <1>0, <1>12 DEF vars, RequestSound, ExpectStored, Ensuring
<1> QED BY <1>1, <1>2, <1>3, <1>4, <1>5, <1>6, <1>7, <1>8, <1>9, <1>10, <1>11, <1>12
        DEF Next, Step

-----------------------------------------------------------------------------
(***************************************************************************)
(* Numbered versions.                                                      *)
(***************************************************************************)

\* The part of NumberedRequests that says of one request.
NumberedRequest(r) ==
    req[r].version \in Release =>
        LET v == req[r].version
            f == req[r].file
        IN  /\ req[r].pc \in {"waiting", "sums"} => req[r].round = 1
            /\ req[r].fetch # None => ~Usable(v, Wanted(r)) /\ req[r].fetch \in {v} \cup Garbage
            /\ req[r].pc = "open" /\ f \in Asset => cache[v][f] # None /\ cache[v][f].content = v

NumberedAnswer(r) ==
    req[r].pc = "done" /\ req[r].version \in Release /\ req[r].answer # None
        => req[r].answer = req[r].version

\* A step of the request that holds the mutex leaves alone the files that others
\* are about to open.
LEMMA OthersNumbered ==
    ASSUME RequestsSound, NEW r \in Request, mutex = r, Own(r),
           \A s \in Request : NumberedRequest(s) /\ NumberedAnswer(s),
           \A v \in Release, f \in Asset :
                cache[v][f] # None /\ cache[v][f].content = v => cache'[v][f] = cache[v][f]
    PROVE  \A s \in Request : s # r => NumberedRequest(s)' /\ NumberedAnswer(s)'
<1> TAKE s \in Request
<1> HAVE s # r
<1>1. req'[s] = req[s] /\ req[s].pc \notin {"sums", "asset", "verify"} /\ req[s].fetch = None
  BY OthersWait DEF Own
<1>2. NumberedAnswer(s)'
  BY <1>1 DEF NumberedAnswer
<1>3. NumberedRequest(s)'
  <2>1. NumberedRequest(s)
    OBVIOUS
  <2> QED BY <1>1, <2>1 DEF NumberedRequest
<1> QED BY <1>2, <1>3

\* A file that verification removes is not the release's own.
LEMMA MismatchNumbered ==
    ASSUME TypeOK, ExpectedIsStored, NumberedSums, NEW r \in Request, req[r].pc = "verify", ~Matches(r),
           NEW v \in Release, v = req[r].version
    PROVE  cache[v][req[r].file].content # v
BY DEF ExpectedIsStored, NumberedSums, Matches

LEMMA NextNumbered ==
    TypeOK /\ RequestsSound /\ ExpectedIsStored /\ NumberedSums /\ NumberedRequests
      /\ NumberedVersionsExact /\ [Next]_vars
        => NumberedSums' /\ NumberedRequests' /\ NumberedVersionsExact'
<1> SUFFICES ASSUME TypeOK, RequestsSound, ExpectedIsStored, NumberedSums, NumberedRequests,
                    NumberedVersionsExact, [Next]_vars
             PROVE  NumberedSums' /\ \A s \in Request : NumberedRequest(s)' /\ NumberedAnswer(s)'
  BY DEF NumberedRequests, NumberedRequest, NumberedVersionsExact, NumberedAnswer
<1>0. \A s \in Request : NumberedRequest(s) /\ NumberedAnswer(s)
  BY DEF NumberedRequests, NumberedRequest, NumberedVersionsExact, NumberedAnswer
<1> USE Names
<1> DEFINE Goal == NumberedSums' /\ \A s \in Request : NumberedRequest(s)' /\ NumberedAnswer(s)'
           Kept == \A v \in Release, f \in Asset :
                        cache[v][f] # None /\ cache[v][f].content = v => cache'[v][f] = cache[v][f]
\* The cached file of a release is never empty.
<1>a. \A v \in Release, f \in Asset : cache[v][f] # None /\ cache[v][f].content = v => Usable(v, f)
  BY DEF Usable
<1>1. ASSUME NEW r \in Request, NEW v \in Asked, NEW f \in File, Arrive(r, v, f) PROVE Goal
  <2>1. v \in Version
    BY ReleaseAssumption
  <2>2. \A s \in Request : s # r => NumberedRequest(s)' /\ NumberedAnswer(s)'
    BY <1>0, <1>1, <2>1, ArriveStep DEF NumberedRequest, NumberedAnswer, Usable, Wanted
  <2>3. NumberedRequest(r)'
    BY <1>1, <2>1, ArriveStep DEF NumberedRequest
  <2>4. NumberedAnswer(r)'
    <3>1. CASE v \in Release /\ HasBundle(v) /\ BundledAsset(v, f) # None
      <4>1. Bundle[v][Sums] \in Release /\ BundledAsset(v, f) = Bundle[v][Sums]
        BY <3>1 DEF BundledAsset, Lists
      <4>2. \A V : Bundle \in [V -> [File -> Content \cup {None}]] => V = DOMAIN Bundle
        OBVIOUS
      <4>3. Bundle[v][Sums] \in {v} \cup Garbage \cup {None}
        BY <3>1, <4>2, BundleAssumption DEF HasBundle
      <4>4. BundledAsset(v, f) = v
        BY <4>1, <4>3
      <4> QED BY <1>1, <2>1, <3>1, <4>4, ArriveStep DEF NumberedAnswer
    <3>2. CASE ~(v \in Release /\ HasBundle(v) /\ BundledAsset(v, f) # None)
      BY <1>1, <2>1, <3>2, ArriveStep DEF NumberedAnswer
    <3> QED BY <3>1, <3>2
  <2>5. NumberedSums'
    BY <1>1, <2>1, ArriveStep DEF NumberedSums
  <2> QED BY <2>2, <2>3, <2>4, <2>5
<1>2. ASSUME NEW r \in Request, Lock(r) PROVE Goal
  <2>0. \A s \in Request : req[s].fetch = None
    BY <1>2, LockStep DEF RequestsSound, Ensuring
  <2>1. \A s \in Request : s # r => NumberedRequest(s)' /\ NumberedAnswer(s)'
    BY <1>0, <1>2, <2>0, LockStep DEF Own, NumberedRequest, NumberedAnswer
  <2>2. NumberedRequest(r)' /\ NumberedAnswer(r)'
    BY <1>0, <1>2, <2>0, LockStep DEF Own, NumberedRequest, NumberedAnswer
  <2>3. NumberedSums'
    BY <1>2, LockStep DEF NumberedSums
  <2> QED BY <2>1, <2>2, <2>3
<1>3. ASSUME NEW r \in Request, UseCached(r) \/ FinishDownload(r) \/ FailDownload(r) PROVE Goal
  <2> DEFINE v == req[r].version
  <2>1. Ensuring(r) /\ mutex = r /\ v \in Version /\ req[r].file \in File /\ Wanted(r) \in File
    BY <1>3, EnsureCases, WantedFile
  <2>2. CASE Answered(r, None) /\ cache' = cache
    <3>1. NumberedRequest(r)' /\ NumberedAnswer(r)'
      BY <2>2 DEF Answered, Own, NumberedRequest, NumberedAnswer
    <3>2. \A s \in Request : s # r => NumberedRequest(s)' /\ NumberedAnswer(s)'
      BY <1>0, <2>1, <2>2, OthersNumbered DEF Answered
    <3>3. NumberedSums'
      BY <2>2 DEF NumberedSums
    <3> QED BY <3>1, <3>2, <3>3
  <2>3. ASSUME NEW files, NEW stale, Ready(r, files, stale), Ensured(r, files, stale) PROVE Goal
    <3> DEFINE w == Wanted(r)
               c == files[v][Sums].content
    <3>1. /\ files \in Directory /\ files[v][w] # None
          /\ \A u \in Version, g \in File : u # v \/ g # w => files[u][g] = cache[u][g]
          /\ \/ files[v][w] = cache[v][w]
             \/ files[v][w].content = req[r].fetch /\ req[r].fetch # None
      BY <2>3, ReadyFiles
    <3>2. v \in Release /\ files[v][w] # cache[v][w] =>
            ~Usable(v, w) /\ files[v][w].content \in {v} \cup Garbage
      BY <1>0, <3>1 DEF NumberedRequest
    <3>3. \A u \in Release, g \in Asset :
                cache[u][g] # None /\ cache[u][g].content = u => files[u][g] = cache[u][g]
      <4> TAKE u \in Release, g \in Asset
      <4> HAVE cache[u][g] # None /\ cache[u][g].content = u
      <4>1. Usable(u, g)
        BY <1>a
      <4>2. CASE u = v /\ g = w
        BY <3>2, <4>1, <4>2
      <4>3. CASE u # v \/ g # w
        <5>1. u \in Version /\ g \in File
          OBVIOUS
        <5> HIDE DEF v, w
        <5> QED BY <3>1, <4>3, <5>1
      <4> QED BY <4>2, <4>3
    <3>4. CASE req[r].pc = "sums" /\ ReadSums(r, c, stale) /\ cache' = files
      <4>1. w = Sums /\ c \in Release /\ req[r].answer = None
        BY <3>4 DEF Wanted, ReadSums, Lists, RequestsSound
      <4>2. v \in Release => c = v
        BY <3>1, <3>2, <4>1 DEF NumberedSums
      <4>3. NumberedSums'
        BY <2>1, <3>1, <3>4, <4>1, <4>2 DEF NumberedSums
      <4>4. NumberedRequest(r)' /\ NumberedAnswer(r)'
        BY <3>4 DEF ReadSums, Own, NumberedRequest, NumberedAnswer
      <4>5. \A s \in Request : s # r => NumberedRequest(s)' /\ NumberedAnswer(s)'
        BY <1>0, <2>1, <3>3, <3>4, OthersNumbered DEF ReadSums
      <4> QED BY <4>3, <4>4, <4>5
    <3>5. CASE /\ req[r].pc = "sums" /\ Answered(r, None)
               /\ cache' = IF req[r].round = 1 THEN [files EXCEPT ![v][Sums] = None] ELSE files
      <4>0. w = Sums /\ (v \in Release => req[r].round = 1)
        BY <1>0, <3>5 DEF Wanted, NumberedRequest
      <4>1. /\ \A u \in Version, g \in File : u # v \/ g # Sums => cache'[u][g] = files[u][g]
            /\ v \in Release => cache'[v][Sums] = None
        <5> DEFINE d == [files EXCEPT ![v][Sums] = None]
        <5>1. /\ d[v][Sums] = None
              /\ \A u \in Version, g \in File : u # v \/ g # Sums => d[u][g] = files[u][g]
          BY <2>1, <3>1, DropSums
        <5>2. cache' = d \/ cache' = files
          BY <3>5
        <5>3. v \in Release => cache' = d
          BY <3>5, <4>0
        <5> HIDE DEF d
        <5> QED BY <5>1, <5>2, <5>3
      <4>2. NumberedSums'
        BY <2>1, <3>1, <4>0, <4>1 DEF NumberedSums
      <4>3. NumberedRequest(r)' /\ NumberedAnswer(r)'
        BY <3>5 DEF Answered, Own, NumberedRequest, NumberedAnswer
      <4>4. Kept
        BY <3>3, <4>1
      <4>5. \A s \in Request : s # r => NumberedRequest(s)' /\ NumberedAnswer(s)'
        BY <1>0, <2>1, <3>5, <4>4, OthersNumbered DEF Answered
      <4> QED BY <4>2, <4>3, <4>5
    <3>6. CASE req[r].pc = "asset" /\ Advanced(r, "verify") /\ cache' = files
      <4>1. w # Sums
        BY <3>6 DEF Wanted, RequestsSound
      <4>2. NumberedSums'
        BY <3>1, <3>6, <4>1 DEF NumberedSums
      <4>3. NumberedRequest(r)' /\ NumberedAnswer(r)'
        BY <3>6 DEF Advanced, Own, NumberedRequest, NumberedAnswer
      <4>4. \A s \in Request : s # r => NumberedRequest(s)' /\ NumberedAnswer(s)'
        BY <1>0, <2>1, <3>3, <3>6, OthersNumbered DEF Advanced
      <4> QED BY <4>2, <4>3, <4>4
    <3> QED BY <2>3, <3>4, <3>5, <3>6, EnsuredCases
  <2> QED BY <1>3, <2>2, <2>3, EnsureCases
<1>4. ASSUME NEW r \in Request, NEW c \in Content, StartDownload(r, c) PROVE Goal
  <2>1. mutex = r /\ Own(r) /\ cache' = cache
    BY <1>4, StartStep, WantedFile
  <2>2. \A s \in Request : s # r => NumberedRequest(s)' /\ NumberedAnswer(s)'
    BY <1>0, <2>1, OthersNumbered
  <2>3. req[r].version \in Release =>
            ~Usable(req[r].version, Wanted(r)) /\ c \in {req[r].version} \cup Garbage
    BY <1>4, StartStep DEF Fresh, Upstream
  <2>4. Wanted(r)' = Wanted(r) /\ req'[r].pc = req[r].pc /\ Ensuring(r)
    BY <1>4, StartStep DEF Own, Wanted
  <2>5. NumberedRequest(r)' /\ NumberedAnswer(r)'
    BY <1>0, <1>4, <2>1, <2>3, <2>4, StartStep DEF Own, Ensuring, NumberedRequest, NumberedAnswer, Usable
  <2>6. NumberedSums'
    BY <2>1 DEF NumberedSums
  <2> QED BY <2>2, <2>5, <2>6
<1>5. ASSUME NEW r \in Request, Verify(r) PROVE Goal
  <2>1. mutex = r /\ Own(r) /\ cache' = cache /\ req[r].pc = "verify" /\ Matches(r)
    BY <1>5, VerifyStep DEF Advanced, RequestsSound
  <2>2. \A s \in Request : s # r => NumberedRequest(s)' /\ NumberedAnswer(s)'
    BY <1>0, <2>1, OthersNumbered
  <2>3. req[r].version \in Release =>
            /\ cache[req[r].version][req[r].file] # None
            /\ cache[req[r].version][req[r].file].content = req[r].version
    BY <2>1 DEF RequestsSound, ExpectedIsStored, NumberedSums, Matches
  <2>4. NumberedRequest(r)' /\ NumberedAnswer(r)'
    BY <1>5, <2>1, <2>3, VerifyStep DEF Advanced, Own, NumberedRequest, NumberedAnswer
  <2>5. NumberedSums'
    BY <2>1 DEF NumberedSums
  <2> QED BY <2>2, <2>4, <2>5
<1>6. ASSUME NEW r \in Request, NEW F, Own(r), req[r].pc = "verify", ~Matches(r),
             cache' = Remove(req[r].version, F),
             req[r].version \in Release => F = {req[r].file},
             NumberedRequest(r)', NumberedAnswer(r)'
      PROVE  Goal
  <2>1. mutex = r /\ req[r].version \in Version /\ req[r].file \in Asset
    BY <1>6 DEF RequestsSound
  <2>2. \A u \in Version, g \in File :
            cache'[u][g] = IF u = req[r].version /\ g \in F THEN None ELSE cache[u][g]
    BY <1>6, <2>1, RemoveFiles
  <2>3. NumberedSums'
    BY <2>2 DEF NumberedSums
  <2>4. req[r].version \in Release =>
            cache[req[r].version][req[r].file].content # req[r].version
    BY <1>6, MismatchNumbered
  <2>5. Kept
    BY <1>6, <2>2, <2>4
  <2>6. \A s \in Request : s # r => NumberedRequest(s)' /\ NumberedAnswer(s)'
    BY <1>0, <1>6, <2>1, <2>5, OthersNumbered
  <2> QED BY <1>6, <2>3, <2>6
<1>7. ASSUME NEW r \in Request, Retry(r) PROVE Goal
  <2> DEFINE F == IF req[r].version = Latest THEN {req[r].file, Sums} ELSE {req[r].file}
  <2>1. /\ Own(r) /\ req[r].pc = "verify" /\ ~Matches(r) /\ cache' = Remove(req[r].version, F)
        /\ req'[r].fetch = None /\ req'[r].pc = IF req[r].version = Latest THEN "sums" ELSE "asset"
    BY <1>7, RetryStep
  <2>2. NumberedRequest(r)' /\ NumberedAnswer(r)'
    BY <2>1 DEF Own, NumberedRequest, NumberedAnswer
  <2>3. req[r].version \in Release => F = {req[r].file}
    OBVIOUS
  <2> HIDE DEF F, Goal
  <2> QED BY <1>6, <2>1, <2>2, <2>3
<1>8. ASSUME NEW r \in Request, GiveUp(r) PROVE Goal
  <2> DEFINE F == {req[r].file}
  <2>1. /\ Answered(r, None) /\ req[r].pc = "verify" /\ ~Matches(r)
        /\ cache' = Remove(req[r].version, F)
    BY <1>8, GiveUpStep
  <2>2. Own(r) /\ NumberedRequest(r)' /\ NumberedAnswer(r)'
    BY <2>1 DEF Answered, Own, NumberedRequest, NumberedAnswer
  <2>3. F = {req[r].file}
    OBVIOUS
  <2> HIDE DEF F, Goal
  <2> QED BY <1>6, <2>1, <2>2, <2>3
<1>9. ASSUME NEW r \in Request, Open(r) PROVE Goal
  <2> DEFINE f == cache[req[r].version][req[r].file]
             b == IF f = None THEN None ELSE f.content
  <2>1. Answered(r, b) /\ req[r].pc = "open" /\ cache' = cache
    BY <1>9, OpenStep
  <2>2. req[r].file \in File /\ req[r].version \in Version
    BY <2>1 DEF RequestsSound
  <2>3. req[r].version \in Release /\ b # None => b = req[r].version
    <3>1. CASE req[r].file \in Asset
      BY <1>0, <2>1, <3>1 DEF NumberedRequest
    <3>2. CASE req[r].file = Sums
      BY <3>2 DEF NumberedSums
    <3> QED BY <2>2, <3>1, <3>2 DEF File
  <2> HIDE DEF b
  <2>4. NumberedRequest(r)' /\ NumberedAnswer(r)'
    BY <2>1, <2>3 DEF Answered, Own, NumberedRequest, NumberedAnswer
  <2>5. \A s \in Request : s # r => NumberedRequest(s)' /\ NumberedAnswer(s)'
    BY <1>0, <2>1 DEF Answered, Own, NumberedRequest, NumberedAnswer, Usable, Wanted
  <2>6. NumberedSums'
    BY <2>1 DEF NumberedSums
  <2> QED BY <2>4, <2>5, <2>6
<1>10. CASE Restart
  BY <1>10, RestartStep, IdleFields DEF NumberedRequest, NumberedAnswer, NumberedSums
<1>11. CASE UNCHANGED <<cache, req>>
  BY <1>0, <1>11 DEF NumberedRequest, NumberedAnswer, NumberedSums, Usable, Wanted
<1> QED BY <1>1, <1>2, <1>3, <1>4, <1>5, <1>7, <1>8, <1>9, <1>10, <1>11
        DEF Next, Step, Publish, Tick, vars

-----------------------------------------------------------------------------
(***************************************************************************)
(* latest.                                                                 *)
(***************************************************************************)

\* What was the newest until t was the newest until any earlier time.
LEMMA NewestEarlier ==
    ASSUME TypeOK, PublishedDates, NEW c \in Release, NEW t \in Int, NEW u \in Int, u <= t,
           NewestUntil(c, t)
    PROVE  NewestUntil(c, u)
<1>1. c \in Nat /\ latest \in Nat /\ latest \in Release
  BY Names DEF TypeOK
<1>2. c < latest => published[c + 1] \in Nat
  BY <1>1, TimeAssumption DEF PublishedDates, Release
<1> QED BY <1>1, <1>2 DEF NewestUntil

\* A new release does not change until when the older ones were the newest.
LEMMA NewestPublish ==
    ASSUME TypeOK, Publish, NEW c \in Release, NEW t \in Int, t <= now, NewestUntil(c, t)
    PROVE  NewestUntil(c, t)'
<1>1. c \in Nat /\ latest \in Nat /\ now \in Nat /\ latest + 1 \in Release
  BY Names, TimeAssumption DEF TypeOK, Publish, Release
<1>2. published' = [published EXCEPT ![latest + 1] = now] /\ latest' = latest + 1
  BY DEF Publish
<1>3. published \in [Release -> Nat \cup {None}]
  BY DEF TypeOK
<1>4. CASE c = latest
  BY <1>1, <1>2, <1>3, <1>4 DEF NewestUntil
<1>5. CASE c < latest
  <2>1. c + 1 \in Release /\ c + 1 # latest + 1
    BY <1>1, <1>5, TimeAssumption DEF Release
  <2> QED BY <1>1, <1>2, <1>3, <1>5, <2>1 DEF NewestUntil
<1> QED BY <1>1, <1>4, <1>5 DEF NewestUntil

\* What LatestFiles, LatestDownloads and LatestRequests say of one file, request.
LatestFile(f) ==
    cache[Latest][f] # None =>
        /\ cache[Latest][f].mtime <= now
        /\ cache[Latest][f].content \in Release =>
                NewestUntil(cache[Latest][f].content, cache[Latest][f].mtime - FetchTimeout)

LatestDownload(r) ==
    req[r].version = Latest /\ req[r].fetch \in Release => NewestUntil(req[r].fetch, req[r].since)

Bound(r) == req[r].checked - TTL - FetchTimeout + 1

LatestExpect(r) ==
    req[r].version = Latest /\ ~req[r].stale /\ req[r].expect \in Release =>
        NewestUntil(req[r].expect, Bound(r))

LatestOpen(r) ==
    req[r].version = Latest /\ req[r].pc = "open" /\ cache[Latest][req[r].file] # None =>
        \/ cache[Latest][req[r].file].content = req[r].expect
        \/ cache[Latest][req[r].file].mtime >= req[r].checked

LatestAnswer(r) ==
    req[r].version = Latest /\ ~HasBundle(Latest) /\ ~req[r].stale /\ req[r].answer \in Release =>
        NewestUntil(req[r].answer, Bound(r))

LatestRequest(r) == LatestDownload(r) /\ LatestExpect(r) /\ LatestOpen(r) /\ LatestAnswer(r)

LatestSound == (\A f \in File : LatestFile(f)) /\ (\A r \in Request : LatestRequest(r))

LEMMA LatestParts == LatestFiles /\ LatestDownloads /\ LatestRequests <=> LatestSound
BY Zenon DEF LatestFiles, LatestDownloads, LatestRequests, LatestSound, LatestFile, LatestRequest,
       LatestDownload, LatestExpect, LatestOpen, LatestAnswer, Bound

\* A file that r finds or has downloaded as latest.
LEMMA ReadyLatest ==
    ASSUME TypeOK, RequestsSound, PublishedDates, LatestSound, NEW r \in Request, NEW files, NEW stale,
           Ready(r, files, stale), req[r].version = Latest
    PROVE  LET file == files[Latest][Wanted(r)] IN
           /\ file.mtime <= now
           /\ file.content \in Release => NewestUntil(file.content, file.mtime - FetchTimeout)
           /\ ~stale => file.mtime > now - TTL
<1> DEFINE w == Wanted(r)
           file == files[Latest][w]
<1>1. /\ w \in File /\ file # None /\ file.content \in Content /\ file.mtime \in Nat
      /\ \/ file = cache[Latest][w] /\ Usable(Latest, w) /\ (stale \/ Fresh(Latest, w))
         \/ /\ file.content = req[r].fetch /\ file.mtime = now
            /\ req[r].fetch # None /\ ~stale
  BY ReadyFiles, WantedFile DEF Ready
<1>2. now \in Nat /\ req[r].since \in Nat
  BY ReqFields DEF TypeOK
<1>3. CASE file = cache[Latest][w] /\ Usable(Latest, w) /\ (stale \/ Fresh(Latest, w))
  <2>1. LatestFile(w) /\ cache[Latest][w] # None
    BY <1>1, <1>3 DEF LatestSound, Usable
  <2> QED BY <1>1, <1>2, <1>3, <2>1, TimeAssumption DEF LatestFile, Fresh
<1>4. CASE file.content = req[r].fetch /\ file.mtime = now /\ req[r].fetch # None
  <2>1. now <= req[r].since + FetchTimeout
    BY <1>4 DEF RequestsSound
  <2>2. file.content \in Release => NewestUntil(file.content, req[r].since)
    BY <1>4 DEF LatestSound, LatestRequest, LatestDownload
  <2>3. file.content \in Release => NewestUntil(file.content, file.mtime - FetchTimeout)
    BY <1>2, <1>4, <2>1, <2>2, NewestEarlier, TimeAssumption
  <2> QED BY <1>2, <1>4, <2>3, TimeAssumption
<1> QED BY <1>1, <1>3, <1>4

\* A step of the request that holds the mutex: the directory is as it was, or has
\* lost files or got a new one, and the other requests do not notice.
LEMMA OthersLatest ==
    ASSUME TypeOK, RequestsSound, LatestSound, NEW r \in Request, mutex = r, Own(r),
           UNCHANGED <<now, latest, published>>,
           \A f \in File : \/ cache'[Latest][f] \in {cache[Latest][f], None}
                           \/ cache'[Latest][f].mtime = now
    PROVE  \A s \in Request : s # r => LatestRequest(s)'
<1> TAKE s \in Request
<1> HAVE s # r
<1>1. req'[s] = req[s] /\ req[s].fetch = None /\ LatestRequest(s) /\ Bound(s)' = Bound(s)
  BY OthersWait DEF Own, LatestSound, Bound
<1>2. LatestDownload(s)' /\ LatestExpect(s)' /\ LatestAnswer(s)'
  BY <1>1, Names DEF LatestRequest, LatestDownload, LatestExpect, LatestAnswer, NewestUntil, HasBundle
<1>3. LatestOpen(s)'
  <2>1. req[s].checked <= now /\ (req[s].pc = "open" => req[s].file \in File)
    BY DEF RequestsSound
  <2> QED BY <1>1, <2>1 DEF LatestRequest, LatestOpen
<1> QED BY <1>2, <1>3 DEF LatestRequest

\* A directory that lost files or was left alone keeps LatestFile.
LEMMA FilesLatest ==
    ASSUME LatestSound, UNCHANGED <<now, latest, published>>,
           \A f \in File : cache'[Latest][f] \in {cache[Latest][f], None}
    PROVE  \A f \in File : LatestFile(f)'
<1> TAKE f \in File
<1>1. LatestFile(f) /\ cache'[Latest][f] \in {cache[Latest][f], None}
  BY DEF LatestSound
<1> QED BY <1>1 DEF LatestFile, NewestUntil

\* A request that has been answered or moved on with the checksums it had.
LEMMA SameLatest ==
    ASSUME TypeOK, LatestSound, NEW r \in Request, Own(r), Same(r), req'[r].fetch = None,
           UNCHANGED <<now, latest, published>>,
           req'[r].answer \in {None, req[r].answer}, req'[r].pc # "open"
    PROVE  LatestRequest(r)'
<1>1. LatestRequest(r) /\ Bound(r)' = Bound(r)
  BY DEF LatestSound, Same, Bound
<1> QED BY <1>1, Names DEF Own, Same, LatestRequest, LatestDownload, LatestExpect, LatestOpen,
       LatestAnswer, NewestUntil, HasBundle

LEMMA NextDates ==
    TypeOK /\ PublishedDates /\ [Next]_vars => PublishedDates'
<1> SUFFICES ASSUME TypeOK, PublishedDates, [Next]_vars PROVE PublishedDates'
  OBVIOUS
<1>1. CASE Publish
  <2>1. now \in Nat /\ latest \in Nat /\ published \in [Release -> Nat \cup {None}]
    BY Names DEF TypeOK
  <2>2. \A c \in Release : c \in Nat
    BY Names
  <2> QED BY <1>1, <2>1, <2>2 DEF Publish, PublishedDates
<1>2. CASE UNCHANGED <<latest, published>>
  BY <1>2 DEF PublishedDates
<1> QED BY <1>1, <1>2 DEF Next, Step, Arrive, Lock, UseCached, StartDownload, FinishDownload,
        FailDownload, Verify, Retry, GiveUp, Open, Tick, Restart, vars

LEMMA NextLatest ==
    TypeOK /\ RequestsSound /\ PublishedDates /\ LatestSound /\ [Next]_vars => LatestSound'
<1> SUFFICES ASSUME TypeOK, RequestsSound, PublishedDates, LatestSound, [Next]_vars
             PROVE  LatestSound'
  OBVIOUS
<1>0. now \in Nat /\ \A s \in Request : LatestRequest(s)
  BY DEF TypeOK, LatestSound
<1> USE Names
<1>1. ASSUME NEW r \in Request, NEW v \in Asked, NEW f \in File, Arrive(r, v, f) PROVE LatestSound'
  <2>0. v \in Version
    BY ReleaseAssumption
  <2>1. UNCHANGED <<now, latest, published, cache>> /\ \A s \in Request : s # r => req'[s] = req[s]
    BY <1>1, <2>0, ArriveStep
  <2>2. \A g \in File : LatestFile(g)'
    BY <2>1, FilesLatest
  <2>3. \A s \in Request : s # r => LatestRequest(s)'
    BY <1>0, <2>1 DEF LatestRequest, LatestDownload, LatestExpect, LatestOpen, LatestAnswer,
       Bound, NewestUntil, HasBundle
  <2>4. LatestRequest(r)'
    <3>1. /\ req'[r].version = v /\ req'[r].expect = None /\ req'[r].fetch = None
          /\ req'[r].pc # "open" /\ (~HasBundle(v) => req'[r].answer = None)
      BY <1>1, <2>0, ArriveStep
    <3> QED BY <3>1 DEF LatestRequest, LatestDownload, LatestExpect, LatestOpen, LatestAnswer, HasBundle
  <2> QED BY <2>2, <2>3, <2>4 DEF LatestSound
<1>2. ASSUME NEW r \in Request, Lock(r) PROVE LatestSound'
  <2>1. UNCHANGED <<now, latest, published, cache>> /\ \A s \in Request : s # r => req'[s] = req[s]
    BY <1>2, LockStep DEF Own
  <2>2. \A g \in File : LatestFile(g)'
    BY <2>1, FilesLatest
  <2>3. \A s \in Request : s # r => LatestRequest(s)'
    BY <1>0, <2>1 DEF LatestRequest, LatestDownload, LatestExpect, LatestOpen, LatestAnswer,
       Bound, NewestUntil, HasBundle
  <2>4. LatestRequest(r)'
    <3>1. req[r].fetch = None
      BY <1>2, LockStep DEF RequestsSound, Ensuring
    <3> QED BY <1>2, <2>1, <3>1, LockStep, SameLatest
  <2> QED BY <2>2, <2>3, <2>4 DEF LatestSound
<1>3. ASSUME NEW r \in Request, UseCached(r) \/ FinishDownload(r) \/ FailDownload(r)
      PROVE  LatestSound'
  <2> DEFINE v == req[r].version
             w == Wanted(r)
  <2>1. UNCHANGED <<now, latest, published>> /\ Ensuring(r)
    BY <1>3, EnsureCases
  <2>2. mutex = r /\ v \in Version /\ req[r].file \in File /\ w \in File /\ req[r].answer = None
    BY <2>1, WantedFile DEF RequestsSound, Ensuring
  <2>3. CASE Answered(r, None) /\ cache' = cache
    <3>1. \A g \in File : LatestFile(g)'
      BY <2>1, <2>3, FilesLatest
    <3>2. LatestRequest(r)'
      BY <2>1, <2>3, SameLatest DEF Answered
    <3>3. \A s \in Request : s # r => LatestRequest(s)'
      BY <2>1, <2>2, <2>3, OthersLatest DEF Answered
    <3> QED BY <3>1, <3>2, <3>3 DEF LatestSound
  <2>4. ASSUME NEW files, NEW stale, Ready(r, files, stale), Ensured(r, files, stale)
        PROVE  LatestSound'
    <3> DEFINE c == files[v][Sums].content
               file == files[Latest][w]
    <3>1. /\ files \in Directory /\ files[v][w] # None
          /\ files[v][w].content \in Content /\ files[v][w].mtime \in Nat
          /\ \A u \in Version, g \in File : u # v \/ g # w => files[u][g] = cache[u][g]
          /\ files[v][w] = cache[v][w] \/ files[v][w].mtime = now
      BY <2>4, ReadyFiles
    <3>2. v = Latest => /\ file.mtime <= now
                        /\ file.content \in Release => NewestUntil(file.content, file.mtime - FetchTimeout)
                        /\ ~stale => file.mtime > now - TTL
      BY <2>4, ReadyLatest
    \* cache' is files, perhaps without the checksums.
    <3>3. \A g \in File : cache'[Latest][g] \in {files[Latest][g], None}
      <4> DEFINE d == [files EXCEPT ![v][Sums] = None]
      <4>1. /\ d[v][Sums] = None
            /\ \A u \in Version, g \in File : u # v \/ g # Sums => d[u][g] = files[u][g]
        BY <2>2, <3>1, DropSums
      <4>2. cache' = d \/ cache' = files
        BY <2>4, EnsuredCases
      <4> HIDE DEF d
      <4> QED BY <4>1, <4>2
    <3>4. \A g \in File : LatestFile(g)'
      <4> TAKE g \in File
      <4>1. LatestFile(g) /\ cache'[Latest][g] \in {files[Latest][g], None}
        BY <3>3 DEF LatestSound
      <4>2. CASE v = Latest /\ g = w
        BY <2>1, <3>2, <4>1, <4>2 DEF LatestFile, NewestUntil
      <4>3. CASE v # Latest \/ g # w
        <5>1. files[Latest][g] = cache[Latest][g]
          BY <3>1, <4>3
        <5> QED BY <2>1, <4>1, <5>1 DEF LatestFile, NewestUntil
      <4> QED BY <4>2, <4>3
    <3>5. Own(r)
      BY <2>4, EnsuredCases DEF ReadSums, Answered, Advanced
    <3>6. \A s \in Request : s # r => LatestRequest(s)'
      <4>1. \A g \in File : \/ cache'[Latest][g] \in {cache[Latest][g], None}
                            \/ cache'[Latest][g].mtime = now
        <5> TAKE g \in File
        <5>1. cache'[Latest][g] \in {files[Latest][g], None}
          BY <3>3
        <5>2. files[Latest][g] = cache[Latest][g] \/ files[Latest][g].mtime = now
          BY <3>1
        <5> QED BY <5>1, <5>2
      <4> QED BY <2>1, <2>2, <3>5, <4>1, OthersLatest
    <3>7. CASE req[r].pc = "sums" /\ ReadSums(r, c, stale) /\ cache' = files
      <4>0. w = Sums /\ req'[r].version = v /\ req'[r].file = req[r].file
        BY <3>7 DEF Wanted, ReadSums, Own
      <4>1. LatestDownload(r)' /\ LatestAnswer(r)'
        BY <2>2, <3>7 DEF ReadSums, LatestDownload, LatestAnswer
      <4>2. LatestOpen(r)'
        BY <3>7, <4>0 DEF ReadSums, LatestOpen
      <4>3. LatestExpect(r)'
        <5> SUFFICES ASSUME v = Latest, ~stale, c \in Release
                     PROVE  NewestUntil(c, now - TTL - FetchTimeout + 1)
          BY <2>1, <3>7, <4>0 DEF ReadSums, LatestExpect, Bound, NewestUntil
        <5>1. NewestUntil(c, file.mtime - FetchTimeout) /\ file.mtime > now - TTL /\ file.mtime \in Nat
          BY <3>1, <3>2, <4>0
        <5> HIDE DEF c, file
        <5>2. /\ now - TTL - FetchTimeout + 1 <= file.mtime - FetchTimeout
              /\ now - TTL - FetchTimeout + 1 \in Int /\ file.mtime - FetchTimeout \in Int
          BY <1>0, <5>1, TimeAssumption
        <5> QED BY <5>1, <5>2, NewestEarlier
      <4> QED BY <3>4, <3>6, <4>1, <4>2, <4>3 DEF LatestSound, LatestRequest
    <3>8. CASE Answered(r, None)
      <4>1. LatestRequest(r)'
        BY <2>1, <3>8, SameLatest DEF Answered
      <4> QED BY <3>4, <3>6, <4>1 DEF LatestSound
    <3>9. CASE Advanced(r, "verify")
      <4>1. LatestRequest(r)'
        BY <2>1, <3>9, SameLatest DEF Advanced
      <4> QED BY <3>4, <3>6, <4>1 DEF LatestSound
    <3> QED BY <2>4, <3>7, <3>8, <3>9, EnsuredCases
  <2> QED BY <1>3, <2>3, <2>4, EnsureCases
<1>4. ASSUME NEW r \in Request, NEW c \in Content, StartDownload(r, c) PROVE LatestSound'
  <2>1. /\ Own(r) /\ Same(r) /\ mutex = r /\ Ensuring(r)
        /\ req'[r].pc = req[r].pc /\ req'[r].answer = req[r].answer
        /\ UNCHANGED <<now, latest, published, cache>>
    BY <1>4, StartStep, WantedFile
  <2>2. \A g \in File : LatestFile(g)'
    BY <2>1, FilesLatest
  <2>3. \A s \in Request : s # r => LatestRequest(s)'
    BY <2>1, OthersLatest
  <2>4. LatestDownload(r)'
    <3>1. req[r].version = Latest /\ c \in Release => c = latest
      BY <1>4, StartStep DEF Upstream
    <3>2. latest \in Nat
      BY DEF TypeOK
    <3> QED BY <1>4, <2>1, <3>1, <3>2, StartStep DEF Own, LatestDownload, NewestUntil
  <2>5. LatestExpect(r)' /\ LatestOpen(r)' /\ LatestAnswer(r)'
    BY <1>0, <2>1 DEF Own, Same, LatestRequest, LatestExpect, LatestOpen, LatestAnswer, Bound,
       NewestUntil, HasBundle, Ensuring
  <2> QED BY <2>2, <2>3, <2>4, <2>5 DEF LatestSound, LatestRequest
<1>5. ASSUME NEW r \in Request, Verify(r) PROVE LatestSound'
  <2>1. /\ Advanced(r, "open") /\ Own(r) /\ Same(r) /\ mutex = r /\ req[r].pc = "verify" /\ Matches(r)
        /\ UNCHANGED <<now, latest, published, cache>>
    BY <1>5, VerifyStep DEF Advanced, RequestsSound
  <2>2. \A g \in File : LatestFile(g)'
    BY <2>1, FilesLatest
  <2>3. \A s \in Request : s # r => LatestRequest(s)'
    BY <2>1, OthersLatest
  <2>4. LatestOpen(r)'
    BY <2>1 DEF Own, Same, LatestOpen, Matches
  <2>5. LatestDownload(r)' /\ LatestExpect(r)' /\ LatestAnswer(r)'
    BY <1>0, <2>1 DEF Advanced, Own, Same, LatestRequest, LatestDownload, LatestExpect, LatestAnswer,
       Bound, NewestUntil, HasBundle
  <2> QED BY <2>2, <2>3, <2>4, <2>5 DEF LatestSound, LatestRequest
<1>6. ASSUME NEW r \in Request, NEW F, Own(r), Same(r), req'[r].fetch = None,
             req'[r].answer \in {None, req[r].answer}, req'[r].pc # "open",
             req[r].pc = "verify", cache' = Remove(req[r].version, F),
             UNCHANGED <<now, latest, published>>
      PROVE  LatestSound'
  <2>1. mutex = r /\ req[r].version \in Version
    BY <1>6 DEF RequestsSound
  <2>2. \A g \in File : cache'[Latest][g] \in {cache[Latest][g], None}
    BY <1>6, <2>1, RemoveFiles
  <2>3. \A g \in File : LatestFile(g)'
    BY <1>6, <2>2, FilesLatest
  <2>4. \A s \in Request : s # r => LatestRequest(s)'
    BY <1>6, <2>1, <2>2, OthersLatest
  <2>5. LatestRequest(r)'
    BY <1>6, SameLatest
  <2> QED BY <2>3, <2>4, <2>5 DEF LatestSound
<1>7. ASSUME NEW r \in Request, Retry(r) PROVE LatestSound'
  <2> DEFINE F == IF req[r].version = Latest THEN {req[r].file, Sums} ELSE {req[r].file}
  <2>1. /\ Own(r) /\ Same(r) /\ req'[r].fetch = None /\ req'[r].answer = req[r].answer
        /\ req'[r].pc # "open" /\ req[r].pc = "verify" /\ cache' = Remove(req[r].version, F)
        /\ UNCHANGED <<now, latest, published>>
    BY <1>7, RetryStep
  <2> HIDE DEF F
  <2> QED BY <1>6, <2>1
<1>8. ASSUME NEW r \in Request, GiveUp(r) PROVE LatestSound'
  <2> DEFINE F == {req[r].file}
  <2>1. /\ Own(r) /\ Same(r) /\ req'[r].fetch = None /\ req'[r].answer = None
        /\ req'[r].pc # "open" /\ req[r].pc = "verify" /\ cache' = Remove(req[r].version, F)
        /\ UNCHANGED <<now, latest, published>>
    BY <1>8, GiveUpStep DEF Answered
  <2> HIDE DEF F
  <2> QED BY <1>6, <2>1
<1>9. ASSUME NEW r \in Request, Open(r) PROVE LatestSound'
  <2> DEFINE f == cache[req[r].version][req[r].file]
             b == IF f = None THEN None ELSE f.content
  <2>1. Answered(r, b) /\ req[r].pc = "open" /\ UNCHANGED <<now, latest, published, cache>>
    BY <1>9, OpenStep
  <2>2. \A g \in File : LatestFile(g)'
    BY <2>1, FilesLatest
  <2>3. \A s \in Request : s # r => LatestRequest(s)'
    BY <1>0, <2>1 DEF Answered, Own, LatestRequest, LatestDownload, LatestExpect, LatestOpen,
       LatestAnswer, Bound, NewestUntil, HasBundle
  <2>4. Bound(r)' = Bound(r) /\ LatestRequest(r)
    BY <1>0, <2>1 DEF Answered, Same, Bound
  <2>5. LatestDownload(r)' /\ LatestExpect(r)' /\ LatestOpen(r)'
    BY <2>1, <2>4 DEF Answered, Own, Same, LatestRequest, LatestDownload, LatestExpect, LatestOpen,
       NewestUntil
  <2>6. LatestAnswer(r)'
    <3> SUFFICES ASSUME req[r].version = Latest, ~req[r].stale, b \in Release
                 PROVE  NewestUntil(b, Bound(r))
      BY <2>1, <2>4 DEF Answered, Own, Same, LatestAnswer, NewestUntil
    <3>1. /\ f # None /\ b = f.content /\ f = cache[Latest][req[r].file] /\ req[r].file \in File
      BY <2>1 DEF RequestsSound
    <3>2. f.mtime \in Nat /\ req[r].checked \in Nat
      BY <3>1, FileFields, ReqFields
    <3>3. CASE f.content = req[r].expect
      BY <2>4, <3>1, <3>3 DEF LatestRequest, LatestExpect
    <3>4. CASE f.mtime >= req[r].checked
      <4>1. NewestUntil(b, f.mtime - FetchTimeout)
        BY <3>1 DEF LatestSound, LatestFile
      <4>2. /\ Bound(r) <= f.mtime - FetchTimeout /\ Bound(r) \in Int /\ f.mtime - FetchTimeout \in Int
        BY <3>2, <3>4, TimeAssumption DEF Bound
      <4> HIDE DEF b, f
      <4> QED BY <4>1, <4>2, NewestEarlier
    <3> QED BY <2>1, <2>4, <3>1, <3>3, <3>4 DEF LatestRequest, LatestOpen
  <2> QED BY <2>2, <2>3, <2>5, <2>6 DEF LatestSound, LatestRequest
<1>10. CASE Publish
  <2>1. UNCHANGED <<now, cache, req>>
    BY <1>10 DEF Publish
  <2>2. \A g \in File : LatestFile(g)'
    <3> TAKE g \in File
    <3> SUFFICES ASSUME cache[Latest][g] # None PROVE LatestFile(g)'
      BY <2>1 DEF LatestFile
    <3>1. LatestFile(g) /\ cache[Latest][g].mtime \in Nat
      BY FileFields DEF LatestSound
    <3>2. /\ cache[Latest][g].mtime - FetchTimeout \in Int
          /\ cache[Latest][g].mtime <= now => cache[Latest][g].mtime - FetchTimeout <= now
      BY <1>0, <3>1, TimeAssumption
    <3> QED BY <1>10, <2>1, <3>1, <3>2, NewestPublish DEF LatestFile
  <2>3. ASSUME NEW s \in Request PROVE LatestRequest(s)'
    <3>1. LatestRequest(s) /\ req[s].since \in Nat /\ req[s].checked \in Nat /\ req[s].checked <= now
      BY <1>0, ReqFields DEF RequestsSound
    <3>2. Bound(s) \in Int /\ Bound(s) <= now /\ Bound(s)' = Bound(s)
      BY <1>0, <2>1, <3>1, TimeAssumption DEF Bound
    <3>3. req[s].fetch \in Release => req[s].since <= now
      BY DEF RequestsSound
    <3>4. LatestDownload(s)'
      BY <1>10, <2>1, <3>1, <3>3, NewestPublish DEF LatestRequest, LatestDownload
    <3>5. LatestExpect(s)' /\ LatestAnswer(s)'
      BY <1>10, <2>1, <3>1, <3>2, NewestPublish DEF LatestRequest, LatestExpect, LatestAnswer, HasBundle
    <3>6. LatestOpen(s)'
      BY <2>1, <3>1 DEF LatestRequest, LatestOpen
    <3> QED BY <3>4, <3>5, <3>6 DEF LatestRequest
  <2> QED BY <2>2, <2>3 DEF LatestSound
<1>11. CASE Tick
  <2>1. now' = now + 1 /\ UNCHANGED <<latest, published, cache, req>>
    BY <1>11 DEF Tick
  <2>2. \A g \in File : LatestFile(g)'
    BY <1>0, <2>1, FileFields DEF LatestSound, LatestFile, NewestUntil
  <2>3. \A s \in Request : LatestRequest(s)'
    BY <1>0, <2>1 DEF LatestRequest, LatestDownload, LatestExpect, LatestOpen, LatestAnswer, Bound,
       NewestUntil, HasBundle
  <2> QED BY <2>2, <2>3 DEF LatestSound
<1>12. CASE Restart
  <2>1. \A g \in File : LatestFile(g)'
    BY <1>12, RestartStep, FilesLatest
  <2>2. \A s \in Request : LatestRequest(s)'
    BY <1>12, RestartStep, IdleFields DEF LatestRequest, LatestDownload, LatestExpect, LatestOpen,
       LatestAnswer
  <2> QED BY <2>1, <2>2 DEF LatestSound
<1>13. CASE UNCHANGED vars
  BY <1>13 DEF vars, LatestSound, LatestFile, LatestRequest, LatestDownload, LatestExpect, LatestOpen,
     LatestAnswer, Bound, NewestUntil, HasBundle
<1> QED BY <1>1, <1>2, <1>3, <1>4, <1>5, <1>7, <1>8, <1>9, <1>10, <1>11, <1>12, <1>13
        DEF Next, Step

-----------------------------------------------------------------------------
(***************************************************************************)
(* The theorems.                                                           *)
(***************************************************************************)

LEMMA NextIInv == IInv /\ [Next]_vars => IInv'
<1> SUFFICES ASSUME IInv, [Next]_vars PROVE IInv'
  OBVIOUS
<1>1. TypeOK' /\ RequestsSound' /\ ExpectedIsStored'
  BY NextTypeOK, NextRequests DEF IInv
<1>2. NumberedSums' /\ NumberedRequests' /\ NumberedVersionsExact'
  BY NextNumbered DEF IInv
<1>3. PublishedDates' /\ LatestSound'
  BY NextDates, NextLatest, LatestParts DEF IInv
<1>4. LatestFiles' /\ LatestDownloads' /\ LatestRequests'
  BY <1>3, Zenon DEF LatestFiles, LatestDownloads, LatestRequests, LatestSound, LatestFile,
     LatestRequest, LatestDownload, LatestExpect, LatestOpen, LatestAnswer, Bound
<1> QED BY <1>1, <1>2, <1>3, <1>4 DEF IInv

LEMMA ReleaseInvariant == Spec => []IInv
BY InitIInv, NextIInv, PTL DEF Spec

\* The directory and the requests keep their types, for any number of requests.
THEOREM ReleaseTypeCorrect == Spec => []TypeOK
<1>1. IInv => TypeOK
  BY DEF IInv
<1> QED BY <1>1, ReleaseInvariant, PTL

\* An asset is compared with the checksums that are in the directory: nobody
\* replaces them between the read and the comparison.
THEOREM ChecksumsStay == Spec => []ExpectedIsStored
<1>1. IInv => ExpectedIsStored
  BY DEF IInv
<1> QED BY <1>1, ReleaseInvariant, PTL

\* An answer for a numbered version is that release's file, whatever upstream sends
\* and although the file is opened after the mutex is released.
THEOREM NumberedExact == Spec => []NumberedVersionsExact
<1>1. IInv => NumberedVersionsExact
  BY DEF IInv
<1> QED BY <1>1, ReleaseInvariant, PTL

\* An answer for latest was the newest release at most latestTTL and one download
\* before its checksums were looked at, unless upstream failed the request.
THEOREM LatestRecent == Spec => []LatestWithinTTL
<1>1. IInv => LatestWithinTTL
  <2> SUFFICES ASSUME IInv, NEW r \in Request, req[r].version = Latest, ~HasBundle(Latest),
                      ~req[r].stale, req[r].answer \in Release, req[r].answer < latest
               PROVE  published[req[r].answer + 1] + TTL + FetchTimeout > req[r].checked
    BY DEF LatestWithinTTL
  <2>1. NewestUntil(req[r].answer, Bound(r))
    BY LatestParts DEF IInv, LatestSound, LatestRequest, LatestAnswer
  <2>2. req[r].checked \in Nat /\ latest \in Release
    BY ReqFields DEF IInv, TypeOK
  <2>3. published[req[r].answer + 1] \in Nat
    BY <2>2, TimeAssumption DEF IInv, PublishedDates, Release
  <2> QED BY <2>1, <2>2, <2>3, TimeAssumption DEF NewestUntil, Bound
<1> QED BY <1>1, ReleaseInvariant, PTL
=============================================================================
