---------------------------- MODULE HistoryCache ----------------------------
(***************************************************************************)
(* The response cache of GET /api/v1/nodes/{id}/history                    *)
(* (internal/server/history_cache.go): a map with a time to live and a     *)
(* size limit behind a mutex, and a singleflight group that lets the       *)
(* requests that miss share one load.                                      *)
(*                                                                         *)
(* A response is identified with the time its query read the database,     *)
(* asOf, and an answer with the age of its response.  A flight is the      *)
(* goroutine that DoChan starts for a key; its load keeps the deadline of  *)
(* the request that started it, not its cancellation, and the encoding     *)
(* after the load is not bound by the deadline.                            *)
(***************************************************************************)
EXTENDS Integers, FiniteSets

CONSTANTS
    Key,         \* node and range
    Client,      \* requests in flight
    None,        \* no entry, no flight, no result
    TTL,         \* cache.ttl
    MaxEntries,  \* cache.maxEntries
    Deadline,    \* http.go: 15 seconds
    EncodeTime,  \* how long json.Marshal and gzip take at most
    MaxTime      \* bound: when the last request comes

ASSUME CacheAssumption ==
    /\ TTL \in Nat \ {0} /\ MaxEntries \in Nat \ {0}
    /\ Deadline \in Nat /\ EncodeTime \in Nat /\ MaxTime \in Nat

Entry == [asOf : Nat, expires : Nat]
Flight == [pc : {"recheck", "query", "loading", "encode", "return"}, deadline : Nat,
           asOf : Nat \cup {None}, waiters : SUBSET Client]
ClientState == [pc : {"idle", "missed", "waiting", "answered"}, key : Key \cup {None},
                since : Nat, age : Nat \cup {None}]

\* The clock goes on until every load and encoding of the last request is due.
Horizon == MaxTime + Deadline + EncodeTime

ASSUME NoneAssumption == None \notin Key \cup Nat \cup Entry \cup Flight

VARIABLES
    now,
    entries,  \* cache.entries
    flight,   \* cache.requests, by key
    client    \* the requests

vars == <<now, entries, flight, client>>

IdleClient == [pc |-> "idle", key |-> None, since |-> 0, age |-> None]
Answered(age) == [pc |-> "answered", key |-> None, since |-> 0, age |-> age]

Init ==
    /\ now = 0
    /\ entries = [k \in Key |-> None]
    /\ flight = [k \in Key |-> None]
    /\ client = [c \in Client |-> IdleClient]

-----------------------------------------------------------------------------

\* Mutant: the expiry of an entry is not looked at.
Cached_Forever(k) == entries[k] # None

\* cached: the entry of the key if it has not expired.
Cached(k) == entries[k] # None /\ now < entries[k].expires

\* get looks the key up: a hit is the answer.
Hit(c, k) ==
    /\ client[c].pc = "idle" /\ now <= MaxTime
    /\ Cached(k)
    /\ client' = [client EXCEPT ![c] = Answered(now - entries[k].asOf)]
    /\ UNCHANGED <<now, entries, flight>>

Miss(c, k) ==
    /\ client[c].pc = "idle" /\ now <= MaxTime
    /\ ~Cached(k)
    /\ client' = [client EXCEPT ![c] = [pc |-> "missed", key |-> k, since |-> now, age |-> None]]
    /\ UNCHANGED <<now, entries, flight>>

\* Mutant: the load loses the deadline together with the cancellation.
DoChan_NoDeadline(c) ==
    LET k == client[c].key IN
    /\ client[c].pc = "missed"
    /\ client' = [client EXCEPT ![c] = [@ EXCEPT !.pc = "waiting", !.since = 0]]
    /\ flight' = [flight EXCEPT ![k] =
            IF @ = None
            THEN [pc |-> "recheck", deadline |-> Horizon + 1, asOf |-> None, waiters |-> {c}]
            ELSE [@ EXCEPT !.waiters = flight[k].waiters \cup {c}]]
    /\ UNCHANGED <<now, entries>>

\* DoChan: the request joins the flight of its key or starts one.
DoChan(c) ==
    LET k == client[c].key IN
    /\ client[c].pc = "missed"
    /\ client' = [client EXCEPT ![c] = [@ EXCEPT !.pc = "waiting", !.since = 0]]
    /\ flight' = [flight EXCEPT ![k] =
            IF @ = None
            THEN [pc |-> "recheck", deadline |-> client[c].since + Deadline,
                  asOf |-> None, waiters |-> {c}]
            ELSE [@ EXCEPT !.waiters = flight[k].waiters \cup {c}]]
    /\ UNCHANGED <<now, entries>>

\* Mutant: the flight goes straight to the query.
Recheck_Skipped(k) ==
    /\ flight[k] # None /\ flight[k].pc = "recheck"
    /\ flight' = [flight EXCEPT ![k] = [@ EXCEPT !.pc = "query"]]
    /\ UNCHANGED <<now, entries, client>>

\* The flight looks the key up again: another flight may have ended since.
Recheck(k) ==
    /\ flight[k] # None /\ flight[k].pc = "recheck"
    /\ flight' = [flight EXCEPT ![k] =
            IF Cached(k) THEN [@ EXCEPT !.pc = "return", !.asOf = entries[k].asOf]
                         ELSE [@ EXCEPT !.pc = "query"]]
    /\ UNCHANGED <<now, entries, client>>

\* load reads the database, unless its deadline has passed.
Query(k) ==
    /\ flight[k] # None /\ flight[k].pc = "query"
    /\ now <= flight[k].deadline
    /\ flight' = [flight EXCEPT ![k] = [@ EXCEPT !.pc = "loading", !.asOf = now]]
    /\ UNCHANGED <<now, entries, client>>

\* load returns in time.  The encoding that follows has a time of its own.
Loaded(k) ==
    /\ flight[k] # None /\ flight[k].pc = "loading"
    /\ now <= flight[k].deadline
    /\ flight' = [flight EXCEPT ![k] = [@ EXCEPT !.pc = "encode", !.deadline = now + EncodeTime]]
    /\ UNCHANGED <<now, entries, client>>

\* The keys whose entries store keeps, before it picks one to evict.
Unexpired == {k \in Key : Cached(k)}

\* Mutant: the limit is compared with > instead of >=.
Evicted_OffByOne(x) ==
    /\ x \in Unexpired
    /\ Cardinality(Unexpired) > MaxEntries
    /\ \A y \in Unexpired : entries[x].expires <= entries[y].expires

\* store may evict entry x: the map is full and no entry expires earlier.
Evicted(x) ==
    /\ x \in Unexpired
    /\ Cardinality(Unexpired) >= MaxEntries
    /\ \A y \in Unexpired : entries[x].expires <= entries[y].expires

\* The map after store(key, response, now) evicted x, or None.
Stored(k, asOf, x) ==
    [y \in Key |-> CASE y = k -> [asOf |-> asOf, expires |-> now + TTL]
                     [] y # k /\ y \in Unexpired /\ y # x -> entries[y]
                     [] OTHER -> None]

\* The response is encoded, compressed and stored.
Store(k, x) ==
    /\ flight[k] # None /\ flight[k].pc = "encode"
    /\ IF \E y \in Key : Evicted(y) THEN x # None /\ Evicted(x) ELSE x = None
    /\ entries' = Stored(k, flight[k].asOf, x)
    /\ flight' = [flight EXCEPT ![k] = [@ EXCEPT !.pc = "return"]]
    /\ UNCHANGED <<now, client>>

\* Mutant: the error path ends the flight without a result.
LoadFails_Silent(k) ==
    /\ flight[k] # None /\ flight[k].pc \in {"query", "loading", "encode"}
    /\ flight' = [flight EXCEPT ![k] = None]
    /\ UNCHANGED <<now, entries, client>>

\* The load returns an error, or its result cannot be encoded.
LoadFails(k) ==
    /\ flight[k] # None /\ flight[k].pc \in {"query", "loading", "encode"}
    /\ flight' = [flight EXCEPT ![k] = [@ EXCEPT !.pc = "return", !.asOf = None]]
    /\ UNCHANGED <<now, entries, client>>

\* The context of the load ends it at the deadline.
LoadTimesOut(k) ==
    /\ flight[k] # None /\ flight[k].pc \in {"query", "loading"}
    /\ now >= flight[k].deadline
    /\ flight' = [flight EXCEPT ![k] = [@ EXCEPT !.pc = "return", !.asOf = None]]
    /\ UNCHANGED <<now, entries, client>>

\* The age of what a flight returns, None for an error.
Age(asOf) == IF asOf = None THEN None ELSE now - asOf

\* singleflight forgets the key and sends the result to the requests that wait.
Return(k) ==
    /\ flight[k] # None /\ flight[k].pc = "return"
    /\ flight' = [flight EXCEPT ![k] = None]
    /\ client' = [c \in Client |->
            IF c \in flight[k].waiters
            THEN Answered(Age(flight[k].asOf))
            ELSE client[c]]
    /\ UNCHANGED <<now, entries>>

\* ctx.Done(): the request gave up or ran out of time; the flight goes on.
Cancel(c) ==
    /\ client[c].pc = "waiting"
    /\ client' = [client EXCEPT ![c] = Answered(None)]
    /\ flight' = [k \in Key |-> IF flight[k] = None THEN None
                                ELSE [flight[k] EXCEPT !.waiters = @ \ {c}]]
    /\ UNCHANGED <<now, entries>>

\* The response has been written (age = None: an error).
Finish(c) ==
    /\ client[c].pc = "answered"
    /\ client' = [client EXCEPT ![c] = IdleClient]
    /\ UNCHANGED <<now, entries, flight>>

\* The context of a load ends it at its deadline, encoding ends within its time, and
\* a computed answer is passed on within a tick.
Tick ==
    /\ now < Horizon
    /\ \A k \in Key : flight[k] # None => flight[k].pc # "return" /\ now < flight[k].deadline
    /\ now' = now + 1
    /\ UNCHANGED <<entries, flight, client>>

FlightStep(k) ==
    \/ Recheck(k)
    \/ Query(k)
    \/ Loaded(k)
    \/ \E x \in Key \cup {None} : Store(k, x)
    \/ LoadFails(k)
    \/ LoadTimesOut(k)
    \/ Return(k)

Next ==
    \/ \E c \in Client, k \in Key : Hit(c, k)
    \/ \E c \in Client, k \in Key : Miss(c, k)
    \/ \E c \in Client : DoChan(c)
    \/ \E k \in Key : FlightStep(k)
    \/ \E c \in Client : Cancel(c)
    \/ \E c \in Client : Finish(c)
    \/ Tick

\* Time passes, the goroutines of the flights are scheduled, the context ends a load
\* at its deadline and encoding ends.  Nothing is assumed of the database: it may
\* never answer.
Fairness ==
    /\ SF_vars(Tick)
    /\ \A k \in Key :
        /\ WF_vars(Recheck(k)) /\ WF_vars(LoadTimesOut(k)) /\ WF_vars(Return(k))
        /\ WF_vars(\E x \in Key \cup {None} : Store(k, x))

Spec == Init /\ [][Next]_vars /\ Fairness

-----------------------------------------------------------------------------

\* Entries, flights and requests have their types, and a request that waits is
\* among the waiters of its key's flight: nobody waits for an answer that no
\* flight will send.
TypeOK ==
    /\ now \in Nat
    /\ entries \in [Key -> Entry \cup {None}]
    /\ flight \in [Key -> Flight \cup {None}]
    /\ client \in [Client -> ClientState]
    /\ \A c \in Client : client[c].pc = "waiting" =>
            /\ client[c].key \in Key
            /\ flight[client[c].key] # None
            /\ c \in flight[client[c].key].waiters

\* The map never holds more than maxEntries responses.
CacheBounded == Cardinality({k \in Key : entries[k] # None}) <= MaxEntries

\* While a flight queries the database the cache has no live response for its
\* key: requests that miss one after the other do not load twice.
NoRedundantLoad ==
    \A k \in Key : flight[k] # None /\ flight[k].pc \in {"query", "loading", "encode"} => ~Cached(k)

\* The age that the data of an answer can have: a load, an encoding and a time to
\* live.
MaxAge == TTL + Deadline + EncodeTime

\* No request is answered with data as old as one time to live, one load and one
\* encoding, however it got the answer: a hit, its own load or a load it joined.
AnswersFresh ==
    \A c \in Client : client[c].pc = "answered" /\ client[c].age # None => client[c].age < MaxAge

\* Every flight ends, also when the request that started it has gone and the
\* database never answers: a key is never blocked for good by a load that hangs,
\* and those that wait for it are answered.
EveryFlightEnds == \A k \in Key : flight[k] # None ~> flight[k] = None

-----------------------------------------------------------------------------
(***************************************************************************)
(* Why the invariants hold: the parts of an inductive invariant.           *)
(***************************************************************************)

\* A request that has missed has its key, no answer yet and arrived in the past.
RequestsSound ==
    \A c \in Client :
        /\ client[c].since <= now
        /\ client[c].pc \in {"missed", "waiting"} =>
                client[c].key \in Key /\ client[c].age = None

\* A load ends within one Deadline of the request that started it, and its encoding
\* EncodeTime later, so what was read is no older than both when it is stored.
FlightsTimely ==
    \A k \in Key : flight[k] # None =>
        /\ flight[k].pc \in {"recheck", "query"} => flight[k].deadline <= now + Deadline
        /\ flight[k].pc = "loading" =>
                /\ flight[k].asOf \in 0 .. now /\ flight[k].deadline <= flight[k].asOf + Deadline
        /\ flight[k].pc = "encode" =>
                /\ flight[k].asOf \in 0 .. now /\ now <= flight[k].deadline
                /\ flight[k].deadline <= flight[k].asOf + Deadline + EncodeTime
        /\ flight[k].pc = "return" /\ flight[k].asOf # None =>
                flight[k].asOf \in 0 .. now /\ now < flight[k].asOf + MaxAge

\* So an entry expires one time to live, one load and one encoding after its data
\* was read.
EntriesTimely ==
    \A k \in Key : entries[k] # None =>
        entries[k].asOf <= now /\ entries[k].expires <= entries[k].asOf + MaxAge

\* The map is finite, whatever the number of keys.
CacheFinite == IsFiniteSet({k \in Key : entries[k] # None})

IInv ==
    /\ TypeOK /\ RequestsSound /\ FlightsTimely /\ EntriesTimely
    /\ CacheFinite /\ CacheBounded /\ NoRedundantLoad /\ AnswersFresh
=============================================================================
