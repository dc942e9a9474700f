------------------------- MODULE HistoryCacheProofs -------------------------
(***************************************************************************)
(* The history cache keeps its limit, loads once and answers with recent   *)
(* data, for any keys, any number of requests and any limits.              *)
(***************************************************************************)
EXTENDS HistoryCache, FiniteSetTheorems, WellFoundedInduction, TLAPS

-----------------------------------------------------------------------------
(***************************************************************************)
(* The types of what is stored.                                            *)
(***************************************************************************)

\* An entry, a flight and a request by their fields.
LEMMA CacheFields ==
    ASSUME TypeOK
    PROVE  /\ \A k \in Key : entries[k] # None =>
                    entries[k] \in Entry /\ entries[k].asOf \in Nat /\ entries[k].expires \in Nat
           /\ \A k \in Key : flight[k] # None =>
                    /\ flight[k] \in Flight
                    /\ flight[k].pc \in {"recheck", "query", "loading", "encode", "return"}
                    /\ flight[k].deadline \in Nat /\ flight[k].asOf \in Nat \cup {None}
                    /\ flight[k].waiters \subseteq Client
           /\ \A c \in Client :
                    /\ client[c] \in ClientState
                    /\ client[c].pc \in {"idle", "missed", "waiting", "answered"}
                    /\ client[c].key \in Key \cup {None} /\ client[c].since \in Nat
                    /\ client[c].age \in Nat \cup {None}
BY DEF TypeOK, Entry, Flight, ClientState

\* None is no key, no time, no entry and no flight.
LEMMA NoneApart ==
    /\ None \notin Key /\ None \notin Nat /\ None \notin Entry /\ None \notin Flight
BY NoneAssumption

\* Flight k moves to p with answer a and deadline d: it keeps its waiters.
Moved(k, p, a, d) ==
    /\ flight[k] # None
    /\ flight' \in [Key -> Flight \cup {None}]
    /\ flight'[k] # None /\ flight'[k].pc = p /\ flight'[k].asOf = a
    /\ flight'[k].deadline = d /\ flight'[k].waiters = flight[k].waiters
    /\ \A j \in Key : j # k => flight'[j] = flight[j]

LEMMA FlightMoves ==
    ASSUME TypeOK, NEW k \in Key, flight[k] # None,
           NEW p \in {"recheck", "query", "loading", "encode", "return"}, NEW a \in Nat \cup {None},
           flight' = [flight EXCEPT ![k] = [flight[k] EXCEPT !.pc = p, !.asOf = a]]
    PROVE  Moved(k, p, a, flight[k].deadline)
<1> DEFINE f == [flight[k] EXCEPT !.pc = p, !.asOf = a]
<1>1. flight[k] \in Flight
  BY CacheFields
<1>2. f \in Flight
  BY <1>1 DEF Flight
<1>3. f.pc = p /\ f.asOf = a /\ f.deadline = flight[k].deadline /\ f.waiters = flight[k].waiters
  BY <1>1 DEF Flight
<1>4. flight \in [Key -> Flight \cup {None}] /\ flight' = [flight EXCEPT ![k] = f]
  BY DEF TypeOK
<1> HIDE DEF f
<1> QED BY <1>2, <1>3, <1>4, NoneApart DEF Moved

\* Leaving the answer alone is a move as well.
LEMMA FlightMovesOn ==
    ASSUME TypeOK, NEW k \in Key, flight[k] # None,
           NEW p \in {"recheck", "query", "loading", "encode", "return"},
           flight' = [flight EXCEPT ![k] = [flight[k] EXCEPT !.pc = p]]
    PROVE  Moved(k, p, flight[k].asOf, flight[k].deadline)
<1> DEFINE f == [flight[k] EXCEPT !.pc = p]
<1>1. flight[k] \in Flight
  BY CacheFields
<1>2. f \in Flight
  BY <1>1 DEF Flight
<1>3. f.pc = p /\ f.asOf = flight[k].asOf /\ f.deadline = flight[k].deadline
      /\ f.waiters = flight[k].waiters
  BY <1>1 DEF Flight
<1>4. flight \in [Key -> Flight \cup {None}] /\ flight' = [flight EXCEPT ![k] = f]
  BY DEF TypeOK
<1> HIDE DEF f
<1> QED BY <1>2, <1>3, <1>4, NoneApart DEF Moved

\* The steps of a flight, as moves.
LEMMA FlightSteps ==
    ASSUME TypeOK, NEW k \in Key
    PROVE  LET d == flight[k].deadline IN
           /\ Recheck(k) /\ Cached(k) => Moved(k, "return", entries[k].asOf, d)
           /\ Recheck(k) /\ ~Cached(k) => Moved(k, "query", flight[k].asOf, d)
           /\ Query(k) => Moved(k, "loading", now, d)
           /\ Loaded(k) => Moved(k, "encode", flight[k].asOf, now + EncodeTime)
           /\ \A x : Store(k, x) => Moved(k, "return", flight[k].asOf, d)
           /\ LoadFails(k) \/ LoadTimesOut(k) => Moved(k, "return", None, d)
<1> DEFINE d == flight[k].deadline
<1>0. flight \in [Key -> Flight \cup {None}] /\ now \in Nat
  BY DEF TypeOK
<1>1. ASSUME Recheck(k), Cached(k) PROVE Moved(k, "return", entries[k].asOf, d)
  <2>1. flight' = [flight EXCEPT ![k] = [flight[k] EXCEPT !.pc = "return", !.asOf = entries[k].asOf]]
    BY <1>0, <1>1 DEF Recheck
  <2>2. flight[k] # None /\ entries[k].asOf \in Nat
    BY <1>1, CacheFields DEF Recheck, Cached
  <2> QED BY <2>1, <2>2, FlightMoves
<1>2. ASSUME Recheck(k), ~Cached(k) PROVE Moved(k, "query", flight[k].asOf, d)
  <2>1. flight' = [flight EXCEPT ![k] = [flight[k] EXCEPT !.pc = "query"]]
    BY <1>0, <1>2 DEF Recheck
  <2> QED BY <1>2, <2>1, FlightMovesOn DEF Recheck
<1>3. ASSUME Query(k) PROVE Moved(k, "loading", now, d)
  <2>1. flight' = [flight EXCEPT ![k] = [flight[k] EXCEPT !.pc = "loading", !.asOf = now]]
    BY <1>3 DEF Query
  <2> QED BY <1>0, <1>3, <2>1, FlightMoves DEF Query
<1>4. ASSUME NEW x, Store(k, x) PROVE Moved(k, "return", flight[k].asOf, d)
  <2>1. flight' = [flight EXCEPT ![k] = [flight[k] EXCEPT !.pc = "return"]]
    BY <1>4 DEF Store
  <2> QED BY <1>4, <2>1, FlightMovesOn DEF Store
<1>5. ASSUME LoadFails(k) \/ LoadTimesOut(k) PROVE Moved(k, "return", None, d)
  <2>1. flight' = [flight EXCEPT ![k] = [flight[k] EXCEPT !.pc = "return", !.asOf = None]]
    BY <1>5 DEF LoadFails, LoadTimesOut
  <2> QED BY <1>5, <2>1, FlightMoves DEF LoadFails, LoadTimesOut
<1>6. ASSUME Loaded(k) PROVE Moved(k, "encode", flight[k].asOf, now + EncodeTime)
  <2> DEFINE e == now + EncodeTime
             f == [flight[k] EXCEPT !.pc = "encode", !.deadline = e]
  <2>1. flight[k] \in Flight /\ flight[k] # None /\ e \in Nat
    BY <1>0, <1>6, CacheFields, CacheAssumption DEF Loaded
  <2>2. flight' = [flight EXCEPT ![k] = f]
    BY <1>6 DEF Loaded
  <2> HIDE DEF e
  <2>3. f \in Flight
    BY <2>1 DEF Flight
  <2>4. f.pc = "encode" /\ f.asOf = flight[k].asOf /\ f.deadline = e /\ f.waiters = flight[k].waiters
    BY <2>1 DEF Flight
  <2> HIDE DEF f
  <2> QED BY <1>0, <2>1, <2>2, <2>3, <2>4, NoneApart DEF Moved, e
<1> QED BY <1>1, <1>2, <1>3, <1>4, <1>5, <1>6

\* A move changes neither types nor who waits.
LEMMA MovedTypeOK ==
    ASSUME TypeOK, NEW k \in Key, NEW p, NEW a, NEW d, Moved(k, p, a, d), UNCHANGED <<now, client>>,
           entries' \in [Key -> Entry \cup {None}]
    PROVE  TypeOK'
<1>1. \A j \in Key : flight[j] # None =>
        flight'[j] # None /\ flight'[j].waiters = flight[j].waiters
  BY DEF Moved
<1> QED BY <1>1 DEF Moved, TypeOK

\* DoChan starts a flight or joins one.
LEMMA FlightJoined ==
    ASSUME TypeOK, RequestsSound, NEW c \in Client, DoChan(c)
    PROVE  LET k == client[c].key IN
           /\ k \in Key /\ client[c].since \in Nat
           /\ flight' \in [Key -> Flight \cup {None}]
           /\ flight'[k] # None /\ c \in flight'[k].waiters
           /\ flight[k] = None => /\ flight'[k].pc = "recheck" /\ flight'[k].asOf = None
                                  /\ flight'[k].deadline = client[c].since + Deadline
           /\ flight[k] # None =>
                /\ flight'[k].pc = flight[k].pc /\ flight'[k].asOf = flight[k].asOf
                /\ flight'[k].deadline = flight[k].deadline
                /\ flight'[k].waiters = flight[k].waiters \cup {c}
           /\ \A j \in Key : j # k => flight'[j] = flight[j]
<1> DEFINE k == client[c].key
           new == [pc |-> "recheck", deadline |-> client[c].since + Deadline, asOf |-> None,
                   waiters |-> {c}]
<1>1. k \in Key /\ client[c].since \in Nat
  BY CacheFields DEF DoChan, RequestsSound
<1>2. new \in Flight /\ new # None
  BY <1>1, NoneApart, CacheAssumption DEF Flight
<1>3. flight \in [Key -> Flight \cup {None}]
  BY DEF TypeOK
<1>4. CASE flight[k] = None
  <2>1. flight'[k] = new /\ \A j \in Key : j # k => flight'[j] = flight[j]
    BY <1>1, <1>3, <1>4 DEF DoChan
  <2>2. flight' = [j \in Key |-> flight'[j]]
    BY <1>3 DEF DoChan
  <2>3. new.pc = "recheck" /\ new.asOf = None /\ new.deadline = client[c].since + Deadline
        /\ c \in new.waiters
    OBVIOUS
  <2> HIDE DEF new
  <2> QED BY <1>1, <1>2, <1>3, <1>4, <2>1, <2>2, <2>3
<1>5. CASE flight[k] # None
  <2> DEFINE join == [flight[k] EXCEPT !.waiters = flight[k].waiters \cup {c}]
  <2>0. flight[k] \in Flight
    BY <1>1, <1>5, CacheFields
  <2>1. join \in Flight
    BY <2>0 DEF Flight
  <2>2. flight'[k] = join /\ \A j \in Key : j # k => flight'[j] = flight[j]
    BY <1>1, <1>3, <1>5, <2>0 DEF DoChan, Flight
  <2>3. flight' = [j \in Key |-> flight'[j]]
    BY <1>3 DEF DoChan
  <2>4. join.pc = flight[k].pc /\ join.asOf = flight[k].asOf /\ join.deadline = flight[k].deadline
        /\ join.waiters = flight[k].waiters \cup {c}
    BY <2>0 DEF Flight
  <2> HIDE DEF join
  <2> QED BY <1>1, <1>3, <1>5, <2>1, <2>2, <2>3, <2>4, NoneApart
<1> QED BY <1>4, <1>5

-----------------------------------------------------------------------------
(***************************************************************************)
(* TypeOK and the requests.                                                *)
(***************************************************************************)

LEMMA InitIInv == Init => IInv
<1> SUFFICES ASSUME Init PROVE IInv
  OBVIOUS
<1>1. TypeOK /\ RequestsSound /\ FlightsTimely /\ EntriesTimely /\ NoRedundantLoad /\ AnswersFresh
  BY CacheAssumption DEF Init, TypeOK, RequestsSound, FlightsTimely, EntriesTimely,
     NoRedundantLoad, AnswersFresh, IdleClient, Cached, ClientState
<1>2. {k \in Key : entries[k] # None} = {}
  BY DEF Init
<1>3. CacheFinite /\ CacheBounded
  BY <1>2, FS_EmptySet, CacheAssumption DEF CacheFinite, CacheBounded
<1> QED BY <1>1, <1>3 DEF IInv

\* The age of what a flight returns is a number, below the limit.
LEMMA ReturnedAge ==
    ASSUME TypeOK, FlightsTimely, NEW k \in Key, flight[k] # None, flight[k].pc = "return"
    PROVE  /\ Age(flight[k].asOf) \in Nat \cup {None}
           /\ Age(flight[k].asOf) # None => Age(flight[k].asOf) < MaxAge
<1>1. CASE flight[k].asOf = None
  BY <1>1 DEF Age
<1>2. CASE flight[k].asOf # None
  <2>1. flight[k].asOf \in 0 .. now /\ now < flight[k].asOf + MaxAge
    BY <1>2 DEF FlightsTimely
  <2>2. MaxAge \in Nat /\ now \in Nat
    BY CacheAssumption DEF MaxAge, TypeOK
  <2>3. Age(flight[k].asOf) = now - flight[k].asOf
    BY <1>2 DEF Age
  <2> QED BY <2>1, <2>2, <2>3
<1> QED BY <1>1, <1>2

LEMMA NextTypeOK ==
    TypeOK /\ RequestsSound /\ FlightsTimely /\ EntriesTimely /\ [Next]_vars => TypeOK'
<1> SUFFICES ASSUME TypeOK, RequestsSound, FlightsTimely, EntriesTimely, [Next]_vars PROVE TypeOK'
  OBVIOUS
<1> USE CacheAssumption, NoneApart, CacheFields
<1>1. ASSUME NEW c \in Client, NEW k \in Key, Hit(c, k) PROVE TypeOK'
  <2>1. now - entries[k].asOf \in Nat
    BY <1>1 DEF Hit, TypeOK, Cached, EntriesTimely
  <2>2. Answered(now - entries[k].asOf) \in ClientState /\ Answered(now - entries[k].asOf).pc = "answered"
    BY <2>1 DEF Answered, ClientState
  <2>3. client' = [client EXCEPT ![c] = Answered(now - entries[k].asOf)]
    BY <1>1 DEF Hit
  <2> QED BY <1>1, <2>2, <2>3 DEF Hit, TypeOK
<1>2. ASSUME NEW c \in Client, NEW k \in Key, Miss(c, k) PROVE TypeOK'
  BY <1>2 DEF Miss, TypeOK, ClientState
<1>3. ASSUME NEW c \in Client, DoChan(c) PROVE TypeOK'
  <2>1. client' \in [Client -> ClientState]
    BY <1>3 DEF DoChan, TypeOK, ClientState
  <2>2. client'[c].key = client[c].key /\ \A d \in Client : d # c => client'[d] = client[d]
    BY <1>3 DEF DoChan, TypeOK, ClientState
  <2>3. /\ client[c].key \in Key /\ flight' \in [Key -> Flight \cup {None}]
        /\ flight'[client[c].key] # None /\ c \in flight'[client[c].key].waiters
        /\ \A j \in Key : flight[j] # None =>
                flight'[j] # None /\ flight[j].waiters \subseteq flight'[j].waiters
    BY <1>3, FlightJoined
  <2>4. \A d \in Client : client'[d].pc = "waiting" =>
            /\ client'[d].key \in Key /\ flight'[client'[d].key] # None
            /\ d \in flight'[client'[d].key].waiters
    BY <2>2, <2>3 DEF TypeOK
  <2>5. now' \in Nat /\ entries' \in [Key -> Entry \cup {None}]
    BY <1>3 DEF DoChan, TypeOK
  <2> QED BY <2>1, <2>3, <2>4, <2>5 DEF TypeOK
<1>4. ASSUME NEW k \in Key, Recheck(k) PROVE TypeOK'
  <2>1. UNCHANGED <<now, client>> /\ entries' \in [Key -> Entry \cup {None}]
    BY <1>4 DEF Recheck, TypeOK
  <2> QED BY <1>4, <2>1, FlightSteps, MovedTypeOK
<1>5. ASSUME NEW k \in Key, Query(k) PROVE TypeOK'
  <2>1. UNCHANGED <<now, client>> /\ entries' \in [Key -> Entry \cup {None}]
    BY <1>5 DEF Query, TypeOK
  <2> QED BY <1>5, <2>1, FlightSteps, MovedTypeOK
<1>6. ASSUME NEW k \in Key, NEW x \in Key \cup {None}, Store(k, x) PROVE TypeOK'
  <2>1. flight[k].asOf \in Nat
    BY <1>6 DEF Store, FlightsTimely
  <2>2. UNCHANGED <<now, client>> /\ entries' \in [Key -> Entry \cup {None}]
    BY <1>6, <2>1 DEF Store, TypeOK, Stored, Entry
  <2> QED BY <1>6, <2>2, FlightSteps, MovedTypeOK
<1>7. ASSUME NEW k \in Key, LoadFails(k) \/ LoadTimesOut(k) \/ Loaded(k) PROVE TypeOK'
  <2>1. UNCHANGED <<now, client>> /\ entries' \in [Key -> Entry \cup {None}]
    BY <1>7 DEF LoadFails, LoadTimesOut, Loaded, TypeOK
  <2> QED BY <1>7, <2>1, FlightSteps, MovedTypeOK
<1>8. ASSUME NEW k \in Key, Return(k) PROVE TypeOK'
  <2>1. flight' \in [Key -> Flight \cup {None}]
    BY <1>8 DEF Return, TypeOK
  <2>2. client' \in [Client -> ClientState]
    <3>1. Answered(Age(flight[k].asOf)) \in ClientState
      BY <1>8, ReturnedAge DEF Return, Answered, ClientState
    <3> QED BY <1>8, <3>1 DEF Return
  <2>3. \A c \in Client : client'[c].pc = "waiting" =>
            client[c].pc = "waiting" /\ client'[c].key = client[c].key /\ c \notin flight[k].waiters
    BY <1>8 DEF Return, TypeOK, Answered
  <2>4. \A j \in Key : j # k => flight'[j] = flight[j]
    BY <1>8 DEF Return, TypeOK
  <2> QED BY <1>8, <2>1, <2>2, <2>3, <2>4 DEF Return, TypeOK
<1>9. ASSUME NEW c \in Client, Cancel(c) PROVE TypeOK'
  <2>1. flight' \in [Key -> Flight \cup {None}]
    BY <1>9 DEF Cancel, TypeOK, Flight
  <2>2. client' \in [Client -> ClientState]
    BY <1>9 DEF Cancel, TypeOK, Answered, ClientState
  <2>3. \A j \in Key : flight[j] # None =>
            flight'[j] # None /\ flight'[j].waiters = flight[j].waiters \ {c}
    BY <1>9 DEF Cancel, TypeOK, Flight
  <2>4. client'[c].pc = "answered" /\ \A d \in Client : d # c => client'[d] = client[d]
    BY <1>9 DEF Cancel, TypeOK, Answered
  <2>5. \A d \in Client : client'[d].pc = "waiting" =>
            /\ d # c /\ client[d].key \in Key /\ flight[client[d].key] # None
            /\ d \in flight[client[d].key].waiters /\ client'[d].key = client[d].key
    BY <2>4 DEF TypeOK
  <2>6. \A d \in Client : client'[d].pc = "waiting" =>
            /\ client'[d].key \in Key /\ flight'[client'[d].key] # None
            /\ d \in flight'[client'[d].key].waiters
    BY <2>3, <2>5
  <2>7. now' \in Nat /\ entries' \in [Key -> Entry \cup {None}]
    BY <1>9 DEF Cancel, TypeOK
  <2> HIDE DEF TypeOK
  <2> QED BY <2>1, <2>2, <2>6, <2>7 DEF TypeOK
<1>10. ASSUME NEW c \in Client, Finish(c) PROVE TypeOK'
  BY <1>10 DEF Finish, TypeOK, ClientState, IdleClient
<1>11. CASE Tick
  BY <1>11 DEF Tick, TypeOK
<1>12. CASE UNCHANGED vars
  BY <1>12 DEF vars, TypeOK
<1> QED BY <1>1, <1>2, <1>3, <1>4, <1>5, <1>6, <1>7, <1>8, <1>9, <1>10, <1>11, <1>12
        DEF Next, FlightStep

\* Only DoChan, Return, Hit and Miss touch a request that is not over.
LEMMA NextRequests ==
    TypeOK /\ RequestsSound /\ [Next]_vars => RequestsSound'
<1> SUFFICES ASSUME TypeOK, RequestsSound, [Next]_vars PROVE RequestsSound'
  OBVIOUS
<1> USE CacheAssumption, NoneApart, CacheFields
<1>1. ASSUME NEW c \in Client, NEW k \in Key, Hit(c, k) PROVE RequestsSound'
  BY <1>1 DEF Hit, TypeOK, RequestsSound, Answered
<1>2. ASSUME NEW c \in Client, NEW k \in Key, Miss(c, k) PROVE RequestsSound'
  BY <1>2 DEF Miss, TypeOK, RequestsSound
<1>3. ASSUME NEW c \in Client, DoChan(c) PROVE RequestsSound'
  BY <1>3 DEF DoChan, TypeOK, RequestsSound, ClientState
<1>4. ASSUME NEW k \in Key, Return(k) PROVE RequestsSound'
  BY <1>4 DEF Return, TypeOK, RequestsSound, Answered
<1>5. ASSUME NEW c \in Client, Cancel(c) PROVE RequestsSound'
  BY <1>5 DEF Cancel, TypeOK, RequestsSound, Answered
<1>6. ASSUME NEW c \in Client, Finish(c) PROVE RequestsSound'
  BY <1>6 DEF Finish, TypeOK, RequestsSound, IdleClient
<1>7. CASE Tick
  BY <1>7 DEF Tick, TypeOK, RequestsSound
<1>8. CASE UNCHANGED <<now, client>>
  BY <1>8 DEF RequestsSound
<1> QED BY <1>1, <1>2, <1>3, <1>4, <1>5, <1>6, <1>7, <1>8
        DEF Next, FlightStep, Recheck, Query, Loaded, Store, LoadFails, LoadTimesOut, vars

-----------------------------------------------------------------------------
(***************************************************************************)
(* The age of the data.                                                    *)
(***************************************************************************)

\* A step that leaves the flights and the clock alone, or moves one flight,
\* keeps the rest timely.
LEMMA NextFlights ==
    IInv /\ [Next]_vars => FlightsTimely'
<1> SUFFICES ASSUME IInv, [Next]_vars PROVE FlightsTimely'
  OBVIOUS
<1>0. TypeOK /\ RequestsSound /\ FlightsTimely /\ EntriesTimely /\ now \in Nat
  BY DEF IInv, TypeOK
<1> USE CacheAssumption, NoneApart
<1>11. MaxAge \in Nat /\ Deadline + EncodeTime < MaxAge /\ MaxAge = TTL + Deadline + EncodeTime
  BY DEF MaxAge
<1>1. ASSUME NEW c \in Client, DoChan(c) PROVE FlightsTimely'
  <2>1. client[c].since <= now /\ now' = now
    BY <1>0, <1>1 DEF DoChan, RequestsSound
  <2> QED BY <1>0, <1>1, <2>1, FlightJoined, CacheFields DEF FlightsTimely
<1>2. ASSUME NEW k \in Key, Recheck(k) PROVE FlightsTimely'
  <2>1. now' = now
    BY <1>2 DEF Recheck
  <2>2. CASE Cached(k)
    <3>1. entries[k].asOf \in 0 .. now /\ now < entries[k].asOf + MaxAge
      BY <1>0, <1>11, <2>2, CacheFields DEF Cached, EntriesTimely
    <3> QED BY <1>0, <1>2, <2>1, <2>2, <3>1, FlightSteps DEF FlightsTimely, Moved
  <2>3. CASE ~Cached(k)
    <3>1. flight[k] # None /\ flight[k].pc = "recheck"
      BY <1>2 DEF Recheck
    <3> QED BY <1>0, <1>2, <2>1, <2>3, <3>1, FlightSteps DEF FlightsTimely, Moved
  <2> QED BY <2>2, <2>3
<1>3. ASSUME NEW k \in Key, Query(k) PROVE FlightsTimely'
  <2>1. now' = now /\ flight[k] # None /\ flight[k].pc = "query" /\ now \in 0 .. now
    BY <1>0, <1>3 DEF Query
  <2> QED BY <1>0, <1>3, <2>1, FlightSteps DEF FlightsTimely, Moved
<1>4. ASSUME NEW k \in Key, NEW x \in Key \cup {None}, Store(k, x) PROVE FlightsTimely'
  <2>1. now' = now /\ flight[k] # None /\ flight[k].pc = "encode"
    BY <1>4 DEF Store
  <2>2. flight[k].asOf \in 0 .. now /\ now < flight[k].asOf + MaxAge
    BY <1>0, <1>11, <2>1, CacheFields DEF FlightsTimely
  <2> QED BY <1>0, <1>4, <2>1, <2>2, FlightSteps DEF FlightsTimely, Moved
<1>5. ASSUME NEW k \in Key, LoadFails(k) \/ LoadTimesOut(k) PROVE FlightsTimely'
  <2>1. now' = now
    BY <1>5 DEF LoadFails, LoadTimesOut
  <2> QED BY <1>0, <1>5, <2>1, FlightSteps DEF FlightsTimely, Moved
<1>10. ASSUME NEW k \in Key, Loaded(k) PROVE FlightsTimely'
  <2>1. now' = now /\ flight[k] # None /\ flight[k].pc = "loading" /\ now <= flight[k].deadline
    BY <1>10 DEF Loaded
  <2>2. flight[k].asOf \in 0 .. now /\ flight[k].deadline <= flight[k].asOf + Deadline
    BY <1>0, <2>1 DEF FlightsTimely
  <2>3. now <= now + EncodeTime /\ now + EncodeTime <= flight[k].asOf + Deadline + EncodeTime
    BY <1>0, <2>1, <2>2, CacheFields
  <2> QED BY <1>0, <1>10, <2>1, <2>2, <2>3, FlightSteps DEF FlightsTimely, Moved
<1>6. ASSUME NEW k \in Key, Return(k) PROVE FlightsTimely'
  BY <1>0, <1>6 DEF Return, FlightsTimely, TypeOK
<1>7. ASSUME NEW c \in Client, Cancel(c) PROVE FlightsTimely'
  <2>1. \A k \in Key : flight[k] = None => flight'[k] = None
    BY <1>7 DEF Cancel
  <2>2. \A k \in Key : flight[k] # None =>
            /\ flight'[k].pc = flight[k].pc /\ flight'[k].asOf = flight[k].asOf
            /\ flight'[k].deadline = flight[k].deadline
    BY <1>0, <1>7, CacheFields DEF Cancel, Flight
  <2>3. now' = now
    BY <1>7 DEF Cancel
  <2> QED BY <1>0, <2>1, <2>2, <2>3 DEF FlightsTimely
<1>8. CASE Tick
  BY <1>0, <1>8, CacheFields DEF Tick, FlightsTimely
<1>9. CASE UNCHANGED <<now, flight>>
  BY <1>0, <1>9 DEF FlightsTimely
<1> QED BY <1>1, <1>2, <1>3, <1>4, <1>5, <1>6, <1>7, <1>8, <1>9, <1>10
        DEF Next, FlightStep, Hit, Miss, Finish, vars

\* Only Store writes the map.
LEMMA OnlyStoreWrites ==
    ASSUME [Next]_vars
    PROVE  \/ UNCHANGED entries
           \/ \E k \in Key, x \in Key \cup {None} : Store(k, x)
BY DEF Next, FlightStep, Hit, Miss, DoChan, Recheck, Query, Loaded, LoadFails, LoadTimesOut,
   Return, Cancel, Finish, Tick, vars

\* The clock does not go back.
LEMMA ClockForward ==
    ASSUME [Next]_vars, now \in Nat
    PROVE  now' \in Nat /\ now <= now'
<1>1. now' = now \/ now' = now + 1
  BY DEF Next, FlightStep, Hit, Miss, DoChan, Recheck, Query, Loaded, Store, LoadFails,
     LoadTimesOut, Return, Cancel, Finish, Tick, vars
<1> QED BY <1>1

\* What store leaves in the map: the new entry and live entries that were there,
\* the evicted one excepted.
LEMMA StoredEntries ==
    ASSUME NEW k \in Key, NEW x \in Key \cup {None}, Store(k, x)
    PROVE  /\ entries'[k] = [asOf |-> flight[k].asOf, expires |-> now + TTL]
           /\ \A y \in Key : y # k /\ entries'[y] # None =>
                    y \in Unexpired /\ y # x /\ entries'[y] = entries[y]
<1>1. entries' = Stored(k, flight[k].asOf, x)
  BY DEF Store
<1> QED BY <1>1 DEF Stored

LEMMA NextEntries ==
    IInv /\ [Next]_vars => EntriesTimely'
<1> SUFFICES ASSUME IInv, [Next]_vars PROVE EntriesTimely'
  OBVIOUS
<1>0. TypeOK /\ FlightsTimely /\ EntriesTimely /\ now \in Nat
  BY DEF IInv, TypeOK
<1>1. CASE UNCHANGED entries
  <2>1. now' \in Nat /\ now <= now'
    BY <1>0, ClockForward
  <2> QED BY <1>0, <1>1, <2>1, CacheFields DEF EntriesTimely, MaxAge
<1>2. ASSUME NEW k \in Key, NEW x \in Key \cup {None}, Store(k, x) PROVE EntriesTimely'
  <2>1. /\ flight[k] # None /\ now <= flight[k].deadline /\ flight[k].asOf \in 0 .. now
        /\ flight[k].deadline \in Nat /\ flight[k].deadline <= flight[k].asOf + Deadline + EncodeTime
    BY <1>0, <1>2, CacheFields DEF Store, FlightsTimely
  <2>2. now + TTL <= flight[k].asOf + MaxAge /\ flight[k].asOf <= now /\ now' = now
    BY <1>0, <1>2, <2>1, CacheAssumption DEF MaxAge, Store
  <2>3. entries'[k].asOf = flight[k].asOf /\ entries'[k].expires = now + TTL
    <3>1. entries'[k] = [asOf |-> flight[k].asOf, expires |-> now + TTL]
      BY <1>2, StoredEntries
    <3> QED BY <3>1
  <2>4. \A y \in Key : y # k /\ entries'[y] # None => entries[y] # None /\ entries'[y] = entries[y]
    BY <1>2, StoredEntries DEF Unexpired, Cached
  <2> QED BY <1>0, <2>2, <2>3, <2>4 DEF EntriesTimely, MaxAge
<1> QED BY <1>1, <1>2, OnlyStoreWrites

LEMMA NextAnswers ==
    IInv /\ [Next]_vars => AnswersFresh'
<1> SUFFICES ASSUME IInv, [Next]_vars PROVE AnswersFresh'
  OBVIOUS
<1>0. TypeOK /\ RequestsSound /\ FlightsTimely /\ EntriesTimely /\ AnswersFresh /\ now \in Nat
      /\ client \in [Client -> ClientState] /\ MaxAge \in Nat
  BY CacheAssumption DEF IInv, TypeOK, MaxAge
<1>1. ASSUME NEW c \in Client, NEW k \in Key, Hit(c, k) PROVE AnswersFresh'
  <2>1. now - entries[k].asOf < MaxAge
    BY <1>0, <1>1, CacheFields DEF Hit, Cached, EntriesTimely
  <2> QED BY <1>0, <1>1, <2>1 DEF Hit, AnswersFresh, Answered, MaxAge
<1>2. ASSUME NEW c \in Client, NEW k \in Key, Miss(c, k) PROVE AnswersFresh'
  BY <1>0, <1>2 DEF Miss, AnswersFresh, MaxAge
<1>3. ASSUME NEW c \in Client, DoChan(c) PROVE AnswersFresh'
  BY <1>0, <1>3 DEF DoChan, AnswersFresh, ClientState, MaxAge
<1>4. ASSUME NEW k \in Key, Return(k) PROVE AnswersFresh'
  <2>1. Age(flight[k].asOf) # None => Age(flight[k].asOf) < MaxAge
    BY <1>0, <1>4, ReturnedAge DEF Return
  <2>2. \A c \in Client : c \in flight[k].waiters => client'[c].age = Age(flight[k].asOf)
    BY <1>0, <1>4 DEF Return, Answered
  <2>3. \A c \in Client : c \notin flight[k].waiters => client'[c] = client[c]
    BY <1>4 DEF Return
  <2> QED BY <1>0, <2>1, <2>2, <2>3 DEF AnswersFresh, MaxAge
<1>5. ASSUME NEW c \in Client, Cancel(c) PROVE AnswersFresh'
  BY <1>0, <1>5 DEF Cancel, AnswersFresh, Answered, MaxAge
<1>6. ASSUME NEW c \in Client, Finish(c) PROVE AnswersFresh'
  BY <1>0, <1>6 DEF Finish, AnswersFresh, IdleClient, MaxAge
<1>7. CASE UNCHANGED client
  BY <1>0, <1>7 DEF AnswersFresh, MaxAge
<1> QED BY <1>1, <1>2, <1>3, <1>4, <1>5, <1>6, <1>7
        DEF Next, FlightStep, Recheck, Query, Loaded, Store, LoadFails, LoadTimesOut, Tick, vars

-----------------------------------------------------------------------------
(***************************************************************************)
(* The limit of the map.                                                   *)
(***************************************************************************)

\* Among the entries of a set of keys that is not empty one expires first.
LEMMA FirstToExpire ==
    ASSUME TypeOK, NEW T, T \subseteq Unexpired, T # {}
    PROVE  \E x \in T : \A y \in T : entries[x].expires <= entries[y].expires
<1> DEFINE R == {ss \in Nat \X Nat : ss[1] < ss[2]}
           E == {entries[y].expires : y \in T}
<1>0. IsWellFoundedOn(R, Nat)
  BY NatLessThanWellFounded, Zenon DEF OpToRel
<1>1. \A y \in T : entries[y].expires \in Nat
  BY CacheFields DEF Unexpired, Cached
<1>2. E \subseteq Nat /\ E # {}
  BY <1>1
<1>3. PICK e \in E : \A d \in E : ~(<<d, e>> \in R)
  <2> HIDE DEF R, E
  <2> QED BY <1>0, <1>2, WFMin
<1>4. \A d \in E : e <= d
  <2> TAKE d \in E
  <2>1. e \in Nat /\ d \in Nat
    BY <1>2
  <2>2. d < e => <<d, e>> \in R
    BY <2>1
  <2> HIDE DEF R
  <2> QED BY <1>3, <2>1, <2>2
<1> QED BY <1>3, <1>4

\* store makes room before it adds an entry.
LEMMA NextBounded ==
    IInv /\ [Next]_vars => CacheFinite' /\ CacheBounded'
<1> SUFFICES ASSUME IInv, [Next]_vars PROVE CacheFinite' /\ CacheBounded'
  OBVIOUS
<1>0. TypeOK /\ CacheFinite /\ CacheBounded
  BY DEF IInv
<1> DEFINE Held == {k \in Key : entries[k] # None}
<1>1. CASE UNCHANGED entries
  BY <1>0, <1>1 DEF CacheFinite, CacheBounded
<1>2. ASSUME NEW k \in Key, NEW x \in Key \cup {None}, Store(k, x)
      PROVE  CacheFinite' /\ CacheBounded'
  <2> DEFINE Rest == Unexpired \ {x}
  <2>1. Unexpired \subseteq Held
    BY DEF Unexpired, Cached
  <2>2. IsFiniteSet(Held) /\ Cardinality(Held) \in Nat /\ Cardinality(Held) <= MaxEntries
    BY <1>0, FS_CardinalityType DEF CacheFinite, CacheBounded
  <2>3. /\ IsFiniteSet(Unexpired) /\ Cardinality(Unexpired) \in Nat
        /\ Cardinality(Unexpired) <= MaxEntries
    BY <2>1, <2>2, FS_Subset, FS_CardinalityType, CacheAssumption
  <2>4. IsFiniteSet(Rest) /\ Cardinality(Rest) <= MaxEntries - 1
    <3>1. CASE \E y \in Key : Evicted(y)
      <4>1. x \in Unexpired
        BY <1>2, <3>1 DEF Store, Evicted
      <4>2. IsFiniteSet(Rest) /\ Cardinality(Rest) = Cardinality(Unexpired) - 1
        <5> HIDE DEF Unexpired
        <5> QED BY <2>3, <4>1, FS_RemoveElement
      <4> QED BY <2>3, <4>2, CacheAssumption
    <3>2. CASE ~\E y \in Key : Evicted(y)
      <4>1. x = None /\ Rest = Unexpired
        BY <1>2, <3>2, NoneApart DEF Store, Unexpired
      <4>2. Cardinality(Unexpired) < MaxEntries
        <5> SUFFICES ASSUME Cardinality(Unexpired) >= MaxEntries PROVE FALSE
          BY <2>3, CacheAssumption
        <5>1. Unexpired # {}
          BY FS_EmptySet, CacheAssumption
        <5>2. PICK y \in Unexpired : \A z \in Unexpired : entries[y].expires <= entries[z].expires
          BY <1>0, <5>1, FirstToExpire
        <5>3. y \in Key /\ Evicted(y)
          BY <5>2 DEF Evicted, Unexpired
        <5> QED BY <3>2, <5>3
      <4> QED BY <2>3, <4>1, <4>2, CacheAssumption
    <3> QED BY <3>1, <3>2
  <2>5. Held' \subseteq Rest \cup {k}
    BY <1>2, StoredEntries
  <2>6. /\ IsFiniteSet(Rest \cup {k})
        /\ Cardinality(Rest \cup {k}) \in Nat /\ Cardinality(Rest \cup {k}) <= MaxEntries
    <3>1. Cardinality(Rest) \in Nat
      BY <2>4, FS_CardinalityType
    <3> HIDE DEF Rest
    <3>2. /\ IsFiniteSet(Rest \cup {k})
          /\ Cardinality(Rest \cup {k}) = Cardinality(Rest) \/ Cardinality(Rest \cup {k}) = Cardinality(Rest) + 1
      BY <2>4, FS_AddElement
    <3> QED BY <2>4, <3>1, <3>2, CacheAssumption
  <2>7. IsFiniteSet(Held') /\ Cardinality(Held') \in Nat
        /\ Cardinality(Held') <= Cardinality(Rest \cup {k})
    <3> HIDE DEF Rest, Held
    <3> QED BY <2>5, <2>6, FS_Subset, FS_CardinalityType
  <2> QED BY <2>6, <2>7, CacheAssumption DEF CacheFinite, CacheBounded
<1> QED BY <1>1, <1>2, OnlyStoreWrites

-----------------------------------------------------------------------------
(***************************************************************************)
(* One load at a time.                                                     *)
(***************************************************************************)

LEMMA NextOneLoad ==
    IInv /\ [Next]_vars => NoRedundantLoad'
<1> SUFFICES ASSUME IInv, [Next]_vars PROVE NoRedundantLoad'
  OBVIOUS
<1>0. TypeOK /\ RequestsSound /\ NoRedundantLoad /\ now \in Nat
  BY DEF IInv, TypeOK
<1>1. ASSUME NEW c \in Client, DoChan(c) PROVE NoRedundantLoad'
  <2>1. UNCHANGED <<now, entries>>
    BY <1>1 DEF DoChan
  <2> QED BY <1>0, <1>1, <2>1, FlightJoined DEF NoRedundantLoad, Cached
<1>2. ASSUME NEW k \in Key, Recheck(k) PROVE NoRedundantLoad'
  <2>1. UNCHANGED <<now, entries>>
    BY <1>2 DEF Recheck
  <2> QED BY <1>0, <1>2, <2>1, FlightSteps DEF NoRedundantLoad, Cached, Moved
<1>3. ASSUME NEW k \in Key, Query(k) PROVE NoRedundantLoad'
  <2>1. UNCHANGED <<now, entries>> /\ flight[k].pc = "query"
    BY <1>3 DEF Query
  <2> QED BY <1>0, <1>3, <2>1, FlightSteps DEF NoRedundantLoad, Cached, Moved
<1>4. ASSUME NEW k \in Key, NEW x \in Key \cup {None}, Store(k, x) PROVE NoRedundantLoad'
  <2>1. now' = now
    BY <1>4 DEF Store
  <2>2. \A j \in Key : j # k /\ ~Cached(j) => ~Cached(j)'
    BY <1>4, <2>1, StoredEntries DEF Cached
  <2>3. flight'[k].pc = "return" /\ \A j \in Key : j # k => flight'[j] = flight[j]
    BY <1>0, <1>4, FlightSteps DEF Moved
  <2> QED BY <1>0, <2>2, <2>3 DEF NoRedundantLoad
<1>10. ASSUME NEW k \in Key, Loaded(k) PROVE NoRedundantLoad'
  <2>1. UNCHANGED <<now, entries>> /\ flight[k].pc = "loading"
    BY <1>10 DEF Loaded
  <2> QED BY <1>0, <1>10, <2>1, FlightSteps DEF NoRedundantLoad, Cached, Moved
<1>5. ASSUME NEW k \in Key, LoadFails(k) \/ LoadTimesOut(k) PROVE NoRedundantLoad'
  <2>1. UNCHANGED <<now, entries>>
    BY <1>5 DEF LoadFails, LoadTimesOut
  <2> QED BY <1>0, <1>5, <2>1, FlightSteps DEF NoRedundantLoad, Cached, Moved
<1>6. ASSUME NEW k \in Key, Return(k) PROVE NoRedundantLoad'
  BY <1>0, <1>6 DEF Return, NoRedundantLoad, Cached, TypeOK
<1>7. ASSUME NEW c \in Client, Cancel(c) PROVE NoRedundantLoad'
  <2>1. \A k \in Key : flight'[k] # None => flight[k] # None /\ flight'[k].pc = flight[k].pc
    BY <1>0, <1>7, CacheFields DEF Cancel, Flight
  <2> QED BY <1>0, <1>7, <2>1 DEF Cancel, NoRedundantLoad, Cached
<1>8. CASE Tick
  <2>1. \A k \in Key : ~Cached(k) => ~Cached(k)'
    BY <1>0, <1>8, CacheFields DEF Tick, Cached
  <2> QED BY <1>0, <1>8, <2>1 DEF Tick, NoRedundantLoad
<1>9. CASE UNCHANGED <<now, entries, flight>>
  BY <1>0, <1>9 DEF NoRedundantLoad, Cached
<1> QED BY <1>1, <1>2, <1>3, <1>4, <1>5, <1>6, <1>7, <1>8, <1>9, <1>10
        DEF Next, FlightStep, Hit, Miss, Finish, vars

-----------------------------------------------------------------------------
(***************************************************************************)
(* The theorems.                                                           *)
(***************************************************************************)

LEMMA NextIInv == IInv /\ [Next]_vars => IInv'
<1> SUFFICES ASSUME IInv, [Next]_vars PROVE IInv'
  OBVIOUS
<1>1. TypeOK' /\ RequestsSound'
  BY NextTypeOK, NextRequests DEF IInv
<1>2. FlightsTimely' /\ EntriesTimely' /\ AnswersFresh'
  BY NextFlights, NextEntries, NextAnswers
<1>3. CacheFinite' /\ CacheBounded' /\ NoRedundantLoad'
  BY NextBounded, NextOneLoad
<1> QED BY <1>1, <1>2, <1>3 DEF IInv

LEMMA CacheInvariant == Spec => []IInv
BY InitIInv, NextIInv, PTL DEF Spec

\* Entries, flights and requests keep their types and every waiting request is
\* among the waiters of its key's flight, for any number of requests and keys.
THEOREM CacheTypeCorrect == Spec => []TypeOK
<1>1. IInv => TypeOK
  BY DEF IInv
<1> QED BY <1>1, CacheInvariant, PTL

\* The map never exceeds maxEntries, whatever the limit: store evicts before it adds.
THEOREM CacheWithinLimit == Spec => []CacheBounded
<1>1. IInv => CacheBounded
  BY DEF IInv
<1> QED BY <1>1, CacheInvariant, PTL

\* No flight loads a response that the cache holds live.
THEOREM LoadsOnce == Spec => []NoRedundantLoad
<1>1. IInv => NoRedundantLoad
  BY DEF IInv
<1> QED BY <1>1, CacheInvariant, PTL

\* No answer is as old as one time to live, one load and one encoding together,
\* whichever way it came.
THEOREM AnswersRecent == Spec => []AnswersFresh
<1>1. IInv => AnswersFresh
  BY DEF IInv
<1> QED BY <1>1, CacheInvariant, PTL
=============================================================================
