----------------------------- MODULE AgentProofs -----------------------------
(***************************************************************************)
(* TrafficConserved for any number of devices, minutes, attempts and       *)
(* restarts, any width of the counters and any traffic.                    *)
(***************************************************************************)
EXTENDS Agent, FiniteSetTheorems, TLAPS

-----------------------------------------------------------------------------
(***************************************************************************)
(* Sums.  The induction theorems of the library take an operator, which    *)
(* the provers cannot instantiate; with a set in its place the least       *)
(* counterexample does.                                                    *)
(***************************************************************************)

\* A set of numbers that is not empty has a smallest one.
LEMMA Least ==
    ASSUME NEW T, T \subseteq Nat, T # {}
    PROVE  \E x \in T : \A y \in T : x <= y
<1> DEFINE R == {ss \in Nat \X Nat : ss[1] < ss[2]}
<1>0. IsWellFoundedOn(R, Nat)
  BY NatLessThanWellFounded, Zenon DEF OpToRel
<1>1. PICK x \in T : \A y \in T : ~(<<y, x>> \in R)
  <2> HIDE DEF R
  <2> QED BY <1>0, WFMin
<1>2. ASSUME NEW y \in T PROVE x <= y
  <2>1. x \in Nat /\ y \in Nat
    OBVIOUS
  <2>2. y < x => <<y, x>> \in R
    BY <2>1
  <2> HIDE DEF R
  <2> QED BY <1>1, <2>1, <2>2
<1> QED BY <1>2

\* Induction over the numbers, for the set of those that have the property.
LEMMA Induction ==
    ASSUME NEW N, 0 \in N, \A n \in Nat : n \in N => n + 1 \in N
    PROVE  \A n \in Nat : n \in N
<1> DEFINE T == Nat \ N
<1>1. SUFFICES ASSUME T # {} PROVE FALSE
  OBVIOUS
<1>2. PICK x \in T : \A y \in T : x <= y
  BY <1>1, Least
<1>3. x \in Nat /\ x # 0
  OBVIOUS
<1>4. x - 1 \in Nat /\ x - 1 < x
  BY <1>3
<1>5. x - 1 \in N
  BY <1>2, <1>4
<1>6. (x - 1) + 1 \in N
  BY <1>4, <1>5
<1> QED BY <1>3, <1>6

\* An element of a set that is not empty: the one the folds take first.
Pick(s) == CHOOSE x \in s : TRUE

\* Induction over the subsets of a finite set, in the order of the folds.
LEMMA SubsetInduction ==
    ASSUME NEW S, IsFiniteSet(S), NEW G, {} \in G,
           \A s \in SUBSET S : s # {} /\ s \ {Pick(s)} \in G => s \in G
    PROVE  \A s \in SUBSET S : s \in G
<1> DEFINE N == {n \in Nat : \A s \in SUBSET S : Cardinality(s) = n => s \in G}
<1>0. \A s \in SUBSET S : /\ IsFiniteSet(s) /\ Cardinality(s) \in Nat
                          /\ Cardinality(s) = 0 <=> s = {}
  BY FS_Subset, FS_CardinalityType, FS_EmptySet
<1>1. 0 \in N
  BY <1>0
<1>2. ASSUME NEW n \in Nat, n \in N PROVE n + 1 \in N
  <2> SUFFICES ASSUME NEW s \in SUBSET S, Cardinality(s) = n + 1 PROVE s \in G
    OBVIOUS
  <2>1. s # {}
    BY <1>0
  <2>2. Pick(s) \in s
    BY <2>1 DEF Pick
  <2>3. Cardinality(s \ {Pick(s)}) = n
    BY <1>0, <2>2, FS_RemoveElement
  <2>4. s \ {Pick(s)} \in G
    BY <1>2, <2>3
  <2> QED BY <2>1, <2>4
<1>3. \A n \in Nat : n \in N
  <2> HIDE DEF N
  <2> QED BY <1>1, <1>2, Induction
<1> QED BY <1>0, <1>3

-----------------------------------------------------------------------------
Sums(f, g) == g = [s \in SUBSET DOMAIN f |->
                     IF s = {} THEN 0 ELSE f[Pick(s)] + g[s \ {Pick(s)}]]

LEMMA SumsExist ==
    ASSUME NEW f, IsFiniteSet(DOMAIN f)
    PROVE  \E g : Sums(f, g)
<1> DEFINE D == DOMAIN f
           Up(n) == {s \in SUBSET D : Cardinality(s) <= n}
           Part(g, n) == g = [s \in Up(n) |->
                                IF s = {} THEN 0 ELSE f[Pick(s)] + g[s \ {Pick(s)}]]
           N == {n \in Nat : \E g : Part(g, n)}
<1>0. \A s \in SUBSET D : /\ IsFiniteSet(s) /\ Cardinality(s) \in Nat
                          /\ Cardinality(s) <= Cardinality(D)
                          /\ Cardinality(s) = 0 <=> s = {}
  BY FS_Subset, FS_CardinalityType, FS_EmptySet
<1>1. \A s \in SUBSET D : s # {} => /\ Pick(s) \in s /\ s \ {Pick(s)} \in SUBSET D
                                    /\ Cardinality(s \ {Pick(s)}) = Cardinality(s) - 1
  BY <1>0, FS_RemoveElement DEF Pick
<1>2. 0 \in N
  <2>1. \A s \in Up(0) : s = {}
    BY <1>0
  <2>2. Part([s \in Up(0) |-> 0], 0)
    BY <2>1
  <2> QED BY <2>2
<1>3. ASSUME NEW n \in Nat, n \in N PROVE n + 1 \in N
  <2>1. PICK g : Part(g, n)
    BY <1>3
  <2> DEFINE h == [s \in Up(n + 1) |->
                     IF s = {} THEN 0 ELSE f[Pick(s)] + g[s \ {Pick(s)}]]
  <2>2. \A s \in Up(n) : s \in Up(n + 1) /\ h[s] = g[s]
    <3>1. \A s \in Up(n) : s \in Up(n + 1)
      BY <1>0
    <3>2. \A s \in Up(n) : g[s] = IF s = {} THEN 0 ELSE f[Pick(s)] + g[s \ {Pick(s)}]
      BY <2>1
    <3> HIDE DEF Up
    <3> QED BY <3>1, <3>2
  <2>3. \A s \in Up(n + 1) : s # {} => s \ {Pick(s)} \in Up(n)
    BY <1>0, <1>1
  <2>4. \A s \in Up(n + 1) : h[s] = IF s = {} THEN 0 ELSE f[Pick(s)] + h[s \ {Pick(s)}]
    <3> HIDE DEF Up
    <3> QED BY <2>2, <2>3
  <2>5. Part(h, n + 1)
    <3> HIDE DEF Up
    <3>1. h = [s \in Up(n + 1) |-> h[s]]
      OBVIOUS
    <3> HIDE DEF h
    <3> QED BY <2>4, <3>1
  <2>6. \E i : Part(i, n + 1)
    <3> HIDE DEF Part, h
    <3> QED BY <2>5
  <2> HIDE DEF Part
  <2> QED BY <2>6
<1>4. Cardinality(D) \in N
  <2>1. \A n \in Nat : n \in N
    <3> HIDE DEF N
    <3> QED BY <1>2, <1>3, Induction
  <2> QED BY <2>1, FS_CardinalityType
<1>5. Up(Cardinality(D)) = SUBSET D
  BY <1>0
<1>6. PICK g : Part(g, Cardinality(D))
  BY <1>4
<1> QED
  <2> HIDE DEF Up
  <2> QED BY <1>5, <1>6 DEF Sums

LEMMA SumIsLast ==
    ASSUME NEW f, IsFiniteSet(DOMAIN f)
    PROVE \E g : Sums(f, g) /\ SumFunction(f) = g[DOMAIN f]
<1> DEFINE it == CHOOSE g : Sums(f, g)
<1>1. Sums(f, it)
  BY SumsExist
<1>2. SumFunction(f) = it[DOMAIN f]
  BY DEF SumFunction, SumFunctionOnSet, FoldFunctionOnSet, MapThenFoldSet, Sums, Pick
<1> QED BY <1>1, <1>2

\* A sum of numbers, one subset after the other.
Parts(M, f, g) ==
    /\ g[{}] = 0
    /\ \A s \in SUBSET M : g[s] \in Nat
    /\ \A s \in SUBSET M : s # {} => g[s] = f[Pick(s)] + g[s \ {Pick(s)}]

LEMMA SumByParts ==
    ASSUME NEW M, IsFiniteSet(M), NEW f \in [M -> Nat]
    PROVE  \E g : Parts(M, f, g) /\ SumFunction(f) = g[M]
<1>0. PICK g : Sums(f, g) /\ SumFunction(f) = g[M]
  BY SumIsLast
<1>1. g[{}] = 0
  BY <1>0 DEF Sums
<1>2. \A s \in SUBSET M : s # {} => g[s] = f[Pick(s)] + g[s \ {Pick(s)}]
  BY <1>0 DEF Sums
<1> DEFINE G == {s \in SUBSET M : g[s] \in Nat}
<1>3. {} \in G
  BY <1>1
<1>4. \A s \in SUBSET M : s # {} /\ s \ {Pick(s)} \in G => s \in G
  <2> SUFFICES ASSUME NEW s \in SUBSET M, s # {}, g[s \ {Pick(s)}] \in Nat PROVE g[s] \in Nat
    OBVIOUS
  <2>1. f[Pick(s)] \in Nat
    BY DEF Pick
  <2>2. g[s] = f[Pick(s)] + g[s \ {Pick(s)}]
    BY <1>2
  <2> QED BY <2>1, <2>2
<1>5. \A s \in SUBSET M : s \in G
  <2> HIDE DEF G
  <2> QED BY <1>3, <1>4, SubsetInduction
<1> QED BY <1>0, <1>1, <1>2, <1>5 DEF Parts

LEMMA SumNat ==
    ASSUME NEW M, IsFiniteSet(M), NEW f \in [M -> Nat]
    PROVE  SumFunction(f) \in Nat
<1>1. PICK g : Parts(M, f, g) /\ SumFunction(f) = g[M]
  BY SumByParts
<1> QED BY <1>1 DEF Parts

LEMMA SumZero ==
    ASSUME NEW M, IsFiniteSet(M)
    PROVE  SumFunction([m \in M |-> 0]) = 0
<1> DEFINE f == [m \in M |-> 0]
<1>0. f \in [M -> Nat] /\ DOMAIN f = M /\ \A m \in M : f[m] = 0
  OBVIOUS
<1> HIDE DEF f
<1>1. PICK g : Parts(M, f, g) /\ SumFunction(f) = g[M]
  BY <1>0, SumByParts
<1>2. /\ g[{}] = 0
      /\ \A s \in SUBSET M : s # {} => g[s] = f[Pick(s)] + g[s \ {Pick(s)}]
  BY <1>1 DEF Parts
<1> DEFINE G == {s \in SUBSET M : g[s] = 0}
<1>3. {} \in G
  BY <1>2
<1>4. \A s \in SUBSET M : s # {} /\ s \ {Pick(s)} \in G => s \in G
  <2> SUFFICES ASSUME NEW s \in SUBSET M, s # {}, g[s \ {Pick(s)}] = 0 PROVE g[s] = 0
    OBVIOUS
  <2>1. f[Pick(s)] = 0
    BY <1>0 DEF Pick
  <2> QED BY <1>2, <2>1
<1>5. \A s \in SUBSET M : s \in G
  <2> HIDE DEF G
  <2> QED BY <1>3, <1>4, SubsetInduction
<1> QED BY <1>1, <1>5 DEF f

\* The sum of larger numbers is larger.
LEMMA SumMonotone ==
    ASSUME NEW M, IsFiniteSet(M), NEW f \in [M -> Nat], NEW h \in [M -> Nat],
           \A m \in M : f[m] <= h[m]
    PROVE  SumFunction(f) <= SumFunction(h)
<1>1. PICK g : Parts(M, f, g) /\ SumFunction(f) = g[M]
  BY SumByParts
<1>2. PICK k : Parts(M, h, k) /\ SumFunction(h) = k[M]
  BY SumByParts
<1>3. /\ g[{}] = 0
      /\ \A s \in SUBSET M : g[s] \in Nat
      /\ \A s \in SUBSET M : s # {} => g[s] = f[Pick(s)] + g[s \ {Pick(s)}]
  BY <1>1 DEF Parts
<1>4. /\ k[{}] = 0
      /\ \A s \in SUBSET M : k[s] \in Nat
      /\ \A s \in SUBSET M : s # {} => k[s] = h[Pick(s)] + k[s \ {Pick(s)}]
  BY <1>2 DEF Parts
<1> DEFINE G == {s \in SUBSET M : g[s] <= k[s]}
<1>5. {} \in G
  BY <1>3, <1>4
<1>6. \A s \in SUBSET M : s # {} /\ s \ {Pick(s)} \in G => s \in G
  <2> SUFFICES ASSUME NEW s \in SUBSET M, s # {}, g[s \ {Pick(s)}] <= k[s \ {Pick(s)}]
               PROVE  g[s] <= k[s]
    OBVIOUS
  <2>1. Pick(s) \in M
    BY DEF Pick
  <2>2. f[Pick(s)] \in Nat /\ h[Pick(s)] \in Nat /\ f[Pick(s)] <= h[Pick(s)]
    BY <2>1
  <2>3. g[s \ {Pick(s)}] \in Nat /\ k[s \ {Pick(s)}] \in Nat
    BY <1>3, <1>4
  <2>4. g[s] = f[Pick(s)] + g[s \ {Pick(s)}] /\ k[s] = h[Pick(s)] + k[s \ {Pick(s)}]
    BY <1>3, <1>4
  <2> QED BY <2>2, <2>3, <2>4
<1>7. \A s \in SUBSET M : s \in G
  <2> HIDE DEF G
  <2> QED BY <1>5, <1>6, SubsetInduction
<1> QED BY <1>1, <1>2, <1>7

\* One of the numbers is raised.
LEMMA SumRaised ==
    ASSUME NEW M, IsFiniteSet(M), NEW f \in [M -> Nat], NEW e \in M, NEW x \in Nat
    PROVE  SumFunction([f EXCEPT ![e] = f[e] + x]) = SumFunction(f) + x
<1> DEFINE h == [f EXCEPT ![e] = f[e] + x]
<1>0. h \in [M -> Nat] /\ DOMAIN h = M /\ \A m \in M : h[m] = f[m] + IF m = e THEN x ELSE 0
  OBVIOUS
<1> HIDE DEF h
<1>1. PICK g : Parts(M, f, g) /\ SumFunction(f) = g[M]
  BY SumByParts
<1>2. PICK k : Parts(M, h, k) /\ SumFunction(h) = k[M]
  BY <1>0, SumByParts
<1>3. /\ g[{}] = 0
      /\ \A s \in SUBSET M : g[s] \in Nat
      /\ \A s \in SUBSET M : s # {} => g[s] = f[Pick(s)] + g[s \ {Pick(s)}]
  BY <1>1 DEF Parts
<1>4. /\ k[{}] = 0
      /\ \A s \in SUBSET M : k[s] \in Nat
      /\ \A s \in SUBSET M : s # {} => k[s] = h[Pick(s)] + k[s \ {Pick(s)}]
  BY <1>2 DEF Parts
<1> DEFINE G == {s \in SUBSET M : k[s] = g[s] + IF e \in s THEN x ELSE 0}
<1>5. {} \in G
  BY <1>3, <1>4
<1>6. \A s \in SUBSET M : s # {} /\ s \ {Pick(s)} \in G => s \in G
  <2> SUFFICES ASSUME NEW s \in SUBSET M, s # {}, s \ {Pick(s)} \in G
               PROVE  k[s] = g[s] + IF e \in s THEN x ELSE 0
    OBVIOUS
  <2>1. Pick(s) \in s /\ Pick(s) \in M
    BY DEF Pick
  <2>2. f[Pick(s)] \in Nat /\ h[Pick(s)] = f[Pick(s)] + IF Pick(s) = e THEN x ELSE 0
    BY <1>0, <2>1
  <2>3. g[s \ {Pick(s)}] \in Nat
    BY <1>3
  <2>4. g[s] = f[Pick(s)] + g[s \ {Pick(s)}] /\ k[s] = h[Pick(s)] + k[s \ {Pick(s)}]
    BY <1>3, <1>4
  <2>5. k[s \ {Pick(s)}] = g[s \ {Pick(s)}] + IF e \in s /\ Pick(s) # e THEN x ELSE 0
    OBVIOUS
  <2>6. CASE Pick(s) = e
    BY <2>1, <2>2, <2>3, <2>4, <2>5, <2>6
  <2>7. CASE Pick(s) # e
    BY <2>1, <2>2, <2>3, <2>4, <2>5, <2>7
  <2> QED BY <2>6, <2>7
<1>7. \A s \in SUBSET M : s \in G
  <2> HIDE DEF G
  <2> QED BY <1>5, <1>6, SubsetInduction
<1> QED BY <1>1, <1>2, <1>7 DEF h

-----------------------------------------------------------------------------
(***************************************************************************)
(* Minutes and deltas.                                                     *)
(***************************************************************************)

LEMMA MinutesFinite == IsFiniteSet(Minutes)
<1> DEFINE f == [t \in 0..MaxTime |-> t \div MinuteLength]
<1>1. f \in Surjection(0..MaxTime, Minutes)
  BY DEF Surjection, Minutes
<1>2. IsFiniteSet(0..MaxTime)
  BY CollectorAssumption, FS_Interval
<1> HIDE DEF f
<1> QED BY <1>1, <1>2, FS_Surjection

LEMMA EntryOfReport ==
    ASSUME NEW r \in Report, r.minute \in 0..MaxTime
    PROVE  /\ Entry(r) \in [minute : Minutes, delta : [Device -> Nat]]
           /\ Entry(r).minute \in Minutes
           /\ Entry(r).delta = r.delta
<1>1. r.minute \div MinuteLength \in Minutes
  BY DEF Minutes
<1> QED BY <1>1 DEF Entry, Report

LEMMA NoReport == Nothing \in Report /\ Nothing.delta = NoDelta /\ NoDelta \in [Device -> Nat]
BY DEF Nothing, Report, NoDelta

\* A value that the counter of a device can have on this platform.
InRange(value) == value \in Nat /\ (platform = "windows" => value \in 0..(Width - 1))

LEMMA DeltaNat ==
    ASSUME NEW c, InRange(c), NEW q, q = None \/ InRange(q)
    PROVE  Delta(c, q) \in Nat /\ Delta(c, None) = 0 /\ Delta(c, c) = 0
<1>1. c # None
  BY CollectorAssumption DEF InRange
<1>2. Delta(c, None) = 0
  BY DEF Delta
<1>3. Delta(c, c) = 0
  BY <1>1 DEF Delta, CounterDelta, CounterDelta32, InRange
<1>4. CASE q = None
  BY <1>2, <1>3, <1>4
<1>5. CASE q # None /\ platform = "windows"
  <2>1. Delta(c, q) = CounterDelta32(c, q)
    BY <1>5 DEF Delta
  <2>2. CounterDelta32(c, q) \in Nat
    BY <1>5, CollectorAssumption DEF CounterDelta32, InRange
  <2> QED BY <1>2, <1>3, <2>1, <2>2
<1>6. CASE q # None /\ platform # "windows"
  <2>1. Delta(c, q) = CounterDelta(c, q)
    BY <1>6 DEF Delta
  <2>2. CounterDelta(c, q) \in Nat
    BY <1>6 DEF CounterDelta, InRange
  <2> QED BY <1>2, <1>3, <2>1, <2>2
<1> QED BY <1>4, <1>5, <1>6

\* The counter after one more unit, which wraps on Windows.
LEMMA CountRange ==
    ASSUME NEW c, InRange(c)
    PROVE  /\ InRange(Count(c + 1))
           /\ platform # "windows" => Count(c + 1) = c + 1
           /\ platform = "windows" => Count(c + 1) = IF c + 1 = Width THEN 0 ELSE c + 1
<1>1. CASE platform # "windows"
  BY <1>1 DEF Count, InRange
<1>2. CASE platform = "windows"
  <2>1. c \in Nat /\ Width \in Nat /\ c < Width
    BY <1>2, CollectorAssumption DEF InRange
  <2>2. CASE c + 1 = Width
    <3>1. (c + 1) % Width = 0
      BY <2>1, <2>2
    <3> QED BY <1>2, <2>1, <2>2, <3>1 DEF Count, InRange
  <2>3. CASE c + 1 < Width
    <3>1. (c + 1) % Width = c + 1
      BY <2>1, <2>3
    <3> QED BY <1>2, <2>1, <2>3, <3>1 DEF Count, InRange
  <2> QED BY <2>1, <2>2, <2>3
<1> QED BY <1>1, <1>2

\* One more unit of traffic is at most one more to be read.
LEMMA DeltaStep ==
    ASSUME NEW c, InRange(c), NEW q, InRange(q)
    PROVE  Delta(Count(c + 1), q) <= Delta(c, q) + 1
<1>0. c # None /\ q # None /\ Count(c + 1) # None
  BY CountRange, CollectorAssumption DEF InRange
<1>1. CASE platform = "windows"
  <2>1. Delta(c, q) = CounterDelta32(c, q) /\ Delta(Count(c + 1), q) = CounterDelta32(Count(c + 1), q)
    BY <1>0, <1>1 DEF Delta
  <2>2. Count(c + 1) = IF c + 1 = Width THEN 0 ELSE c + 1
    BY <1>1, CountRange
  <2>3. CounterDelta32(Count(c + 1), q) <= CounterDelta32(c, q) + 1
    BY <1>1, <2>2, CollectorAssumption DEF CounterDelta32, InRange
  <2> QED BY <2>1, <2>3
<1>2. CASE platform # "windows"
  <2>1. Delta(c, q) = CounterDelta(c, q) /\ Delta(Count(c + 1), q) = CounterDelta(Count(c + 1), q)
    BY <1>0, <1>2 DEF Delta
  <2>2. Count(c + 1) = c + 1
    BY <1>2, CountRange
  <2>3. CounterDelta(c + 1, q) <= CounterDelta(c, q) + 1
    BY DEF CounterDelta, InRange
  <2> QED BY <2>1, <2>2, <2>3
<1> QED BY <1>1, <1>2

-----------------------------------------------------------------------------
(***************************************************************************)
(* Reads.                                                                  *)
(***************************************************************************)

\* The values read of the devices of D: those of the counters or, on Linux, zero
\* for one that is gone, whose counter is then owed to it.
Readable(D, value) ==
    /\ D \subseteq Device
    /\ \A d \in D : value[d] = counter[d] \/ (value[d] = 0 /\ platform # "windows")

Owed(D, value) ==
    /\ phantom' \in [Device -> Nat]
    /\ \A d \in Device :
          phantom'[d] >= phantom[d] + IF d \in D /\ value[d] # counter[d] THEN counter[d] ELSE 0

LEMMA CountersInRange ==
    ASSUME TypeOK, WindowsCounters, NEW d \in Device
    PROVE  /\ InRange(counter[d])
           /\ previous[d] = None \/ InRange(previous[d])
BY CollectorAssumption DEF TypeOK, WindowsCounters, InRange

LEMMA UnreadNat ==
    ASSUME TypeOK, WindowsCounters, NEW d \in Device
    PROVE  Unread(d) \in Nat /\ Found(d) \in Nat /\ draft.delta[d] \in Nat
<1>1. draft.delta[d] \in Nat
  BY DEF TypeOK, Report
<1>2. Unread(d) \in Nat
  BY CountersInRange, DeltaNat DEF Unread
<1> QED BY <1>1, <1>2 DEF Found

LEMMA ReadValues ==
    ASSUME TypeOK, WindowsCounters, NEW D, NEW value, Readable(D, value), NEW d \in D
    PROVE  /\ InRange(value[d])
           /\ Delta(value[d], previous[d]) \in Nat
           /\ Delta(value[d], previous[d]) <= Unread(d)
<1>0. d \in Device
  BY DEF Readable
<1>1. CASE value[d] = counter[d]
  <2>1. InRange(value[d])
    BY <1>0, <1>1, CountersInRange
  <2>2. Delta(value[d], previous[d]) \in Nat
    BY <1>0, <2>1, CountersInRange, DeltaNat
  <2>3. Unread(d) = Delta(value[d], previous[d])
    BY <1>1 DEF Unread
  <2> QED BY <2>1, <2>2, <2>3
<1>2. CASE value[d] = 0 /\ platform # "windows"
  <2>1. InRange(value[d])
    BY <1>2 DEF InRange
  <2>2. Delta(value[d], previous[d]) \in Nat
    BY <1>0, <2>1, CountersInRange, DeltaNat
  <2>3. Delta(value[d], previous[d]) = 0
    <3>1. CASE previous[d] = None
      BY <3>1 DEF Delta
    <3>2. CASE previous[d] # None
      <4>1. Delta(value[d], previous[d]) = CounterDelta(0, previous[d]) /\ previous[d] \in Nat
        BY <1>0, <1>2, <3>2, CountersInRange DEF Delta, InRange
      <4> QED BY <4>1 DEF CounterDelta
    <3> QED BY <3>1, <3>2
  <2>4. Unread(d) \in Nat
    BY <1>0, UnreadNat
  <2> QED BY <2>1, <2>2, <2>3, <2>4
<1> QED BY <1>1, <1>2 DEF Readable

\* What a read leaves: the report with the deltas, and the values remembered.
LEMMA ReadStep ==
    ASSUME TypeOK, WindowsCounters, NEW D, NEW value, NEW report \in Report,
           Readable(D, value), Read(D, value, report)
    PROVE  /\ draft' \in Report
           /\ draft'.minute = report.minute
           /\ \A d \in Device : draft'.delta[d] = IF d \in D THEN Delta(value[d], previous[d])
                                                  ELSE draft.delta[d]
           /\ previous' \in [Device -> Nat \cup {None}]
           /\ \A d \in Device : previous'[d] = IF d \in D THEN value[d] ELSE previous[d]
<1> DEFINE delta == [d \in Device |-> IF d \in D THEN Delta(value[d], previous[d])
                                      ELSE draft.delta[d]]
<1>1. draft' = [report EXCEPT !.delta = delta]
  BY DEF Read
<1>2. delta \in [Device -> Nat]
  BY ReadValues, UnreadNat
<1>3. \A d \in Device : delta[d] = IF d \in D THEN Delta(value[d], previous[d])
                                   ELSE draft.delta[d]
  OBVIOUS
<1> HIDE DEF delta
<1>4. draft' \in Report /\ draft'.minute = report.minute /\ draft'.delta = delta
  BY <1>1, <1>2 DEF Report
<1>5. previous' = [d \in Device |-> IF d \in D THEN value[d] ELSE previous[d]]
  BY DEF Read
<1>6. \A d \in D : value[d] \in Nat
  BY ReadValues DEF InRange
<1>7. previous' \in [Device -> Nat \cup {None}]
  BY <1>5, <1>6 DEF TypeOK
<1> QED BY <1>3, <1>4, <1>5, <1>7

\* A read moves what was unread to the report and makes nothing up but what it
\* owes.
LEMMA ReadConserves ==
    ASSUME TypeOK, WindowsCounters, NEW D, NEW value, NEW report \in Report,
           Readable(D, value), Read(D, value, report), Owed(D, value),
           UNCHANGED <<platform, counter>>, NEW d \in Device
    PROVE  /\ Unread(d)' \in Nat /\ draft'.delta[d] \in Nat
           /\ draft'.delta[d] + Unread(d)' + phantom[d] <= draft.delta[d] + Unread(d) + phantom'[d]
<1>1. /\ draft'.delta[d] = IF d \in D THEN Delta(value[d], previous[d]) ELSE draft.delta[d]
      /\ previous'[d] = IF d \in D THEN value[d] ELSE previous[d]
  BY ReadStep
<1>2. Unread(d) \in Nat /\ draft.delta[d] \in Nat
  BY UnreadNat
<1>3. /\ phantom[d] \in Nat /\ phantom'[d] \in Nat /\ counter[d] \in Nat
      /\ phantom'[d] >= phantom[d] + IF d \in D /\ value[d] # counter[d] THEN counter[d] ELSE 0
  BY DEF TypeOK, Owed
<1>4. CASE d \notin D
  <2>1. Unread(d)' = Unread(d)
    BY <1>1, <1>4 DEF Unread, Delta, CounterDelta, CounterDelta32
  <2> QED BY <1>1, <1>2, <1>3, <1>4, <2>1
<1>5. CASE d \in D
  <2>1. draft'.delta[d] \in Nat /\ draft'.delta[d] <= Unread(d)
    BY <1>1, <1>5, ReadValues
  <2>2. previous'[d] = value[d]
    BY <1>1, <1>5
  <2>3. CASE value[d] = counter[d]
    <3>1. Delta(value[d], value[d]) = 0
      BY <1>5, ReadValues, DeltaNat
    <3>2. Unread(d)' = Delta(value[d], value[d])
      BY <2>2, <2>3 DEF Unread, Delta, CounterDelta, CounterDelta32
    <3> QED BY <1>2, <1>3, <2>1, <2>3, <3>1, <3>2
  <2>4. CASE value[d] # counter[d]
    <3>1. value[d] = 0 /\ platform # "windows"
      BY <1>5, <2>4 DEF Readable
    <3>2. Unread(d)' = CounterDelta(counter[d], 0)
      BY <2>2, <3>1, CollectorAssumption DEF Unread, Delta, CounterDelta
    <3>3. Unread(d)' = counter[d]
      BY <1>3, <3>2 DEF CounterDelta
    <3> QED BY <1>2, <1>3, <1>5, <2>1, <2>4, <3>3
  <2> QED BY <2>3, <2>4
<1> QED BY <1>4, <1>5

\* The three steps of a collection that read counters.
LEMMA StampedReport ==
    ASSUME TypeOK, NEW at \in 0..MaxTime
    PROVE  Stamp(draft, at) \in Report /\ Stamp(draft, at).minute = at
<1> DEFINE interval == IF last = None THEN 1 ELSE Clamped(at - last)
           ok == draft.valid /\ interval \in 1..MaxInterval
<1>1. Stamp(draft, at) = [draft EXCEPT !.minute = at, !.listed = {}, !.valid = ok]
  BY DEF Stamp
<1>2. ok \in BOOLEAN
  OBVIOUS
<1> HIDE DEF ok
<1> QED BY <1>1, <1>2 DEF TypeOK, Report

LEMMA KeysBoolean ==
    ASSUME NEW m
    PROVE  KeysValid(m) \in BOOLEAN
BY DEF KeysValid

LEMMA CollectReads ==
    ASSUME TypeOK, ReportTimed, WindowsCounters, CollectDisk \/ FinishLinux \/ FinishWindows
    PROVE  /\ UNCHANGED <<platform, now, counter, absent, moved>> /\ pc \in Collecting
           /\ last' \in 0..MaxTime \cup {None}
           /\ \E D, value : \E report \in Report :
                 /\ Readable(D, value) /\ Read(D, value, report) /\ Owed(D, value)
                 /\ \/ pc' = "disks" /\ report.minute = draft.minute
                    \/ pc' = "sending" /\ report.minute \in 0..MaxTime
<1>0. ASSUME NEW D, UNCHANGED phantom PROVE Owed(D, counter)
  BY <1>0 DEF Owed, TypeOK
<1>1. CASE CollectDisk
  <2>1. PICK m \in LinuxDisks :
          Read((Disk \cap m.names) \ absent, counter, [draft EXCEPT !.valid = m.valid])
    BY <1>1 DEF CollectDisk
  <2> DEFINE names == (Disk \cap m.names) \ absent
             report == [draft EXCEPT !.valid = m.valid]
  <2>2. Read(names, counter, report) /\ pc' = "disks" /\ pc = "started"
        /\ UNCHANGED <<platform, now, counter, absent, moved, phantom, last>>
    BY <1>1, <2>1 DEF CollectDisk, hostVars
  <2>3. Readable(names, counter) /\ Owed(names, counter)
    BY <1>0, <2>2 DEF Readable, Device
  <2>4. m.valid \in BOOLEAN
    <3>1. PICK scan \in Scans : m.valid = KeysValid(MergeSMARTSamples(SysBlock, scan))
      BY DEF LinuxDisks, Inventory
    <3> QED BY <3>1, KeysBoolean
  <2>5. report \in Report /\ report.minute = draft.minute
    BY <2>4 DEF TypeOK, Report
  <2> HIDE DEF names, report
  <2> QED BY <2>2, <2>3, <2>5 DEF Collecting, TypeOK
<1>2. CASE FinishLinux
  <2> DEFINE value == [d \in Device |-> IF d \in absent THEN 0 ELSE counter[d]]
  <2>1. /\ Read(draft.listed, value, Stamp(draft, now)) /\ pc = "listed" /\ pc' = "sending"
        /\ last' = now /\ platform = "linux" /\ UNCHANGED <<platform, now, counter, absent, moved>>
        /\ phantom' = [d \in Device |-> IF d \in draft.listed \cap absent
                                        THEN phantom[d] + counter[d] ELSE phantom[d]]
    BY <1>2 DEF FinishLinux
  <2>2. draft.listed \subseteq Device /\ now \in 0..MaxTime
    BY DEF TypeOK, Report, Device
  <2>3. \A d \in Device : value[d] = IF d \in absent THEN 0 ELSE counter[d]
    OBVIOUS
  <2> HIDE DEF value
  <2>4. Readable(draft.listed, value)
    BY <2>1, <2>2, <2>3 DEF Readable
  <2>5. phantom \in [Device -> Nat] /\ counter \in [Device -> Nat]
    BY DEF TypeOK
  <2>6. Owed(draft.listed, value)
    BY <2>1, <2>3, <2>5 DEF Owed
  <2> QED BY <2>1, <2>2, <2>4, <2>6, StampedReport DEF Collecting
<1>3. CASE FinishWindows
  <2>1. PICK rows \in WindowsRows, m \in WindowsDisks :
          Read(rows, counter, [Stamp(draft, draft.minute) EXCEPT !.valid = @ /\ m.valid])
    BY <1>3 DEF FinishWindows
  <2>2. /\ pc = "listed" /\ pc' = "sending" /\ last' = draft.minute /\ platform = "windows"
        /\ UNCHANGED <<platform, now, counter, absent, moved, phantom>>
    BY <1>3 DEF FinishWindows, hostVars
  <2>3. draft.minute \in 0..MaxTime
    BY <2>2 DEF ReportTimed, Collecting
  <2> DEFINE stamped == Stamp(draft, draft.minute)
             report == [stamped EXCEPT !.valid = stamped.valid /\ m.valid]
  <2>4. stamped \in Report /\ stamped.minute = draft.minute
    BY <2>3, StampedReport
  <2>5. Read(rows, counter, report)
    BY <2>1
  <2>6. report \in Report /\ report.minute = draft.minute
    <3> HIDE DEF stamped
    <3>1. (stamped.valid /\ m.valid) \in BOOLEAN
      OBVIOUS
    <3> QED BY <2>4, <3>1 DEF Report
  <2>7. Readable(rows, counter) /\ Owed(rows, counter)
    <3>1. rows \subseteq draft.listed
      BY DEF WindowsRows
    <3>2. draft.listed \subseteq Device
      BY DEF TypeOK, Report, Device
    <3> QED BY <1>0, <2>2, <3>1, <3>2 DEF Readable
  <2> HIDE DEF report, stamped
  <2> QED BY <2>2, <2>3, <2>5, <2>6, <2>7 DEF Collecting
<1> QED BY <1>1, <1>2, <1>3

-----------------------------------------------------------------------------
(***************************************************************************)
(* Types.                                                                  *)
(***************************************************************************)

\* What may be committed late after the client gave up.
LEMMA AbandonStep ==
    ASSUME TypeOK, ReportTimed, Abandon
    PROVE  /\ late' \subseteq [minute : Minutes, delta : [Device -> Nat]]
           /\ \A entry \in late' : entry \in late \/ (pc \in Sending /\ entry = Entry(draft))
<1>1. \A entry \in late' : entry \in late \/ (Serving /\ entry = Entry(draft))
  BY DEF Abandon
<1>2. Serving => pc \in Sending
  BY DEF Serving, Sending
<1>3. pc \in Sending => Entry(draft) \in [minute : Minutes, delta : [Device -> Nat]]
  BY EntryOfReport DEF TypeOK, ReportTimed
<1> QED BY <1>1, <1>2, <1>3 DEF TypeOK

\* The draft goes on being sent, or is dropped.
Kept == pc' \in Sending /\ draft' = draft
Dropped == pc' = "waiting" /\ draft' = Nothing

LEMMA NextAttemptStep ==
    ASSUME TypeOK, NextAttempt \/ Done
    PROVE  attempt' \in Nat /\ (Kept \/ Dropped)
BY DEF TypeOK, NextAttempt, Done, Kept, Dropped, Sending

LEMMA CommitStep ==
    ASSUME TypeOK, NEW entry \in [minute : Minutes, delta : [Device -> Nat]], Commit(entry)
    PROVE  /\ ledger' \in [Minutes -> [Device -> Nat]]
           /\ \A m \in Minutes : ledger'[m] = IF m = entry.minute THEN entry.delta ELSE ledger[m]
BY DEF TypeOK, Commit

LEMMA InitTraffic == Init => TrafficInv
<1> SUFFICES ASSUME Init PROVE TrafficInv
  OBVIOUS
<1>1. TypeOK
  BY NoReport, CollectorAssumption DEF Init, CollectorInit, TypeOK
<1>2. ReportTimed /\ WindowsCounters
  BY CollectorAssumption
     DEF Init, CollectorInit, ReportTimed, WindowsCounters, Sending, Collecting
<1>3. ASSUME NEW d \in Device PROVE \E share \in [Minutes -> Nat] : Shared(d, share)
  <2> DEFINE share == [m \in Minutes |-> 0]
  <2>1. share \in [Minutes -> Nat] /\ SumFunction(share) = 0
    BY MinutesFinite, SumZero
  <2>2. /\ ledger = [m \in Minutes |-> NoDelta] /\ late = {} /\ pc = "waiting"
        /\ previous[d] = None /\ Accounted(d) = 0
    BY DEF Init, CollectorInit, Accounted
  <2>3. Found(d) = 0 /\ Unread(d) = 0
    BY <2>2 DEF Found, Unread, Delta, Collecting
  <2>4. \A m \in Minutes : ledger[m][d] = 0 /\ share[m] = 0
    BY <2>2 DEF NoDelta
  <2> HIDE DEF share
  <2>5. Shared(d, share)
    BY <2>1, <2>2, <2>3, <2>4 DEF Shared, Sending
  <2> QED BY <2>1, <2>5
<1> QED BY <1>1, <1>2, <1>3 DEF TrafficInv, TrafficShared

LEMMA NextTyped ==
    ASSUME TypeOK, ReportTimed, WindowsCounters, [Next]_vars
    PROVE  TypeOK' /\ ReportTimed' /\ WindowsCounters'
<1> USE DEF hostVars, collectorVars, deliveryVars
<1>1. CASE Host
  <2>1. PICK d \in Device : Traffic(d) \/ Detach(d) \/ Return(d) \/ Reset(d)
    BY <1>1 DEF Host, Counted, Device
  <2>2. UNCHANGED <<collectorVars, deliveryVars, platform, now>> /\ absent' \subseteq Device
    BY <1>1, <2>1 DEF Host, Traffic, Detach, Return, Reset, TypeOK
  <2>3. /\ counter' \in [Device -> Nat]
        /\ platform = "windows" => \A e \in Device : counter'[e] \in 0..(Width - 1)
    <3>1. CASE Traffic(d)
      <4>1. counter' = [counter EXCEPT ![d] = Count(counter[d] + 1)]
        BY <3>1 DEF Traffic
      <4>2. InRange(Count(counter[d] + 1))
        BY CountersInRange, CountRange
      <4> QED BY <4>1, <4>2 DEF TypeOK, WindowsCounters, InRange
    <3>2. CASE Detach(d) \/ Return(d)
      BY <3>2 DEF Detach, Return, TypeOK, WindowsCounters
    <3>3. CASE Reset(d)
      <4>1. counter' = [counter EXCEPT ![d] = 0]
        BY <3>3 DEF Reset
      <4>2. 0 \in 0..(Width - 1)
        BY CollectorAssumption
      <4> QED BY <4>1, <4>2 DEF TypeOK, WindowsCounters
    <3> QED BY <2>1, <3>1, <3>2, <3>3
  <2>4. moved' \in [Device -> Nat] /\ phantom' \in [Device -> Nat]
    <3>1. moved' = moved \/ moved' = [moved EXCEPT ![d] = moved[d] + 1]
      BY <2>1 DEF Traffic, Detach, Return, Reset
    <3>2. phantom' = phantom \/ phantom' = [phantom EXCEPT ![d] = phantom[d] + Width - 1]
      BY <2>1 DEF Traffic, Detach, Return, Reset, TypeOK
    <3>3. phantom[d] + Width - 1 \in Nat
      BY CollectorAssumption DEF TypeOK
    <3> QED BY <3>1, <3>2, <3>3 DEF TypeOK
  <2> QED BY <2>2, <2>3, <2>4 DEF TypeOK, ReportTimed, WindowsCounters
<1>2. CASE Collect
  <2>0. UNCHANGED deliveryVars
    BY <1>2 DEF Collect
  <2>1. CASE StartCollect
    <3>1. now \in 0..MaxTime
      BY DEF TypeOK
    <3>2. draft' \in Report /\ (platform = "windows" => draft'.minute \in 0..MaxTime)
      BY <2>1, <3>1, NoReport DEF StartCollect, Report
    <3>3. pc' = "started" /\ UNCHANGED <<hostVars, previous, last>>
      BY <2>1 DEF StartCollect
    <3> QED BY <2>0, <3>2, <3>3 DEF TypeOK, ReportTimed, WindowsCounters, Collecting, Sending
  <2>2. CASE FailCollect
    <3>1. pc' = "waiting" /\ draft' = Nothing /\ UNCHANGED <<hostVars, previous, last>>
      BY <2>2 DEF FailCollect
    <3> QED BY <2>0, <3>1, NoReport
            DEF TypeOK, ReportTimed, WindowsCounters, Collecting, Sending
  <2>3. CASE ListInterfaces
    <3>1. pc' = "listed" /\ UNCHANGED <<hostVars, previous, last>> /\ pc \in Collecting
      BY <2>3 DEF ListInterfaces, Collecting
    <3>2. PICK valid \in Filesystems :
            draft' = [draft EXCEPT !.listed = Net \ absent,
                                   !.valid = @ /\ (platform = "linux" => valid)]
      BY <2>3 DEF ListInterfaces
    <3>3. draft' \in Report /\ draft'.minute = draft.minute
      <4>1. (draft.valid /\ (platform = "linux" => valid)) \in BOOLEAN
        OBVIOUS
      <4> QED BY <3>2, <4>1 DEF TypeOK, Report
    <3> QED BY <2>0, <3>1, <3>3 DEF TypeOK, ReportTimed, WindowsCounters, Collecting, Sending
  <2>4. CASE CollectDisk \/ FinishLinux \/ FinishWindows
    <3>0. PICK D, value : \E report \in Report :
            /\ Readable(D, value) /\ Read(D, value, report) /\ Owed(D, value)
            /\ \/ pc' = "disks" /\ report.minute = draft.minute
               \/ pc' = "sending" /\ report.minute \in 0..MaxTime
      BY <2>4, CollectReads
    <3>1. PICK report \in Report :
            /\ Readable(D, value) /\ Read(D, value, report) /\ Owed(D, value)
            /\ \/ pc' = "disks" /\ report.minute = draft.minute
               \/ pc' = "sending" /\ report.minute \in 0..MaxTime
      BY <3>0
    <3>2. /\ UNCHANGED <<platform, now, counter, absent, moved>> /\ pc \in Collecting
          /\ last' \in 0..MaxTime \cup {None}
      BY <2>4, CollectReads
    <3>3. /\ draft' \in Report /\ draft'.minute = report.minute
          /\ previous' \in [Device -> Nat \cup {None}]
          /\ \A d \in Device : previous'[d] = IF d \in D THEN value[d] ELSE previous[d]
      BY <3>1, ReadStep
    <3>4. TypeOK'
      BY <2>0, <3>1, <3>2, <3>3 DEF TypeOK, Collecting, Sending, Owed
    <3>5. ReportTimed'
      BY <3>1, <3>2, <3>3 DEF ReportTimed, Collecting, Sending
    <3>6. \A d \in D : InRange(value[d])
      BY <3>1, ReadValues
    <3>7. WindowsCounters'
      BY <3>2, <3>3, <3>6 DEF WindowsCounters, InRange
    <3> QED BY <3>4, <3>5, <3>7
  <2> QED BY <1>2, <2>1, <2>2, <2>3, <2>4 DEF Collect
<1>3. CASE Deliver
  <2>1. CASE StartAttempt
    BY <2>1 DEF StartAttempt, TypeOK, ReportTimed, WindowsCounters, Collecting, Sending
  <2>2. CASE AttemptFails
    <3>1. /\ Abandon /\ NextAttempt /\ answer' = None
          /\ UNCHANGED <<hostVars, previous, last, ledger, restarts>> /\ pc \in Sending
      BY <2>2 DEF AttemptFails, Sending
    <3>2. attempt' \in Nat /\ (Kept \/ Dropped)
      BY <3>1, NextAttemptStep
    <3>3. late' \subseteq [minute : Minutes, delta : [Device -> Nat]]
      BY <3>1, AbandonStep
    <3> QED BY <3>1, <3>2, <3>3, NoReport
            DEF Kept, Dropped, TypeOK, ReportTimed, WindowsCounters, Collecting, Sending
  <2>3. CASE AnswerArrives
    <3>1. attempt' \in Nat /\ (Kept \/ Dropped)
      BY <2>3, NextAttemptStep DEF AnswerArrives
    <3> QED BY <2>3, <3>1, NoReport
            DEF AnswerArrives, Kept, Dropped, TypeOK, ReportTimed, WindowsCounters, Collecting,
                Sending
  <2> QED BY <1>3, <2>1, <2>2, <2>3 DEF Deliver
<1>4. CASE Serve
  <2>1. UNCHANGED <<hostVars, collectorVars, attempt, restarts>>
    BY <1>4 DEF Serve, Accept, Reject, FailRequest, CommitLate
  <2>2. answer' \in {None, "accepted", "rejected", "failed"} /\ late' \subseteq late
    BY <1>4 DEF Serve, Accept, Reject, FailRequest, CommitLate, TypeOK
  <2>3. Serving => Entry(draft) \in [minute : Minutes, delta : [Device -> Nat]]
    BY EntryOfReport DEF Serving, ReportTimed, Sending, TypeOK
  <2>4. \/ UNCHANGED ledger
        \/ \E entry \in [minute : Minutes, delta : [Device -> Nat]] : Commit(entry)
    BY <1>4, <2>3 DEF Serve, Accept, Reject, FailRequest, CommitLate, TypeOK
  <2>5. ledger' \in [Minutes -> [Device -> Nat]]
    BY <2>4, CommitStep DEF TypeOK
  <2> QED BY <2>1, <2>2, <2>5 DEF TypeOK, ReportTimed, WindowsCounters
<1>5. CASE Restart
  <2>1. /\ Abandon /\ Done /\ answer' = None /\ UNCHANGED <<hostVars, ledger>>
        /\ previous' = [d \in Device |-> None] /\ last' = None /\ restarts' = restarts + 1
    BY <1>5 DEF Restart
  <2>2. late' \subseteq [minute : Minutes, delta : [Device -> Nat]]
    BY <2>1, AbandonStep
  <2> QED BY <2>1, <2>2, NoReport
          DEF Done, TypeOK, ReportTimed, WindowsCounters, Collecting, Sending
<1>6. CASE Tick
  BY <1>6, CollectorAssumption DEF Tick, TypeOK, ReportTimed, WindowsCounters
<1>7. CASE UNCHANGED vars
  BY <1>7 DEF vars, TypeOK, ReportTimed, WindowsCounters
<1> QED BY <1>1, <1>2, <1>3, <1>4, <1>5, <1>6, <1>7 DEF Next

-----------------------------------------------------------------------------
(***************************************************************************)
(* The shares of the minutes, for one device.                              *)
(***************************************************************************)

\* The device has as much more accounted for as is found.
Balanced(d) == Found(d)' + Unread(d)' + Accounted(d) <= Found(d) + Unread(d) + Accounted(d)'

LEMMA AccountedNat ==
    ASSUME TypeOK, NEW d \in Device
    PROVE  Accounted(d) \in Nat /\ moved[d] \in Nat /\ phantom[d] \in Nat
BY DEF TypeOK, Accounted

LEMMA StillShared ==
    ASSUME TypeOK, WindowsCounters, TypeOK', WindowsCounters', NEW d \in Device,
           NEW share \in [Minutes -> Nat], Shared(d, share), Balanced(d),
           \A m \in Minutes : ledger'[m][d] <= share[m],
           \A entry \in late' : entry.delta[d] <= share[entry.minute],
           pc' \in Sending => draft'.delta[d] <= share[Entry(draft').minute]
    PROVE  Shared(d, share)'
<1>1. Unread(d) \in Nat /\ Found(d) \in Nat
  BY UnreadNat
<1>2. Unread(d)' \in Nat /\ Found(d)' \in Nat
  <2>1. draft'.delta[d] \in Nat
    BY DEF TypeOK, Report
  <2>2. InRange(counter[d])' /\ (InRange(previous[d]) \/ previous[d] = None)'
    BY CollectorAssumption DEF TypeOK, WindowsCounters, InRange
  <2>3. Unread(d)' \in Nat
    <3> SUFFICES ASSUME previous'[d] # None
                 PROVE  Delta(counter[d], previous[d])' \in Nat
      BY DEF Unread, Delta
    <3>1. CASE platform' = "windows"
      BY <2>2, <3>1, CollectorAssumption DEF Delta, CounterDelta32, InRange
    <3>2. CASE platform' # "windows"
      BY <2>2, <3>2 DEF Delta, CounterDelta, InRange
    <3> QED BY <3>1, <3>2
  <2> QED BY <2>1, <2>3 DEF Found
<1>3. SumFunction(share) \in Nat /\ Accounted(d) \in Nat /\ Accounted(d)' \in Nat
  BY MinutesFinite, SumNat DEF TypeOK, Accounted
<1>4. SumFunction(share) + Found(d) + Unread(d) <= Accounted(d)
  BY DEF Shared
<1>5. SumFunction(share) + Found(d)' + Unread(d)' <= Accounted(d)'
  BY <1>1, <1>2, <1>3, <1>4 DEF Balanced
<1>6. (SumFunction(share) + Found(d) + Unread(d) <= Accounted(d))'
  BY <1>5
<1> HIDE DEF Found, Unread, Accounted
<1> QED BY <1>6 DEF Shared, Entry

\* A reset leaves nothing to be read, or on Windows at most a wrap.
LEMMA DeltaOfReset ==
    ASSUME NEW q, q = None \/ InRange(q)
    PROVE  /\ Delta(0, q) \in Nat
           /\ Delta(0, q) <= IF platform = "windows" THEN Width - 1 ELSE 0
<1>0. Width \in Nat /\ 1 <= Width
  BY CollectorAssumption
<1>1. CASE q = None
  BY <1>0, <1>1 DEF Delta
<1>2. CASE q # None /\ platform = "windows"
  BY <1>0, <1>2 DEF Delta, CounterDelta32, InRange
<1>3. CASE q # None /\ platform # "windows"
  BY <1>3 DEF Delta, CounterDelta, InRange
<1> QED BY <1>1, <1>2, <1>3

LEMMA HostShares ==
    ASSUME TypeOK, WindowsCounters, Host, NEW d \in Device
    PROVE  Balanced(d) /\ UNCHANGED <<pc, draft, late, ledger>>
<1>1. PICK e \in Device : Traffic(e) \/ Detach(e) \/ Return(e) \/ Reset(e)
  BY DEF Host, Counted, Device
<1>2. UNCHANGED <<previous, pc, draft, late, ledger, platform>>
  BY <1>1 DEF Host, Traffic, Detach, Return, Reset, collectorVars, deliveryVars
<1>3. Found(d)' = Found(d)
  BY <1>2 DEF Found
<1>4. /\ Unread(d) \in Nat /\ Found(d) \in Nat
      /\ Accounted(d) \in Nat /\ moved[d] \in Nat /\ phantom[d] \in Nat
  BY UnreadNat, AccountedNat
<1>5. Unread(d)' = Delta(counter'[d], previous[d])
  BY <1>2 DEF Unread, Delta, CounterDelta, CounterDelta32
<1>6. CASE e # d \/ Detach(e) \/ Return(e)
  <2>1. counter'[d] = counter[d] /\ moved'[d] = moved[d] /\ phantom'[d] = phantom[d]
    BY <1>1, <1>6 DEF Traffic, Detach, Return, Reset, TypeOK
  <2>2. Unread(d)' = Unread(d) /\ Accounted(d)' = Accounted(d)
    BY <1>5, <2>1 DEF Unread, Accounted
  <2> QED BY <1>2, <1>3, <1>4, <2>2 DEF Balanced
<1>7. CASE e = d /\ Traffic(e)
  <2>1. counter'[d] = Count(counter[d] + 1) /\ moved'[d] = moved[d] + 1 /\ phantom'[d] = phantom[d]
    BY <1>7 DEF Traffic, TypeOK
  <2>2. InRange(counter[d]) /\ InRange(counter'[d])
    BY <2>1, CountersInRange, CountRange
  <2>3. Unread(d)' \in Nat
    BY <1>5, <2>2, CountersInRange, DeltaNat
  <2>4. Unread(d)' <= Unread(d) + 1
    <3>1. CASE previous[d] = None
      BY <1>4, <1>5, <3>1 DEF Delta
    <3>2. CASE previous[d] # None
      BY <1>5, <2>1, <2>2, <3>2, CountersInRange, DeltaStep DEF Unread
    <3> QED BY <3>1, <3>2
  <2>5. Accounted(d)' = Accounted(d) + 1
    BY <1>4, <2>1 DEF Accounted
  <2> QED BY <1>2, <1>3, <1>4, <2>3, <2>4, <2>5 DEF Balanced
<1>8. CASE e = d /\ Reset(e)
  <2>1. /\ counter'[d] = 0 /\ moved'[d] = moved[d]
        /\ phantom'[d] = IF platform = "windows" THEN phantom[d] + Width - 1 ELSE phantom[d]
    BY <1>8 DEF Reset, TypeOK
  <2>2. /\ Unread(d)' \in Nat
        /\ Unread(d)' <= IF platform = "windows" THEN Width - 1 ELSE 0
    BY <1>5, <2>1, CountersInRange, DeltaOfReset
  <2>3. Accounted(d)' = Accounted(d) + IF platform = "windows" THEN Width - 1 ELSE 0
    BY <1>4, <2>1, CollectorAssumption DEF Accounted
  <2> QED BY <1>2, <1>3, <1>4, <2>2, <2>3, CollectorAssumption DEF Balanced
<1> QED BY <1>1, <1>6, <1>7, <1>8

\* A report is finished: the share of its minute grows by what it found.
LEMMA FinishShares ==
    ASSUME TypeOK, WindowsCounters, TypeOK', NEW d \in Device,
           NEW share \in [Minutes -> Nat], Shared(d, share),
           UNCHANGED <<platform, counter, moved, late, ledger>>,
           NEW D, NEW value, NEW report \in Report, Readable(D, value), Read(D, value, report),
           Owed(D, value), report.minute \in 0..MaxTime, pc \in Collecting, pc' = "sending"
    PROVE  \E raised \in [Minutes -> Nat] : Shared(d, raised)'
<1> DEFINE e == Entry(draft').minute
           x == draft'.delta[d]
<1>1. draft' \in Report /\ draft'.minute \in 0..MaxTime
  BY ReadStep
<1>2. e \in Minutes
  BY <1>1, EntryOfReport
<1>3. /\ Unread(d)' \in Nat /\ x \in Nat
      /\ x + Unread(d)' + phantom[d] <= draft.delta[d] + Unread(d) + phantom'[d]
  BY ReadConserves
<1>4. Found(d) = draft.delta[d] /\ Found(d)' = 0 /\ Unread(d) \in Nat /\ draft.delta[d] \in Nat
  BY UnreadNat DEF Found, Collecting
<1> HIDE DEF e, x
<1>5. SumFunction(share) \in Nat
  BY MinutesFinite, SumNat
<1>6. PICK raised \in [Minutes -> Nat] :
         /\ SumFunction(raised) = SumFunction(share) + x
         /\ \A m \in Minutes : raised[m] = IF m = e THEN share[e] + x ELSE share[m]
  <2> DEFINE r == [share EXCEPT ![e] = share[e] + x]
  <2>1. SumFunction(r) = SumFunction(share) + x
    BY <1>2, <1>3, MinutesFinite, SumRaised
  <2>2. r \in [Minutes -> Nat] /\ \A m \in Minutes : r[m] = IF m = e THEN share[e] + x ELSE share[m]
    BY <1>2, <1>3
  <2> HIDE DEF r
  <2> QED BY <2>1, <2>2
<1>7. \A m \in Minutes : share[m] \in Nat /\ raised[m] \in Nat /\ share[m] <= raised[m]
  BY <1>3, <1>6
<1>8. ledger' = ledger /\ late' = late
  OBVIOUS
<1>9. \A m \in Minutes : ledger'[m][d] <= raised[m]
  <2> TAKE m \in Minutes
  <2>1. ledger[m][d] \in Nat /\ ledger[m][d] <= share[m]
    BY DEF Shared, TypeOK
  <2> QED BY <1>7, <1>8, <2>1
<1>10. \A entry \in late' : entry.delta[d] <= raised[entry.minute]
  <2> TAKE entry \in late'
  <2>1. entry.minute \in Minutes /\ entry.delta[d] \in Nat
    BY DEF TypeOK
  <2>2. entry.delta[d] <= share[entry.minute]
    BY <1>8 DEF Shared
  <2> QED BY <1>7, <2>1, <2>2
<1>11. x <= raised[e]
  BY <1>2, <1>3, <1>6
<1>12. SumFunction(raised) + Found(d)' + Unread(d)' <= Accounted(d)'
  <2>1. SumFunction(share) + draft.delta[d] + Unread(d) <= moved[d] + phantom[d]
    BY <1>4 DEF Shared, Accounted
  <2>2. moved[d] \in Nat /\ phantom[d] \in Nat /\ phantom'[d] \in Nat
    BY DEF TypeOK
  <2>3. SumFunction(raised) + Found(d)' + Unread(d)' <= moved[d] + phantom'[d]
    BY <1>3, <1>4, <1>5, <1>6, <2>1, <2>2
  <2> QED BY <2>3 DEF Accounted
<1>13. (SumFunction(raised) + Found(d) + Unread(d) <= Accounted(d))'
  BY <1>12
<1>14. Shared(d, raised)'
  BY <1>9, <1>10, <1>11, <1>13 DEF Shared, e, x, Entry
<1> QED BY <1>6, <1>14

LEMMA NextShared ==
    ASSUME TrafficInv, TypeOK', WindowsCounters', [Next]_vars, NEW d \in Device
    PROVE  \E share \in [Minutes -> Nat] : Shared(d, share)'
<1>0. TypeOK /\ ReportTimed /\ WindowsCounters
  BY DEF TrafficInv
<1>a. PICK share \in [Minutes -> Nat] : Shared(d, share)
  BY DEF TrafficInv, TrafficShared
<1>b. /\ \A m \in Minutes : ledger[m][d] <= share[m]
      /\ \A entry \in late : entry.delta[d] <= share[entry.minute]
      /\ pc \in Sending => draft.delta[d] <= share[Entry(draft).minute]
  BY <1>a DEF Shared
<1>c. Unread(d) \in Nat /\ Found(d) \in Nat /\ Accounted(d) \in Nat
  BY <1>0, UnreadNat, AccountedNat
<1>d. UNCHANGED <<platform, counter, previous>> => Unread(d)' = Unread(d)
  BY DEF Unread, Delta, CounterDelta, CounterDelta32
<1>e. ASSUME UNCHANGED <<platform, counter, previous, moved, phantom>>,
             Found(d)' = 0 \/ Found(d)' = Found(d)
      PROVE  Balanced(d)
  <2>1. Accounted(d)' = Accounted(d)
    BY <1>e DEF Accounted
  <2> QED BY <1>c, <1>d, <1>e, <2>1 DEF Balanced
<1>1. CASE Host
  <2>1. Balanced(d) /\ UNCHANGED <<pc, draft, late, ledger>>
    BY <1>0, <1>1, HostShares
  <2> QED BY <1>0, <1>a, <1>b, <2>1, StillShared
<1>2. CASE Collect
  <2>0. UNCHANGED <<late, ledger>>
    BY <1>2 DEF Collect, deliveryVars
  <2>1. CASE StartCollect \/ FailCollect \/ ListInterfaces
    <3>1. UNCHANGED <<platform, counter, previous, moved, phantom>> /\ pc' \notin Sending
      BY <2>1 DEF StartCollect, FailCollect, ListInterfaces, hostVars, Sending
    <3>2. Found(d)' = 0 \/ Found(d)' = Found(d)
      <4>1. CASE StartCollect \/ FailCollect
        <5>1. draft'.delta = NoDelta
          BY <4>1, NoReport DEF StartCollect, FailCollect, Nothing
        <5> QED BY <5>1 DEF Found, NoDelta
      <4>2. CASE ListInterfaces
        <5>1. draft'.delta = draft.delta /\ pc \in Collecting /\ pc' \in Collecting
          BY <1>0, <4>2 DEF ListInterfaces, Collecting, TypeOK, Report
        <5> QED BY <5>1 DEF Found
      <4> QED BY <2>1, <4>1, <4>2
    <3>3. Balanced(d)
      BY <1>e, <3>1, <3>2
    <3> QED BY <1>0, <1>a, <1>b, <2>0, <3>1, <3>3, StillShared
  <2>2. CASE CollectDisk \/ FinishLinux \/ FinishWindows
    <3>0. PICK D, value : \E report \in Report :
            /\ Readable(D, value) /\ Read(D, value, report) /\ Owed(D, value)
            /\ \/ pc' = "disks" /\ report.minute = draft.minute
               \/ pc' = "sending" /\ report.minute \in 0..MaxTime
      BY <1>0, <2>2, CollectReads
    <3>1. PICK report \in Report :
            /\ Readable(D, value) /\ Read(D, value, report) /\ Owed(D, value)
            /\ \/ pc' = "disks" /\ report.minute = draft.minute
               \/ pc' = "sending" /\ report.minute \in 0..MaxTime
      BY <3>0
    <3>2. UNCHANGED <<platform, counter, moved>> /\ pc \in Collecting
      BY <1>0, <2>2, CollectReads
    <3>3. CASE pc' = "disks"
      <4>1. /\ Unread(d)' \in Nat /\ draft'.delta[d] \in Nat
            /\ draft'.delta[d] + Unread(d)' + phantom[d] <= draft.delta[d] + Unread(d) + phantom'[d]
        BY <1>0, <3>1, <3>2, ReadConserves
      <4>2. Found(d) = draft.delta[d] /\ Found(d)' = draft'.delta[d]
        BY <3>2, <3>3 DEF Found, Collecting
      <4>3. /\ Accounted(d) = moved[d] + phantom[d] /\ Accounted(d)' = moved[d] + phantom'[d]
            /\ moved[d] \in Nat /\ phantom[d] \in Nat /\ phantom'[d] \in Nat
        BY <1>0, <3>2 DEF Accounted, TypeOK
      <4>4. Balanced(d)
        BY <1>c, <4>1, <4>2, <4>3 DEF Balanced
      <4>5. pc' \notin Sending
        BY <3>3 DEF Sending
      <4> QED BY <1>0, <1>a, <1>b, <2>0, <4>4, <4>5, StillShared
    <3>4. CASE pc' = "sending"
      <4>1. report.minute \in 0..MaxTime
        BY <3>1, <3>4
      <4> QED BY <1>0, <1>a, <2>0, <3>1, <3>2, <3>4, <4>1, FinishShares
    <3> QED BY <3>1, <3>3, <3>4
  <2> QED BY <1>2, <2>1, <2>2 DEF Collect
<1>3. ASSUME Kept \/ Dropped, pc \in Sending, UNCHANGED <<hostVars, previous, ledger>>,
             \A entry \in late' : entry \in late \/ entry = Entry(draft)
      PROVE  Shared(d, share)'
  <2>1. Found(d)' = 0
    BY <1>3 DEF Found, Kept, Dropped, Collecting, Sending
  <2>2. Balanced(d)
    BY <1>3, <1>e, <2>1 DEF hostVars
  <2>3. Entry(draft).delta = draft.delta
    BY DEF Entry
  <2>4. \A entry \in late' : entry.delta[d] <= share[entry.minute]
    BY <1>3, <1>b, <2>3
  <2>5. pc' \in Sending => draft' = draft
    BY <1>3 DEF Kept, Dropped, Sending
  <2> QED BY <1>0, <1>3, <1>a, <1>b, <2>2, <2>4, <2>5, StillShared
<1>4. CASE Deliver
  <2>1. CASE StartAttempt
    <3>1. pc \in Sending /\ Kept /\ UNCHANGED <<hostVars, previous, late, ledger>>
      BY <2>1 DEF StartAttempt, Kept, Sending
    <3> QED BY <1>3, <3>1
  <2>2. CASE AttemptFails
    <3>1. pc \in Sending /\ UNCHANGED <<hostVars, previous, ledger>> /\ Abandon /\ NextAttempt
      BY <2>2 DEF AttemptFails, Sending
    <3> QED BY <1>0, <1>3, <3>1, AbandonStep, NextAttemptStep
  <2>3. CASE AnswerArrives
    <3>1. pc \in Sending /\ UNCHANGED <<hostVars, previous, late, ledger>>
      BY <2>3 DEF AnswerArrives, Sending
    <3>2. NextAttempt \/ Done
      BY <2>3 DEF AnswerArrives
    <3> QED BY <1>0, <1>3, <3>1, <3>2, NextAttemptStep
  <2> QED BY <1>4, <2>1, <2>2, <2>3 DEF Deliver
<1>5. CASE Serve
  <2>1. UNCHANGED <<platform, counter, previous, moved, phantom, pc, draft>> /\ late' \subseteq late
    BY <1>5 DEF Serve, Accept, Reject, FailRequest, CommitLate, hostVars, collectorVars
  <2>2. Balanced(d)
    <3>1. Found(d)' = Found(d)
      BY <2>1 DEF Found
    <3> QED BY <1>e, <2>1, <3>1
  <2>3. \/ UNCHANGED ledger
        \/ \E entry \in late : Commit(entry)
        \/ pc \in Sending /\ Commit(Entry(draft))
    BY <1>5 DEF Serve, Accept, Reject, FailRequest, CommitLate, Serving, Sending
  <2>4. \/ UNCHANGED ledger
        \/ \E entry \in [minute : Minutes, delta : [Device -> Nat]] :
              Commit(entry) /\ entry.delta[d] <= share[entry.minute]
    <3>1. late \subseteq [minute : Minutes, delta : [Device -> Nat]]
      BY <1>0 DEF TypeOK
    <3>2. pc \in Sending => /\ Entry(draft) \in [minute : Minutes, delta : [Device -> Nat]]
                            /\ Entry(draft).delta[d] <= share[Entry(draft).minute]
      BY <1>0, <1>b, EntryOfReport DEF TypeOK, ReportTimed
    <3> QED BY <1>b, <2>3, <3>1, <3>2
  <2>5. \A m \in Minutes : ledger'[m][d] <= share[m]
    BY <1>0, <1>b, <2>4, CommitStep
  <2> QED BY <1>0, <1>a, <1>b, <2>1, <2>2, <2>5, StillShared
<1>6. CASE Restart
  <2>1. /\ Abandon /\ Done /\ UNCHANGED <<hostVars, ledger>>
        /\ previous' = [e \in Device |-> None]
    BY <1>6 DEF Restart
  <2>2. pc' \notin Sending /\ Found(d)' = 0 /\ Unread(d)' = 0
    BY <2>1 DEF Done, Found, Unread, Delta, Sending, Collecting
  <2>3. Balanced(d)
    BY <1>c, <2>1, <2>2 DEF Balanced, Accounted, hostVars
  <2>4. \A entry \in late' : entry.delta[d] <= share[entry.minute]
    <3>1. Entry(draft).delta = draft.delta
      BY DEF Entry
    <3> QED BY <1>0, <1>b, <2>1, <3>1, AbandonStep
  <2> QED BY <1>0, <1>a, <1>b, <2>1, <2>2, <2>3, <2>4, StillShared
<1>7. CASE Tick \/ UNCHANGED vars
  <2>1. UNCHANGED <<platform, counter, moved, phantom, previous, pc, draft, late, ledger>>
    BY <1>7 DEF Tick, vars, hostVars, collectorVars, deliveryVars
  <2>2. Balanced(d)
    <3>1. Found(d)' = Found(d)
      BY <2>1 DEF Found
    <3> QED BY <1>e, <2>1, <3>1
  <2> QED BY <1>0, <1>a, <1>b, <2>1, <2>2, StillShared
<1> QED BY <1>1, <1>2, <1>4, <1>5, <1>6, <1>7 DEF Next

\* The shares bound what is stored.
LEMMA SharesConserve == TrafficInv => TrafficConserved
<1> SUFFICES ASSUME TrafficInv, NEW d \in Device PROVE Stored(d) <= Accounted(d)
  BY DEF TrafficConserved
<1>0. TypeOK /\ WindowsCounters
  BY DEF TrafficInv
<1>1. PICK share \in [Minutes -> Nat] : Shared(d, share)
  BY DEF TrafficInv, TrafficShared
<1> DEFINE stored == [m \in Minutes |-> ledger[m][d]]
<1>2. stored \in [Minutes -> Nat] /\ \A m \in Minutes : stored[m] = ledger[m][d]
  BY <1>0 DEF TypeOK
<1>3. Stored(d) = SumFunction(stored)
  BY DEF Stored
<1> HIDE DEF stored
<1>4. SumFunction(stored) <= SumFunction(share)
  BY <1>1, <1>2, MinutesFinite, SumMonotone DEF Shared
<1>5. SumFunction(stored) \in Nat /\ SumFunction(share) \in Nat
  BY <1>2, MinutesFinite, SumNat
<1>6. Unread(d) \in Nat /\ Found(d) \in Nat /\ Accounted(d) \in Nat
  BY <1>0, UnreadNat, AccountedNat
<1> QED BY <1>1, <1>3, <1>4, <1>5, <1>6 DEF Shared

-----------------------------------------------------------------------------
(***************************************************************************)
(* The folds over lists: the value after each element.                     *)
(***************************************************************************)

\* One turn of either loop.
Turn(loop, value, x) == IF loop = "disks" THEN MergeSample(value, x) ELSE AddFilesystem(value, x)

Turns(loop, base, list, g) ==
    g = [s \in SUBSET DOMAIN list |->
           IF s = {} THEN base ELSE Turn(loop, g[s \ {Max(s)}], list[Max(s)])]

LEMMA MaxOfInterval ==
    ASSUME NEW n \in Nat, NEW s \in SUBSET (1..n), s # {}
    PROVE  Max(s) \in s /\ \A x \in s : x <= Max(s)
<1> DEFINE N == {k \in Nat : \A t \in SUBSET (1..k) : t # {} => \E x \in t : \A y \in t : x >= y}
<1>1. 0 \in N
  <2>1. \A t \in SUBSET (1..0) : t = {}
    OBVIOUS
  <2> QED BY <2>1
<1>2. ASSUME NEW k \in Nat, k \in N PROVE k + 1 \in N
  <2> SUFFICES ASSUME NEW t \in SUBSET (1..(k + 1)), t # {}
               PROVE  \E x \in t : \A y \in t : x >= y
    OBVIOUS
  <2>1. CASE k + 1 \in t
    BY <2>1
  <2>2. CASE k + 1 \notin t
    <3>1. t \in SUBSET (1..k)
      BY <2>2
    <3> QED BY <1>2, <3>1
  <2> QED BY <2>1, <2>2
<1>3. \A k \in Nat : k \in N
  <2> HIDE DEF N
  <2> QED BY <1>1, <1>2, Induction
<1>4. \E x \in s : \A y \in s : x >= y
  BY <1>3
<1> QED BY <1>4 DEF Max

LEMMA TurnsExist ==
    ASSUME NEW loop, NEW base, NEW list, NEW n \in Nat, DOMAIN list = 1..n
    PROVE  \E g : Turns(loop, base, list, g)
<1> DEFINE Part(g, k) == g = [s \in SUBSET (1..k) |->
                   IF s = {} THEN base ELSE Turn(loop, g[s \ {Max(s)}], list[Max(s)])]
           N == {k \in Nat : \E g : Part(g, k)}
<1>1. 0 \in N
  <2>1. \A s \in SUBSET (1..0) : s = {}
    OBVIOUS
  <2>2. Part([s \in SUBSET (1..0) |-> base], 0)
    BY <2>1
  <2> QED BY <2>2
<1>2. ASSUME NEW k \in Nat, k \in N PROVE k + 1 \in N
  <2>1. PICK g : Part(g, k)
    BY <1>2
  <2> DEFINE h == [s \in SUBSET (1..(k + 1)) |->
                   IF s = {} THEN base ELSE Turn(loop, g[s \ {Max(s)}], list[Max(s)])]
  <2>2. \A s \in SUBSET (1..k) : s \in SUBSET (1..(k + 1)) /\ h[s] = g[s]
    <3>1. \A s \in SUBSET (1..k) : s \in SUBSET (1..(k + 1))
      OBVIOUS
    <3>2. \A s \in SUBSET (1..k) :
            g[s] = IF s = {} THEN base ELSE Turn(loop, g[s \ {Max(s)}], list[Max(s)])
      BY <2>1
    <3> QED BY <3>1, <3>2
  <2>3. \A s \in SUBSET (1..(k + 1)) : s # {} => s \ {Max(s)} \in SUBSET (1..k)
    <3> SUFFICES ASSUME NEW s \in SUBSET (1..(k + 1)), s # {}, NEW x \in s, x # Max(s)
                 PROVE  x \in 1..k
      OBVIOUS
    <3>0. k + 1 \in Nat
      OBVIOUS
    <3>1. Max(s) \in s /\ \A y \in s : y <= Max(s)
      BY <3>0, MaxOfInterval
    <3>2. \A y \in s : y \in Int /\ 1 <= y /\ y <= k + 1
      OBVIOUS
    <3>3. x <= Max(s) /\ x \in Int /\ Max(s) \in Int /\ 1 <= x /\ Max(s) <= k + 1
      BY <3>1, <3>2
    <3> HIDE DEF Max
    <3> QED BY <3>3
  <2>4. \A s \in SUBSET (1..(k + 1)) :
          h[s] = IF s = {} THEN base ELSE Turn(loop, h[s \ {Max(s)}], list[Max(s)])
    BY <2>2, <2>3
  <2>5. Part(h, k + 1)
    <3>1. h = [s \in SUBSET (1..(k + 1)) |-> h[s]]
      OBVIOUS
    <3> HIDE DEF h
    <3> QED BY <2>4, <3>1
  <2>6. \E i : Part(i, k + 1)
    <3> HIDE DEF Part, h
    <3> QED BY <2>5
  <2> HIDE DEF Part
  <2> QED BY <2>6
<1>3. n \in N
  <2> HIDE DEF N
  <2> QED BY <1>1, <1>2, Induction
<1> QED BY <1>3 DEF Turns

\* The values of a loop: after k elements, r[k].
Loop(loop, base, list, n, r) ==
    /\ r[0] = base
    /\ \A k \in 1..n : r[k] = Turn(loop, r[k - 1], list[k])

LEMMA TurnsLoop ==
    ASSUME NEW loop, NEW base, NEW list, NEW n \in Nat, DOMAIN list = 1..n,
           NEW g, Turns(loop, base, list, g)
    PROVE  \E r : Loop(loop, base, list, n, r) /\ r[n] = g[DOMAIN list]
<1> DEFINE r == [k \in 0..n |-> g[1..k]]
<1>1. r[0] = base
  BY DEF Turns
<1>2. ASSUME NEW k \in 1..n PROVE r[k] = Turn(loop, r[k - 1], list[k])
  <2>1. 1..k \in SUBSET (1..n) /\ 1..k # {} /\ k \in 1..k
    OBVIOUS
  <2>2. Max(1..k) \in 1..k /\ k <= Max(1..k)
    BY <2>1, MaxOfInterval
  <2>3. Max(1..k) = k
    BY <2>2
  <2>4. (1..k) \ {k} = 1..(k - 1)
    OBVIOUS
  <2>5. g[1..k] = Turn(loop, g[(1..k) \ {Max(1..k)}], list[Max(1..k)])
    BY <2>1 DEF Turns
  <2>6. g[1..k] = Turn(loop, g[1..(k - 1)], list[k])
    BY <2>3, <2>4, <2>5
  <2>7. k \in 0..n /\ k - 1 \in 0..n
    OBVIOUS
  <2> QED BY <2>6, <2>7
<1>3. r[n] = g[DOMAIN list]
  OBVIOUS
<1> HIDE DEF r
<1> QED BY <1>1, <1>2, <1>3 DEF Loop

LEMMA MergeLoop ==
    ASSUME NEW devices, NEW samples, samples \in Seq(Range(samples))
    PROVE  \E r : /\ Loop("disks", [devices |-> devices, health |-> {}], samples, Len(samples), r)
                  /\ MergeSMARTSamples(devices, samples) = r[Len(samples)]
<1> DEFINE base == [devices |-> devices, health |-> {}]
           g == CHOOSE it : Turns("disks", base, samples, it)
<1>0. DOMAIN samples = 1..Len(samples) /\ Len(samples) \in Nat
  OBVIOUS
<1>1. Turns("disks", base, samples, g)
  <2> HIDE DEF base
  <2> QED BY <1>0, TurnsExist
<1>2. MergeSMARTSamples(devices, samples) = g[DOMAIN samples]
  BY DEF MergeSMARTSamples, FoldLeft, MapThenFoldSet, Turns, Turn
<1> HIDE DEF base, g
<1>3. \E r : Loop("disks", base, samples, Len(samples), r) /\ r[Len(samples)] = g[DOMAIN samples]
  BY <1>0, <1>1, TurnsLoop
<1> QED BY <1>2, <1>3 DEF base

LEMMA FilesystemLoop ==
    ASSUME NEW partitions, partitions \in Seq(Range(partitions))
    PROVE  \E r : /\ Loop("filesystems", <<>>, partitions, Len(partitions), r)
                  /\ CollectFilesystemStats(partitions) = r[Len(partitions)]
<1> DEFINE g == CHOOSE it : Turns("filesystems", <<>>, partitions, it)
<1>0. DOMAIN partitions = 1..Len(partitions) /\ Len(partitions) \in Nat
  OBVIOUS
<1>1. Turns("filesystems", <<>>, partitions, g)
  BY <1>0, TurnsExist
<1>2. CollectFilesystemStats(partitions) = g[DOMAIN partitions]
  BY DEF CollectFilesystemStats, FoldLeft, MapThenFoldSet, Turns, Turn
<1> HIDE DEF g
<1>3. \E r : /\ Loop("filesystems", <<>>, partitions, Len(partitions), r)
             /\ r[Len(partitions)] = g[DOMAIN partitions]
  BY <1>0, <1>1, TurnsLoop
<1> QED BY <1>2, <1>3

-----------------------------------------------------------------------------
(***************************************************************************)
(* The inventory: keys of filesystems and of disks.                        *)
(***************************************************************************)

\* Whatever is mounted, collectFilesystemStats lists no key twice.
LEMMA FilesystemsDiffer ==
    ASSUME NEW partitions, partitions \in Seq(Range(partitions))
    PROVE  FilesystemsValid(CollectFilesystemStats(partitions))
<1> DEFINE n == Len(partitions)
           U == {[key |-> FilesystemKey(partitions[i]), mount |-> partitions[i].mount] :
                     i \in DOMAIN partitions}
<1>0. n \in Nat /\ DOMAIN partitions = 1..n
  OBVIOUS
<1>1. PICK r : /\ Loop("filesystems", <<>>, partitions, n, r)
               /\ CollectFilesystemStats(partitions) = r[n]
  BY FilesystemLoop
<1> DEFINE N == {k \in Nat : k <= n => r[k] \in Seq(U) /\ FilesystemsValid(r[k])}
<1>2. 0 \in N
  <2>1. r[0] = <<>>
    BY <1>1 DEF Loop
  <2> HIDE DEF U
  <2>2. <<>> \in Seq(U) /\ FilesystemsValid(<<>>)
    BY DEF FilesystemsValid
  <2> QED BY <2>1, <2>2
<1>3. ASSUME NEW k \in Nat, k \in N PROVE k + 1 \in N
  <2> SUFFICES ASSUME k + 1 <= n PROVE r[k + 1] \in Seq(U) /\ FilesystemsValid(r[k + 1])
    OBVIOUS
  <2> DEFINE list == r[k]
             p == partitions[k + 1]
             e == [key |-> FilesystemKey(p), mount |-> p.mount]
  <2>1. list \in Seq(U) /\ FilesystemsValid(list)
    BY <1>0, <1>3
  <2>2. k + 1 \in 1..n /\ (k + 1) - 1 = k
    BY <1>0
  <2>3. r[k + 1] = AddFilesystem(list, p)
    BY <1>1, <2>2 DEF Loop, Turn
  <2>4. e \in U
    BY <1>0, <2>2
  <2>5. e.key = FilesystemKey(p)
    OBVIOUS
  <2> HIDE DEF U, n, list, p, e
  <2>6. CASE r[k + 1] = list
    BY <2>1, <2>6
  <2>7. CASE /\ r[k + 1] = Append(list, e)
             /\ \A i \in DOMAIN list : list[i].key # e.key
    <3>1. r[k + 1] \in Seq(U)
      BY <2>1, <2>4, <2>7
    <3>2. ASSUME NEW i \in DOMAIN r[k + 1], NEW j \in DOMAIN r[k + 1], i # j
          PROVE  r[k + 1][i].key # r[k + 1][j].key
      <4>1. /\ \A l \in 1..Len(list) : r[k + 1][l] = list[l]
            /\ r[k + 1][Len(list) + 1] = e
            /\ DOMAIN r[k + 1] = 1..(Len(list) + 1)
            /\ DOMAIN list = 1..Len(list) /\ Len(list) \in Nat
        BY <2>1, <2>4, <2>7
      <4>2. CASE i \in 1..Len(list) /\ j \in 1..Len(list)
        BY <2>1, <3>2, <4>1, <4>2 DEF FilesystemsValid
      <4>3. CASE i \in 1..Len(list) /\ j = Len(list) + 1
        BY <2>7, <4>1, <4>3
      <4>4. CASE j \in 1..Len(list) /\ i = Len(list) + 1
        BY <2>7, <4>1, <4>4
      <4>5. \/ i \in 1..Len(list) /\ j \in 1..Len(list)
            \/ i \in 1..Len(list) /\ j = Len(list) + 1
            \/ j \in 1..Len(list) /\ i = Len(list) + 1
        BY <3>2, <4>1
      <4> QED BY <4>2, <4>3, <4>4, <4>5
    <3> QED BY <3>1, <3>2 DEF FilesystemsValid
  <2> QED BY <2>3, <2>5, <2>6, <2>7 DEF AddFilesystem, e
<1>4. n \in N
  <2>1. \A k \in Nat : k \in N
    <3> HIDE DEF N
    <3> QED BY <1>2, <1>3, Induction
  <2> QED BY <1>0, <2>1
<1> QED BY <1>0, <1>1, <1>4

\* The device at place i of the merged list goes back to the presentation o of a
\* disk: the one that made it, of sysfs or of the first k samples, and all that
\* was merged into it is of the same disk.
Made(devices, samples, k, i, o) ==
    IF i <= Len(devices) THEN o = devices[i]
    ELSE \E j \in 1..k : samples[j].ok /\ o = BlockDeviceFromSMART(samples[j])

SameDisk(devices, samples, disk, device, o) ==
    /\ o \in Seen(devices, samples) /\ device.key = o.key /\ device.name = o.name
    /\ device.serial = None => o.serial = None
    /\ device.wwn = None => o.wwn = None
    /\ device.serial # None =>
          \E e \in Seen(devices, samples) : disk[e] = disk[o] /\ e.serial = device.serial
    /\ device.wwn # None =>
          \E e \in Seen(devices, samples) : disk[e] = disk[o] /\ e.wwn = device.wwn

Row(devices, samples) ==
    LET S == Seen(devices, samples)
    IN  [key : {e.key : e \in S}, name : {e.name : e \in S}, serial : {None} \cup {e.serial : e \in S},
         wwn : {None} \cup {e.wwn : e \in S}, raid : BOOLEAN]

Merged(devices, samples, disk, k, list) ==
    /\ list \in Seq(Row(devices, samples)) /\ Len(devices) <= Len(list)
    /\ \A i \in DOMAIN list : \E o : /\ Made(devices, samples, k, i, o)
                                     /\ SameDisk(devices, samples, disk, list[i], o)
    /\ \A i, j \in DOMAIN list : i # j => list[i].key # list[j].key

Inputs(devices, samples, disk) ==
    /\ devices \in Seq(Range(devices)) /\ samples \in Seq(Range(samples))
    /\ Identified(devices, samples) /\ Presents(devices, samples, disk)

LEMMA SysDevice ==
    ASSUME NEW devices, NEW samples, NEW disk, Inputs(devices, samples, disk),
           NEW i \in DOMAIN devices
    PROVE  LET d == devices[i]
           IN  /\ d = BlockDevice(d.name, d.serial, d.wwn) /\ d.raid = FALSE
               /\ d.key = FirstNonEmpty(d.serial, d.wwn, <<d.name>>)
<1> DEFINE d == devices[i]
<1>1. d = BlockDevice(d.name, d.serial, d.wwn)
  BY DEF Inputs, Identified
<1> HIDE DEF d
<1>2. d.raid = FALSE /\ d.key = FirstNonEmpty(d.serial, d.wwn, <<d.name>>)
  BY <1>1 DEF BlockDevice
<1> QED BY <1>1, <1>2 DEF d

\* The first device that matches.
LEMMA FirstMatch ==
    ASSUME NEW n \in Nat, NEW list, DOMAIN list = 1..n, NEW c
    PROVE  LET i == MatchBlockDevice(list, c)
           IN  \/ i = 0 /\ \A j \in 1..n : ~Matches(list[j], c)
               \/ /\ i \in 1..n /\ Matches(list[i], c)
                  /\ \A j \in 1..n : Matches(list[j], c) => i <= j
<1> DEFINE hits == {i \in DOMAIN list : Matches(list[i], c)}
<1>1. CASE hits = {}
  BY <1>1 DEF MatchBlockDevice
<1>2. CASE hits # {}
  <2>0. hits \subseteq Nat
    OBVIOUS
  <2>1. \E i \in hits : \A j \in hits : i <= j
    <3> HIDE DEF hits
    <3> QED BY <1>2, <2>0, Least
  <2>2. MatchBlockDevice(list, c) = CHOOSE i \in hits : \A j \in hits : i <= j
    BY <1>2 DEF MatchBlockDevice
  <2>3. MatchBlockDevice(list, c) \in hits /\ \A j \in hits : MatchBlockDevice(list, c) <= j
    <3> HIDE DEF hits
    <3> QED BY <2>1, <2>2
  <2> QED BY <2>3
<1> QED BY <1>1, <1>2

LEMMA CandidateSeen ==
    ASSUME NEW devices, NEW samples, NEW k \in DOMAIN samples, samples[k].ok
    PROVE  BlockDeviceFromSMART(samples[k]) \in Seen(devices, samples)
BY DEF Seen

\* What a sample is merged into is the disk the sample is of.
LEMMA MatchIsSameDisk ==
    ASSUME NEW devices, NEW samples, NEW disk, Inputs(devices, samples, disk),
           NEW k \in Nat, NEW list, Merged(devices, samples, disk, k, list),
           NEW c \in Seen(devices, samples), NEW i \in DOMAIN list, i = MatchBlockDevice(list, c),
           NEW o, Made(devices, samples, k, i, o), SameDisk(devices, samples, disk, list[i], o)
    PROVE  disk[c] = disk[o]
<1> DEFINE S == Seen(devices, samples)
<1>0. o \in S /\ list[i].name = o.name
  BY DEF SameDisk
<1>1. Matches(list[i], c) /\ \A j \in DOMAIN list : Matches(list[j], c) => i <= j
  <2>1. DOMAIN list = 1..Len(list) /\ Len(list) \in Nat
    BY DEF Merged
  <2> QED BY <2>1, FirstMatch
<1>2. CASE c.serial # None /\ c.serial = list[i].serial
  <2>1. PICK e \in S : disk[e] = disk[o] /\ e.serial = list[i].serial
    BY <1>2 DEF SameDisk
  <2> QED BY <1>2, <2>1 DEF Inputs, Presents
<1>3. CASE c.wwn # None /\ c.wwn = list[i].wwn
  <2>1. PICK e \in S : disk[e] = disk[o] /\ e.wwn = list[i].wwn
    BY <1>3 DEF SameDisk
  <2> QED BY <1>3, <2>1 DEF Inputs, Presents
<1>4. CASE c.name = list[i].name /\ ~c.raid
  <2>1. CASE ~o.raid
    BY <1>0, <1>4, <2>1 DEF Inputs, Presents
  <2>2. CASE \A j \in DOMAIN devices : devices[j].name # c.name
    BY <1>0, <1>4, <2>2 DEF Inputs, Presents
  <2>3. ASSUME NEW j \in DOMAIN devices, devices[j].name = c.name PROVE ~o.raid
    <3>0. DOMAIN devices = 1..Len(devices) /\ Len(devices) \in Nat /\ Len(devices) <= Len(list)
          /\ DOMAIN list = 1..Len(list) /\ Len(list) \in Nat
      BY DEF Inputs, Merged
    <3>1. j \in DOMAIN list /\ j <= Len(devices)
      BY <3>0
    <3>2. PICK q : Made(devices, samples, k, j, q) /\ SameDisk(devices, samples, disk, list[j], q)
      BY <3>1 DEF Merged
    <3>3. list[j].name = c.name
      BY <2>3, <3>1, <3>2 DEF Made, SameDisk
    <3>4. i <= j
      BY <1>1, <1>4, <3>1, <3>3 DEF Matches
    <3>5. i <= Len(devices) /\ i \in DOMAIN devices
      BY <3>0, <3>1, <3>4
    <3>6. o = devices[i]
      BY <3>5 DEF Made
    <3>7. devices[i].raid = FALSE
      BY <3>5, SysDevice
    <3> QED BY <3>6, <3>7
  <2> QED BY <2>1, <2>2, <2>3
<1> QED BY <1>1, <1>2, <1>3, <1>4 DEF Matches

\* A sample that matches nothing has a key of its own.
LEMMA NoMatchNewKey ==
    ASSUME NEW devices, NEW samples, NEW disk, Inputs(devices, samples, disk),
           NEW k \in Nat, NEW list, Merged(devices, samples, disk, k, list),
           k + 1 \in DOMAIN samples, samples[k + 1].ok,
           NEW c, c = BlockDeviceFromSMART(samples[k + 1]),
           \A j \in DOMAIN list : ~Matches(list[j], c), NEW i \in DOMAIN list
    PROVE  list[i].key # c.key
<1> DEFINE S == Seen(devices, samples)
           s == samples[k + 1]
<1>0. DOMAIN samples = 1..Len(samples) /\ Len(samples) \in Nat
      /\ DOMAIN devices = 1..Len(devices) /\ Len(devices) \in Nat
      /\ DOMAIN list = 1..Len(list)
  BY DEF Inputs, Merged
<1>1. c \in S
  BY CandidateSeen
<1>2. c.key = FirstNonEmpty(c.serial, c.wwn, <<s.name, s.type>>) /\ c.name = s.name
  BY DEF BlockDeviceFromSMART
<1>3. PICK o : Made(devices, samples, k, i, o) /\ SameDisk(devices, samples, disk, list[i], o)
  BY DEF Merged
<1>4. o \in S /\ list[i].key = o.key
  BY <1>3 DEF SameDisk
<1>5. PICK other : /\ o.key = FirstNonEmpty(o.serial, o.wwn, other)
                  /\ \/ other = <<o.name>>
                     \/ \E j \in 1..k : other = <<samples[j].name, samples[j].type>>
  <2>1. CASE i <= Len(devices)
    <3>1. i \in DOMAIN devices /\ o = devices[i]
      BY <1>0, <1>3, <2>1 DEF Made
    <3>2. o.key = FirstNonEmpty(o.serial, o.wwn, <<o.name>>)
      BY <3>1, SysDevice
    <3> QED BY <3>2
  <2>2. CASE ~(i <= Len(devices))
    <3>1. PICK j \in 1..k : o = BlockDeviceFromSMART(samples[j])
      BY <1>3, <2>2 DEF Made
    <3>2. o.key = FirstNonEmpty(o.serial, o.wwn, <<samples[j].name, samples[j].type>>)
      BY <3>1 DEF BlockDeviceFromSMART
    <3> QED BY <3>2
  <2> QED BY <2>1, <2>2
<1>6. other # <<s.name, s.type>>
  <2>1. ASSUME NEW j \in 1..k PROVE <<samples[j].name, samples[j].type>> # <<s.name, s.type>>
    <3>1. j \in DOMAIN samples /\ j # k + 1
      BY <1>0
    <3> QED BY <3>1 DEF Inputs, Identified
  <2> QED BY <1>5, <2>1
<1>7. /\ \A a, b \in S : a.serial # None => a.serial # b.wwn /\ a.serial # b.name
      /\ \A a, b \in S : a.wwn # None => a.wwn # b.name
  BY DEF Inputs, Identified
<1>8. \A a, b \in S : disk[a] = disk[b] => /\ None \in {a.serial, b.serial} \/ a.serial = b.serial
                                           /\ None \in {a.wwn, b.wwn} \/ a.wwn = b.wwn
  BY DEF Inputs, Presents
<1>9. ASSUME c.serial # None PROVE c.serial # o.serial
  <2> SUFFICES ASSUME o.serial = c.serial PROVE FALSE
    OBVIOUS
  <2>1. PICK e \in S : disk[e] = disk[o] /\ e.serial = list[i].serial /\ list[i].serial # None
    BY <1>3, <1>9 DEF SameDisk
  <2>2. e.serial = c.serial
    BY <1>4, <1>8, <1>9, <2>1
  <2> QED BY <1>9, <2>1, <2>2 DEF Matches
<1>10. ASSUME c.wwn # None PROVE c.wwn # o.wwn
  <2> SUFFICES ASSUME o.wwn = c.wwn PROVE FALSE
    OBVIOUS
  <2>1. PICK e \in S : disk[e] = disk[o] /\ e.wwn = list[i].wwn /\ list[i].wwn # None
    BY <1>3, <1>10 DEF SameDisk
  <2>2. e.wwn = c.wwn
    BY <1>4, <1>8, <1>10, <2>1
  <2> QED BY <1>10, <2>1, <2>2 DEF Matches
<1> HIDE DEF S, s
<1>11. CASE c.serial # None
  <2>1. c.key = <<c.serial>>
    BY <1>2, <1>11 DEF FirstNonEmpty
  <2>2. c.serial # o.wwn /\ c.serial # o.name /\ c.serial # o.serial
    BY <1>1, <1>4, <1>7, <1>9, <1>11
  <2> QED BY <1>4, <1>5, <2>1, <2>2 DEF FirstNonEmpty
<1>12. CASE c.serial = None /\ c.wwn # None
  <2>1. c.key = <<c.wwn>>
    BY <1>2, <1>12 DEF FirstNonEmpty
  <2>2. c.wwn # o.wwn /\ c.wwn # o.name /\ (o.serial # None => c.wwn # o.serial)
    BY <1>1, <1>4, <1>7, <1>10, <1>12
  <2> QED BY <1>4, <1>5, <2>1, <2>2 DEF FirstNonEmpty
<1>13. CASE c.serial = None /\ c.wwn = None
  <2>1. c.key = <<s.name, s.type>>
    BY <1>2, <1>13 DEF FirstNonEmpty
  <2> QED BY <1>4, <1>5, <1>6, <2>1 DEF FirstNonEmpty
<1> QED BY <1>11, <1>12, <1>13

\* One turn of mergeSMARTSamples keeps the keys apart.
LEMMA MergeKeeps ==
    ASSUME NEW devices, NEW samples, NEW disk, Inputs(devices, samples, disk),
           NEW k \in Nat, NEW list, Merged(devices, samples, disk, k, list),
           k + 1 \in DOMAIN samples, samples[k + 1].ok
    PROVE  LET c == BlockDeviceFromSMART(samples[k + 1])
               i == MatchBlockDevice(list, c)
               next == IF i = 0 THEN Append(list, c)
                       ELSE [list EXCEPT ![i] = MergeBlockDevice(list[i], c)]
           IN  /\ Merged(devices, samples, disk, k + 1, next)
               /\ \A j \in DOMAIN list : j \in DOMAIN next /\ next[j].key = list[j].key
               /\ IF i = 0 THEN Len(next) \in DOMAIN next /\ next[Len(next)].key = c.key
                  ELSE i \in DOMAIN list
<1> DEFINE S == Seen(devices, samples)
           R == Row(devices, samples)
           c == BlockDeviceFromSMART(samples[k + 1])
           i == MatchBlockDevice(list, c)
           n == Len(list)
<1>0. n \in Nat /\ DOMAIN list = 1..n /\ list \in Seq(R) /\ Len(devices) <= n
      /\ Len(devices) \in Nat
  BY DEF Merged, Inputs
<1>1. c \in S /\ c \in R
  <2>1. c \in S
    BY CandidateSeen
  <2>2. c = [key |-> c.key, name |-> c.name, serial |-> c.serial, wwn |-> c.wwn, raid |-> c.raid]
        /\ c.raid \in BOOLEAN
    BY DEF BlockDeviceFromSMART, IsRAIDSMARTType
  <2> HIDE DEF c
  <2> QED BY <2>1, <2>2 DEF Row
<1>2. \/ i = 0 /\ \A j \in 1..n : ~Matches(list[j], c)
      \/ i \in 1..n
  BY <1>0, FirstMatch
<1>3. \A j \in DOMAIN list : \E o : /\ Made(devices, samples, k, j, o)
                                    /\ SameDisk(devices, samples, disk, list[j], o)
  BY DEF Merged
<1>4. \A j, o : Made(devices, samples, k, j, o) => Made(devices, samples, k + 1, j, o)
  BY DEF Made
<1>5. \A a, b \in DOMAIN list : a # b => list[a].key # list[b].key
  BY DEF Merged
<1>6. CASE i = 0
  <2> DEFINE next == Append(list, c)
  <2>1. \A j \in DOMAIN list : list[j].key # c.key
    BY <1>0, <1>2, <1>6, NoMatchNewKey
  <2>2. Made(devices, samples, k + 1, n + 1, c)
    BY <1>0 DEF Made
  <2>3. SameDisk(devices, samples, disk, c, c)
    BY <1>1 DEF SameDisk
  <2> HIDE DEF S, R, c, n
  <2>4. /\ next \in Seq(R) /\ Len(next) = n + 1 /\ DOMAIN next = 1..(n + 1)
        /\ \A j \in 1..n : next[j] = list[j]
        /\ next[n + 1] = c
    BY <1>0, <1>1 DEF n
  <2> HIDE DEF next
  <2>5. \A j \in DOMAIN next : \E o : /\ Made(devices, samples, k + 1, j, o)
                                      /\ SameDisk(devices, samples, disk, next[j], o)
    <3> TAKE j \in DOMAIN next
    <3>1. CASE j \in 1..n
      BY <1>0, <1>3, <1>4, <2>4, <3>1
    <3>2. CASE j = n + 1
      BY <2>2, <2>3, <2>4, <3>2
    <3> QED BY <1>0, <2>4, <3>1, <3>2
  <2>6. \A a, b \in DOMAIN next : a # b => next[a].key # next[b].key
    <3> SUFFICES ASSUME NEW a \in 1..(n + 1), NEW b \in 1..(n + 1), a # b
                 PROVE  next[a].key # next[b].key
      BY <2>4
    <3>1. CASE a \in 1..n /\ b \in 1..n
      BY <1>0, <1>5, <2>4, <3>1
    <3>2. CASE a \in 1..n /\ b = n + 1
      BY <1>0, <2>1, <2>4, <3>2
    <3>3. CASE b \in 1..n /\ a = n + 1
      BY <1>0, <2>1, <2>4, <3>3
    <3> QED BY <1>0, <3>1, <3>2, <3>3
  <2>7. Merged(devices, samples, disk, k + 1, next)
    BY <1>0, <2>4, <2>5, <2>6 DEF Merged, R
  <2> QED BY <1>0, <1>6, <2>4, <2>7 DEF next, c
<1>7. CASE i \in 1..n
  <2> DEFINE merged == MergeBlockDevice(list[i], c)
             next == [list EXCEPT ![i] = merged]
  <2>1. PICK o : Made(devices, samples, k, i, o) /\ SameDisk(devices, samples, disk, list[i], o)
    BY <1>0, <1>3, <1>7
  <2>2. disk[c] = disk[o]
    BY <1>0, <1>1, <1>7, <2>1, MatchIsSameDisk
  <2> HIDE DEF i, c, S, n
  <2>3. list[i] \in R
    BY <1>0, <1>7
  <2>4. /\ merged \in R /\ merged.key = list[i].key /\ merged.name = list[i].name
        /\ merged.serial = IF c.serial = None THEN list[i].serial ELSE c.serial
        /\ merged.wwn = IF c.wwn = None THEN list[i].wwn ELSE c.wwn
    <3> USE DEF R, Row, MergeBlockDevice
    <3>1. c \in Row(devices, samples) /\ list[i] \in Row(devices, samples)
      BY <1>1, <2>3
    <3> QED BY <3>1
  <2> HIDE DEF merged, R
  <2>5. SameDisk(devices, samples, disk, merged, o)
    BY <1>1, <2>1, <2>2, <2>4 DEF SameDisk, S
  <2>6. /\ next \in Seq(R) /\ Len(next) = n /\ DOMAIN next = 1..n
        /\ next[i] = merged /\ \A j \in 1..n : j # i => next[j] = list[j]
    BY <1>0, <1>7, <2>4 DEF n
  <2> HIDE DEF next
  <2>7. \A j \in 1..n : next[j].key = list[j].key
    BY <2>4, <2>6
  <2>8. \A j \in DOMAIN next : \E q : /\ Made(devices, samples, k + 1, j, q)
                                      /\ SameDisk(devices, samples, disk, next[j], q)
    <3> TAKE j \in DOMAIN next
    <3>1. CASE j = i
      BY <1>4, <2>1, <2>5, <2>6, <3>1
    <3>2. CASE j # i
      BY <1>0, <1>3, <1>4, <2>6, <3>2
    <3> QED BY <3>1, <3>2
  <2>9. Merged(devices, samples, disk, k + 1, next)
    BY <1>0, <1>5, <2>6, <2>7, <2>8 DEF Merged, R
  <2>10. i # 0
    BY <1>0, <1>7
  <2> QED BY <1>0, <1>7, <2>6, <2>7, <2>9, <2>10 DEF next, merged, i, c
<1> QED BY <1>2, <1>6, <1>7

\* Whatever the scan, as long as the disks identify themselves.
LEMMA DisksDiffer ==
    ASSUME NEW devices, devices \in Seq(Range(devices)), NEW samples, samples \in Seq(Range(samples)),
           Identified(devices, samples)
    PROVE  KeysValid(MergeSMARTSamples(devices, samples))
<1> DEFINE n == Len(samples)
           S == Seen(devices, samples)
           Keys(list) == {list[i].key : i \in DOMAIN list}
<1>0. n \in Nat /\ DOMAIN samples = 1..n
  OBVIOUS
<1>1. PICK disk : Inputs(devices, samples, disk)
  BY DEF Inputs, Identified
<1>2. PICK r : /\ Loop("disks", [devices |-> devices, health |-> {}], samples, n, r)
               /\ MergeSMARTSamples(devices, samples) = r[n]
  BY MergeLoop
<1> DEFINE N == {k \in Nat : k <= n => /\ Merged(devices, samples, disk, k, r[k].devices)
                                       /\ r[k].health \subseteq Keys(r[k].devices)}
<1>3. 0 \in N
  <2>1. r[0].devices = devices /\ r[0].health = {}
    BY <1>2 DEF Loop
  <2>2. DOMAIN devices = 1..Len(devices) /\ Len(devices) \in Nat
    OBVIOUS
  <2>3. ASSUME NEW i \in DOMAIN devices
        PROVE  /\ devices[i] \in Row(devices, samples)
               /\ Made(devices, samples, 0, i, devices[i])
               /\ SameDisk(devices, samples, disk, devices[i], devices[i])
    <3> DEFINE d == devices[i]
    <3>1. d \in S
      BY DEF Seen
    <3>2. d = BlockDevice(d.name, d.serial, d.wwn)
      BY <1>1, SysDevice
    <3>3. Made(devices, samples, 0, i, d)
      BY <2>2 DEF Made
    <3> HIDE DEF d
    <3>4. d = [key |-> d.key, name |-> d.name, serial |-> d.serial, wwn |-> d.wwn, raid |-> d.raid]
          /\ d.raid \in BOOLEAN
      <4> DEFINE b(name, serial, wwn) == BlockDevice(name, serial, wwn)
      <4>1. \A name, serial, wwn :
               /\ b(name, serial, wwn) =
                    [key |-> b(name, serial, wwn).key, name |-> b(name, serial, wwn).name,
                     serial |-> b(name, serial, wwn).serial, wwn |-> b(name, serial, wwn).wwn,
                     raid |-> b(name, serial, wwn).raid]
               /\ b(name, serial, wwn).raid \in BOOLEAN
        BY DEF BlockDevice
      <4> HIDE DEF b
      <4>2. d = b(d.name, d.serial, d.wwn)
        BY <3>2 DEF b
      <4> QED BY <4>1, <4>2
    <3>5. d \in Row(devices, samples)
      <4>1. /\ d.key \in {e.key : e \in S} /\ d.name \in {e.name : e \in S}
            /\ d.serial \in {None} \cup {e.serial : e \in S} /\ d.wwn \in {None} \cup {e.wwn : e \in S}
        BY <3>1
      <4> QED BY <3>4, <4>1 DEF Row
    <3>6. SameDisk(devices, samples, disk, d, d)
      BY <3>1 DEF SameDisk
    <3> QED BY <3>3, <3>5, <3>6 DEF d
  <2>4. devices \in Seq(Row(devices, samples))
    BY <2>2, <2>3
  <2>5. \A i, j \in DOMAIN devices : i # j => devices[i].key # devices[j].key
    BY DEF Identified
  <2>6. Merged(devices, samples, disk, 0, devices)
    BY <2>2, <2>3, <2>4, <2>5 DEF Merged
  <2> QED BY <2>1, <2>6
<1>4. ASSUME NEW k \in Nat, k \in N PROVE k + 1 \in N
  <2> SUFFICES ASSUME k + 1 <= n
               PROVE  /\ Merged(devices, samples, disk, k + 1, r[k + 1].devices)
                      /\ r[k + 1].health \subseteq Keys(r[k + 1].devices)
    OBVIOUS
  <2> DEFINE m == r[k]
             list == m.devices
             c == BlockDeviceFromSMART(samples[k + 1])
             i == MatchBlockDevice(list, c)
             next == IF i = 0 THEN Append(list, c)
                     ELSE [list EXCEPT ![i] = MergeBlockDevice(list[i], c)]
  <2>1. Merged(devices, samples, disk, k, list) /\ m.health \subseteq Keys(list)
    BY <1>0, <1>4
  <2>2. k + 1 \in 1..n /\ (k + 1) - 1 = k
    BY <1>0
  <2>3. r[k + 1] = MergeSample(m, samples[k + 1])
    BY <1>2, <2>2 DEF Loop, Turn
  <2>4. CASE ~samples[k + 1].ok
    <3>1. r[k + 1] = m
      BY <2>3, <2>4 DEF MergeSample
    <3>2. Merged(devices, samples, disk, k + 1, list)
      BY <2>1 DEF Merged, Made
    <3> QED BY <2>1, <3>1, <3>2
  <2>5. CASE samples[k + 1].ok
    <3>1. /\ Merged(devices, samples, disk, k + 1, next)
          /\ \A j \in DOMAIN list : j \in DOMAIN next /\ next[j].key = list[j].key
          /\ IF i = 0 THEN Len(next) \in DOMAIN next /\ next[Len(next)].key = c.key
             ELSE i \in DOMAIN list
      <4>1. k + 1 \in DOMAIN samples
        BY <1>0, <2>2
      <4> HIDE DEF list
      <4> QED BY <1>1, <2>1, <2>5, <4>1, MergeKeeps
    <3>2. /\ r[k + 1].devices = next
          /\ r[k + 1].health = m.health \cup {IF i = 0 THEN c.key ELSE list[i].key}
      BY <2>3, <2>5 DEF MergeSample
    <3> HIDE DEF next, c, i, list, m
    <3>3. Keys(list) \subseteq Keys(next)
      BY <3>1
    <3>4. (IF i = 0 THEN c.key ELSE list[i].key) \in Keys(next)
      BY <3>1, <3>3
    <3> QED BY <2>1, <3>1, <3>2, <3>3, <3>4
  <2> QED BY <2>4, <2>5
<1>5. n \in N
  <2>1. \A k \in Nat : k \in N
    <3> HIDE DEF N
    <3> QED BY <1>3, <1>4, Induction
  <2> QED BY <1>0, <2>1
<1>6. Merged(devices, samples, disk, n, r[n].devices) /\ r[n].health \subseteq Keys(r[n].devices)
  BY <1>0, <1>5
<1> QED BY <1>2, <1>6 DEF KeysValid, Merged

-----------------------------------------------------------------------------
(***************************************************************************)
(* The report while it is collected and sent.                              *)
(***************************************************************************)

LEMMA DisksValid ==
    ASSUME DisksIdentified
    PROVE  /\ "linux" \in Platforms => \A m \in LinuxDisks : m.valid = TRUE
           /\ "windows" \in Platforms => \A m \in WindowsDisks : m.valid = TRUE
<1>1. SysBlock \in Seq(Range(SysBlock)) /\ \A scan \in Scans : scan \in Seq(Range(scan))
  BY CollectorAssumption
<1>2. <<>> \in Seq(Range(<<>>))
  OBVIOUS
<1>3. ASSUME "linux" \in Platforms, NEW m \in LinuxDisks PROVE m.valid = TRUE
  <2>1. PICK scan \in Scans : m.valid = KeysValid(MergeSMARTSamples(SysBlock, scan))
    BY DEF LinuxDisks, Inventory
  <2>2. Identified(SysBlock, scan)
    BY <1>3 DEF DisksIdentified
  <2>3. KeysValid(MergeSMARTSamples(SysBlock, scan))
    BY <1>1, <2>2, DisksDiffer
  <2> QED BY <2>1, <2>3, KeysBoolean
<1>4. ASSUME "windows" \in Platforms, NEW m \in WindowsDisks PROVE m.valid = TRUE
  <2>1. PICK scan \in Scans : m.valid = KeysValid(MergeSMARTSamples(<<>>, scan))
    BY DEF WindowsDisks, Inventory
  <2>2. Identified(<<>>, scan)
    BY <1>4 DEF DisksIdentified
  <2>3. KeysValid(MergeSMARTSamples(<<>>, scan))
    BY <1>1, <1>2, <2>2, DisksDiffer
  <2> QED BY <2>1, <2>3, KeysBoolean
<1> QED BY <1>3, <1>4

LEMMA StampValid ==
    ASSUME TypeOK, NEW at \in 0..MaxTime, draft.valid
    PROVE  Stamp(draft, at).valid = TRUE
<1> DEFINE interval == IF last = None THEN 1 ELSE Clamped(at - last)
<1>1. MaxInterval \in Nat /\ 1 <= MaxInterval
  BY CollectorAssumption
<1>2. last # None => last \in Int
  BY DEF TypeOK
<1>3. \A x \in Int : Clamped(x) \in 1..MaxInterval
  BY <1>1 DEF Clamped
<1>4. interval \in 1..MaxInterval
  BY <1>1, <1>2, <1>3
<1>5. Stamp(draft, at).valid = (draft.valid /\ interval \in 1..MaxInterval)
  BY DEF Stamp, TypeOK, Report
<1> HIDE DEF interval
<1> QED BY <1>4, <1>5

\* The report of a read is as valid as the one it extends.
LEMMA ReadValid ==
    ASSUME NEW D, NEW value, NEW report \in Report, report.valid = TRUE, Read(D, value, report)
    PROVE  draft'.valid = TRUE
BY DEF Read, Report

LEMMA NextDraftValid ==
    ASSUME DisksIdentified, ValidInv, [Next]_vars
    PROVE  DraftValid'
<1>0. TypeOK /\ ReportTimed /\ platform \in Platforms /\ draft \in Report
  BY DEF ValidInv, TypeOK
<1>a. pc \in Collecting \cup Sending => draft.valid
  BY DEF ValidInv, DraftValid
<1>1. CASE Host \/ Serve \/ Tick \/ UNCHANGED vars
  <2>1. UNCHANGED <<pc, draft>>
    BY <1>1 DEF Host, Serve, Accept, Reject, FailRequest, CommitLate, Tick, vars, collectorVars
  <2> QED BY <1>a, <2>1 DEF DraftValid
<1>2. CASE Deliver \/ Restart
  <2>1. \/ pc \in Sending /\ draft' = draft
        \/ pc' = "waiting"
    BY <1>2 DEF Deliver, Restart, StartAttempt, AttemptFails, AnswerArrives, NextAttempt, Done, Sending
  <2> QED BY <1>a, <2>1 DEF DraftValid, Collecting, Sending
<1>3. CASE StartCollect
  <2>1. draft'.valid = TRUE
    BY <1>3 DEF StartCollect, Nothing
  <2> QED BY <2>1 DEF DraftValid
<1>4. CASE FailCollect
  BY <1>4 DEF FailCollect, DraftValid, Collecting, Sending
<1>5. CASE CollectDisk
  <2>1. PICK m \in LinuxDisks :
          /\ platform = "linux"
          /\ Read((Disk \cap m.names) \ absent, counter, [draft EXCEPT !.valid = m.valid])
    BY <1>5 DEF CollectDisk
  <2> DEFINE names == (Disk \cap m.names) \ absent
             report == [draft EXCEPT !.valid = m.valid]
  <2>2. Read(names, counter, report)
    BY <2>1
  <2>3. m.valid = TRUE
    BY <1>0, <2>1, DisksValid
  <2>4. report \in Report /\ report.valid = TRUE
    BY <1>0, <2>3 DEF Report
  <2> HIDE DEF names, report
  <2> QED BY <2>2, <2>4, ReadValid DEF DraftValid
<1>6. CASE ListInterfaces
  <2>1. PICK valid \in Filesystems :
          draft' = [draft EXCEPT !.listed = Net \ absent,
                                 !.valid = @ /\ (platform = "linux" => valid)]
    BY <1>6 DEF ListInterfaces
  <2>2. PICK partitions \in Mounts : valid = FilesystemsValid(CollectFilesystemStats(partitions))
    BY DEF Filesystems
  <2>3. valid
    BY <2>2, FilesystemsDiffer, CollectorAssumption
  <2>4. draft.valid
    BY <1>6, <1>a DEF ListInterfaces, Collecting
  <2>5. draft'.valid = (draft.valid /\ (platform = "linux" => valid))
    BY <1>0, <2>1 DEF Report
  <2> QED BY <2>3, <2>4, <2>5 DEF DraftValid
<1>7. CASE FinishLinux
  <2>1. now \in 0..MaxTime /\ draft.valid
    BY <1>0, <1>7, <1>a DEF FinishLinux, Collecting, TypeOK
  <2>2. Stamp(draft, now) \in Report /\ Stamp(draft, now).valid = TRUE
    BY <1>0, <2>1, StampedReport, StampValid
  <2>3. \E value : Read(draft.listed, value, Stamp(draft, now))
    BY <1>7 DEF FinishLinux
  <2> QED BY <2>2, <2>3, ReadValid DEF DraftValid
<1>8. CASE FinishWindows
  <2>0. pc = "listed" /\ platform = "windows"
    BY <1>8 DEF FinishWindows
  <2>1. PICK rows \in WindowsRows, m \in WindowsDisks :
          Read(rows, counter, [Stamp(draft, draft.minute) EXCEPT !.valid = @ /\ m.valid])
    BY <1>8 DEF FinishWindows
  <2>2. draft.minute \in 0..MaxTime /\ draft.valid
    BY <1>0, <1>a, <2>0 DEF ReportTimed, Collecting
  <2> DEFINE stamped == Stamp(draft, draft.minute)
             report == [stamped EXCEPT !.valid = stamped.valid /\ m.valid]
  <2>3. stamped \in Report /\ stamped.valid = TRUE
    BY <1>0, <2>2, StampedReport, StampValid
  <2>4. m.valid = TRUE
    BY <1>0, <2>0, DisksValid
  <2>5. Read(rows, counter, report)
    BY <2>1
  <2>6. report \in Report /\ report.valid = TRUE
    <3> HIDE DEF stamped
    <3>1. (stamped.valid /\ m.valid) = TRUE
      BY <2>3, <2>4
    <3> QED BY <2>3, <3>1 DEF Report
  <2> HIDE DEF report, stamped
  <2> QED BY <2>5, <2>6, ReadValid DEF DraftValid
<1> QED BY <1>1, <1>2, <1>3, <1>4, <1>5, <1>6, <1>7, <1>8 DEF Next, Collect

LEMMA InitValid == Init => ValidInv
BY InitTraffic DEF TrafficInv, ValidInv, Init, CollectorInit, DraftValid, Collecting, Sending

LEMMA PlatformStays ==
    ASSUME [Next]_vars
    PROVE  platform' = platform
<1>1. CASE Host
  BY <1>1 DEF Host, Traffic, Detach, Return, Reset
<1>2. CASE Collect
  BY <1>2 DEF Collect, StartCollect, FailCollect, CollectDisk, ListInterfaces, FinishLinux,
              FinishWindows, hostVars
<1>3. CASE Deliver \/ Serve \/ Restart
  BY <1>3 DEF Deliver, StartAttempt, AttemptFails, AnswerArrives, Serve, Accept, Reject, FailRequest,
              CommitLate, Restart, hostVars
<1>4. CASE Tick \/ UNCHANGED vars
  BY <1>4 DEF Tick, vars, hostVars
<1> QED BY <1>1, <1>2, <1>3, <1>4 DEF Next

-----------------------------------------------------------------------------
\* The variables have their types, whatever the host and the service do.
THEOREM AgentTypeCorrect == Spec => []TypeOK
<1>1. Init => TypeOK /\ ReportTimed /\ WindowsCounters
  BY InitTraffic DEF TrafficInv
<1>2. TypeOK /\ ReportTimed /\ WindowsCounters /\ [Next]_vars
      => TypeOK' /\ ReportTimed' /\ WindowsCounters'
  BY NextTyped
<1> QED BY <1>1, <1>2, PTL DEF Spec

\* However many devices, minutes, reports, attempts and restarts there are, and
\* whatever the width of the counters: what is stored for a device is traffic
\* that there was, plus at most a wrap for each reset on Windows and the counters
\* of an interface each time it vanishes during a collection on Linux
\* (Collector.Collect, counterDelta, counterDelta32, Client.Send, Store.Ingest).
THEOREM NothingCountedTwice == Spec => []TrafficConserved
<1>1. TrafficInv /\ [Next]_vars => TrafficInv'
  BY NextTyped, NextShared DEF TrafficInv, TrafficShared
<1> QED BY <1>1, InitTraffic, SharesConserve, PTL DEF Spec

\* However many disks, controllers and mounts there are, whatever smartctl answers
\* and whenever the last collection was: the report passes the validation of its
\* keys and its interval (mergeSMARTSamples, collectFilesystemStats,
\* Collector.Collect, validateInventory), as long as the disks identify
\* themselves.
THEOREM ReportsPassValidation == DisksIdentified => (Spec => []ReportsValid)
<1> SUFFICES ASSUME DisksIdentified PROVE Spec => []ReportsValid
  OBVIOUS
<1>1. ValidInv /\ [Next]_vars => ValidInv'
  BY NextTyped, NextDraftValid, PlatformStays DEF ValidInv
<1>2. ValidInv => ReportsValid
  BY DEF ValidInv, DraftValid, ReportsValid, Sending
<1> QED BY <1>1, <1>2, InitValid, PTL DEF Spec
============================================================================
