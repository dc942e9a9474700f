------------------------- MODULE AgentUpdateProofs -------------------------
(***************************************************************************)
(* Compare is a strict total order of all versions: it is what "newer"     *)
(* means for the updates, over any number of them.  From it,               *)
(* NeverDowngraded for any number of processes, versions, deployments and  *)
(* crashes.                                                                *)
(***************************************************************************)
EXTENDS AgentUpdate, WellFoundedInduction, TLAPS

-----------------------------------------------------------------------------
(***************************************************************************)
(* Identifiers.                                                            *)
(***************************************************************************)

\* A set of numbers that is not empty has a smallest one, which Smallest chooses.
LEMMA SmallestIsLeast ==
    ASSUME NEW T, T \subseteq Nat, T # {}
    PROVE  Smallest(T) \in T /\ \A j \in T : Smallest(T) <= j
<1> DEFINE R == {ss \in Nat \X Nat : ss[1] < ss[2]}
<1>0. IsWellFoundedOn(R, Nat)
  BY NatLessThanWellFounded, Zenon DEF OpToRel
<1>1. PICK x \in T : \A y \in T : ~(<<y, x>> \in R)
  <2> HIDE DEF R
  <2> QED BY <1>0, WFMin
<1>2. \A y \in T : x <= y
  <2> TAKE y \in T
  <2>1. x \in Nat /\ y \in Nat
    OBVIOUS
  <2>2. y < x => <<y, x>> \in R
    BY <2>1
  <2> HIDE DEF R
  <2> QED BY <1>1, <2>1, <2>2
<1> QED BY <1>2 DEF Smallest

\* CompareIdentifier compares three ways.
LEMMA IdentifierRange ==
    ASSUME NEW x \in Identifier, NEW y \in Identifier
    PROVE  CompareIdentifier(x, y) \in {-1, 0, 1}
BY DEF CompareIdentifier, CompareInt

\* Only the same identifier compares as equal.
LEMMA IdentifierEqual ==
    ASSUME NEW x \in Identifier, NEW y \in Identifier
    PROVE  CompareIdentifier(x, y) = 0 <=> x = y
BY DEF CompareIdentifier, CompareInt, Identifier

\* Exchanging the identifiers turns the result round.
LEMMA IdentifierTurned ==
    ASSUME NEW x \in Identifier, NEW y \in Identifier
    PROVE  CompareIdentifier(x, y) = 1 <=> CompareIdentifier(y, x) = -1
BY DEF CompareIdentifier, CompareInt, Identifier

\* The order of identifiers is transitive.
LEMMA IdentifierTransitive ==
    ASSUME NEW x \in Identifier, NEW y \in Identifier, NEW z \in Identifier,
           CompareIdentifier(x, y) = -1, CompareIdentifier(y, z) = -1
    PROVE  CompareIdentifier(x, z) = -1
BY DEF CompareIdentifier, CompareInt, Identifier

-----------------------------------------------------------------------------
(***************************************************************************)
(* Prereleases.                                                            *)
(***************************************************************************)

\* l and r agree before i and l is smaller there.
SmallerAt(l, r, i) ==
    /\ i \in 1..Len(l) /\ i \in 1..Len(r)
    /\ \A j \in 1..(i - 1) : l[j] = r[j]
    /\ CompareIdentifier(l[i], r[i]) = -1

\* l and r agree as far as both go.
Agree(l, r) == \A j \in (1..Len(l)) \cap (1..Len(r)) : l[j] = r[j]

\* l is shorter than r, where the empty sequence counts as the longest.
Shorter(l, r) == l # <<>> /\ (r = <<>> \/ Len(l) < Len(r))

Before(l, r) == (\E i \in Nat : SmallerAt(l, r, i)) \/ (Agree(l, r) /\ Shorter(l, r))

\* ComparePrerelease, without CHOOSE.
LEMMA PrereleaseCases ==
    ASSUME NEW l \in Seq(Identifier), NEW r \in Seq(Identifier)
    PROVE  /\ ComparePrerelease(l, r) \in {-1, 0, 1}
           /\ ComparePrerelease(l, r) = -1 => Before(l, r)
           /\ ComparePrerelease(l, r) = 1 => Before(r, l)
           /\ ComparePrerelease(l, r) = 0 => l = r
<1> DEFINE common == (1..Len(l)) \cap (1..Len(r))
           differ == {i \in common : CompareIdentifier(l[i], r[i]) # 0}
           m == Smallest(differ)
<1>0. /\ Len(l) \in Nat /\ Len(r) \in Nat /\ common \subseteq Nat /\ differ \subseteq common
      /\ \A i \in common : l[i] \in Identifier /\ r[i] \in Identifier
  OBVIOUS
<1>1. CASE differ # {}
  <2>1. m \in differ /\ \A j \in differ : m <= j
    BY <1>0, <1>1, SmallestIsLeast
  <2>2. ComparePrerelease(l, r) = CompareIdentifier(l[m], r[m])
    BY <1>1 DEF ComparePrerelease
  <2>3. m \in common /\ m \in Nat /\ CompareIdentifier(l[m], r[m]) # 0
    BY <2>1, <1>0
  <2>4. \A j \in 1..(m - 1) : l[j] = r[j]
    <3> TAKE j \in 1..(m - 1)
    <3>1. j \in common /\ j < m
      BY <2>3, <1>0
    <3>2. CompareIdentifier(l[j], r[j]) = 0
      BY <2>1, <3>1, <1>0
    <3> QED BY <3>1, <3>2, <1>0, IdentifierEqual
  <2>5. CompareIdentifier(l[m], r[m]) \in {-1, 1}
    BY <2>3, <1>0, IdentifierRange
  <2>6. CompareIdentifier(l[m], r[m]) = -1 => SmallerAt(l, r, m)
    BY <2>3, <2>4 DEF SmallerAt
  <2>7. CompareIdentifier(l[m], r[m]) = 1 => SmallerAt(r, l, m)
    <3>1. CompareIdentifier(l[m], r[m]) = 1 => CompareIdentifier(r[m], l[m]) = -1
      BY <2>3, <1>0, IdentifierTurned
    <3> QED BY <3>1, <2>3, <2>4 DEF SmallerAt
  <2> HIDE DEF m, differ, common
  <2> QED BY <2>2, <2>3, <2>5, <2>6, <2>7 DEF Before
<1>2. CASE differ = {}
  <2>1. \A j \in common : l[j] = r[j]
    BY <1>2, <1>0, IdentifierEqual
  <2>2. ComparePrerelease(l, r) = IF l = <<>> \/ r = <<>> THEN CompareInt(Len(r), Len(l))
                                  ELSE CompareInt(Len(l), Len(r))
    BY <1>2 DEF ComparePrerelease
  <2>3. Agree(l, r) /\ Agree(r, l)
    BY <2>1 DEF Agree
  <2>4. (l = <<>> <=> Len(l) = 0) /\ (r = <<>> <=> Len(r) = 0)
    OBVIOUS
  <2>5. Len(l) = Len(r) => l = r
    BY <2>1, <1>0
  <2> HIDE DEF differ, common
  <2> QED BY <1>0, <2>2, <2>3, <2>4, <2>5 DEF CompareInt, Before, Shorter
<1> QED BY <1>1, <1>2

\* Before excludes its converse and equality.
LEMMA BeforeAsymmetric ==
    ASSUME NEW l \in Seq(Identifier), NEW r \in Seq(Identifier), Before(l, r)
    PROVE  ~Before(r, l)
<1>0. Len(l) \in Nat /\ Len(r) \in Nat
  OBVIOUS
<1>1. ASSUME NEW i \in Nat, NEW k \in Nat, SmallerAt(l, r, i), SmallerAt(r, l, k) PROVE FALSE
  <2>1. l[i] \in Identifier /\ r[i] \in Identifier /\ l[k] \in Identifier /\ r[k] \in Identifier
    BY <1>1 DEF SmallerAt
  <2>2. i = k
    <3>1. CompareIdentifier(l[i], r[i]) # 0 /\ CompareIdentifier(r[k], l[k]) # 0
      BY <1>1 DEF SmallerAt
    <3>2. l[i] # r[i] /\ l[k] # r[k]
      BY <3>1, <2>1, IdentifierEqual
    <3> QED BY <3>2, <1>1 DEF SmallerAt
  <2> QED BY <2>1, <2>2, <1>1, IdentifierTurned DEF SmallerAt
<1>2. ASSUME NEW i \in Nat, SmallerAt(l, r, i), Agree(r, l) PROVE FALSE
  <2>1. l[i] = r[i] /\ l[i] \in Identifier /\ r[i] \in Identifier
    BY <1>2 DEF SmallerAt, Agree
  <2> QED BY <2>1, <1>2, IdentifierEqual DEF SmallerAt
<1>3. ASSUME NEW k \in Nat, SmallerAt(r, l, k), Agree(l, r) PROVE FALSE
  <2>1. l[k] = r[k] /\ l[k] \in Identifier /\ r[k] \in Identifier
    BY <1>3 DEF SmallerAt, Agree
  <2> QED BY <2>1, <1>3, IdentifierEqual DEF SmallerAt
<1>4. ~(Shorter(l, r) /\ Shorter(r, l))
  BY <1>0 DEF Shorter
<1> QED BY <1>1, <1>2, <1>3, <1>4 DEF Before

\* Before is transitive.
LEMMA BeforeTransitive ==
    ASSUME NEW a \in Seq(Identifier), NEW b \in Seq(Identifier), NEW c \in Seq(Identifier),
           Before(a, b), Before(b, c)
    PROVE  Before(a, c)
<1>0. Len(a) \in Nat /\ Len(b) \in Nat /\ Len(c) \in Nat
  OBVIOUS
<1>1. ASSUME NEW i \in Nat, NEW k \in Nat, SmallerAt(a, b, i), SmallerAt(b, c, k)
      PROVE  Before(a, c)
  <2>1. CASE i < k
    <3>1. SmallerAt(a, c, i)
      BY <1>0, <1>1, <2>1 DEF SmallerAt
    <3> QED BY <3>1 DEF Before
  <2>2. CASE k < i
    <3>1. SmallerAt(a, c, k)
      BY <1>0, <1>1, <2>2 DEF SmallerAt
    <3> QED BY <3>1 DEF Before
  <2>3. CASE i = k
    <3>1. a[i] \in Identifier /\ b[i] \in Identifier /\ c[i] \in Identifier
      BY <1>1, <2>3 DEF SmallerAt
    <3>2. CompareIdentifier(a[i], c[i]) = -1
      BY <3>1, <1>1, <2>3, IdentifierTransitive DEF SmallerAt
    <3>3. SmallerAt(a, c, i)
      BY <3>2, <1>1, <2>3 DEF SmallerAt
    <3> QED BY <3>3 DEF Before
  <2> QED BY <2>1, <2>2, <2>3
<1>2. ASSUME NEW i \in Nat, SmallerAt(a, b, i), Agree(b, c), Shorter(b, c)
      PROVE  Before(a, c)
  <2>1. CASE c = <<>>
    BY <1>0, <1>2, <2>1 DEF SmallerAt, Before, Agree, Shorter
  <2>2. CASE c # <<>>
    <3>1. SmallerAt(a, c, i)
      BY <1>0, <1>2, <2>2 DEF SmallerAt, Agree, Shorter
    <3> QED BY <3>1 DEF Before
  <2> QED BY <2>1, <2>2
<1>3. ASSUME NEW k \in Nat, Agree(a, b), Shorter(a, b), SmallerAt(b, c, k)
      PROVE  Before(a, c)
  <2>0. Len(a) < Len(b) /\ a # <<>>
    BY <1>0, <1>3 DEF Shorter, SmallerAt
  <2>1. CASE k <= Len(a)
    <3>1. SmallerAt(a, c, k)
      BY <1>0, <1>3, <2>0, <2>1 DEF SmallerAt, Agree
    <3> QED BY <3>1 DEF Before
  <2>2. CASE k > Len(a)
    <3>1. Agree(a, c)
      BY <1>0, <1>3, <2>0, <2>2 DEF SmallerAt, Agree
    <3>2. Shorter(a, c)
      BY <1>0, <1>3, <2>0, <2>2 DEF SmallerAt, Shorter
    <3> QED BY <3>1, <3>2 DEF Before
  <2> QED BY <2>1, <2>2, <1>0
<1>4. ASSUME Agree(a, b), Shorter(a, b), Agree(b, c), Shorter(b, c)
      PROVE  Before(a, c)
  <2>1. Len(a) < Len(b) /\ a # <<>> /\ (c = <<>> \/ Len(b) < Len(c))
    BY <1>0, <1>4 DEF Shorter
  <2>2. Agree(a, c)
    BY <1>0, <1>4, <2>1 DEF Agree
  <2> QED BY <1>0, <2>1, <2>2 DEF Before, Shorter
<1> QED BY <1>1, <1>2, <1>3, <1>4 DEF Before

-----------------------------------------------------------------------------
(***************************************************************************)
(* Versions.                                                               *)
(***************************************************************************)

\* The numbers decide at i.
NumbersAt(l, r, i) ==
    /\ i \in 1..3
    /\ \A j \in 1..(i - 1) : l.numbers[j] = r.numbers[j]
    /\ l.numbers[i] < r.numbers[i]

Precedes(l, r) ==
    \/ \E i \in 1..3 : NumbersAt(l, r, i)
    \/ l.numbers = r.numbers /\ Before(l.prerelease, r.prerelease)

\* The parts of a version.
LEMMA VersionParts ==
    ASSUME NEW v \in Version
    PROVE  /\ v.numbers \in [1..3 -> Nat]
           /\ v.prerelease \in Seq(Identifier)
           /\ v = [numbers |-> v.numbers, prerelease |-> v.prerelease]
BY DEF Version

\* Compare, without CHOOSE.
LEMMA CompareCases ==
    ASSUME NEW l \in Version, NEW r \in Version
    PROVE  /\ Compare(l, r) \in {-1, 0, 1}
           /\ Compare(l, r) = -1 => Precedes(l, r)
           /\ Compare(l, r) = 1 => Precedes(r, l)
           /\ Compare(l, r) = 0 => l = r
<1> DEFINE differ == {i \in 1..3 : l.numbers[i] # r.numbers[i]}
           m == Smallest(differ)
<1>0. /\ l.numbers \in [1..3 -> Nat] /\ r.numbers \in [1..3 -> Nat]
      /\ l.prerelease \in Seq(Identifier) /\ r.prerelease \in Seq(Identifier)
  BY VersionParts
<1>1. CASE differ # {}
  <2>1. m \in differ /\ \A j \in differ : m <= j
    BY <1>1, SmallestIsLeast
  <2>2. Compare(l, r) = CompareInt(l.numbers[m], r.numbers[m])
    BY <1>1 DEF Compare
  <2>3. m \in 1..3 /\ l.numbers[m] # r.numbers[m]
    BY <2>1
  <2>4. \A j \in 1..(m - 1) : l.numbers[j] = r.numbers[j]
    BY <2>1, <2>3
  <2>5. l.numbers[m] \in Nat /\ r.numbers[m] \in Nat
    BY <2>3, <1>0
  <2> HIDE DEF m, differ
  <2>6. l.numbers[m] < r.numbers[m] => NumbersAt(l, r, m)
    BY <2>3, <2>4 DEF NumbersAt
  <2>7. r.numbers[m] < l.numbers[m] => NumbersAt(r, l, m)
    BY <2>3, <2>4 DEF NumbersAt
  <2> QED BY <2>2, <2>3, <2>5, <2>6, <2>7 DEF Precedes, CompareInt
<1>2. CASE differ = {}
  <2>1. l.numbers = r.numbers
    BY <1>2, <1>0
  <2>2. Compare(l, r) = ComparePrerelease(l.prerelease, r.prerelease)
    BY <1>2 DEF Compare
  <2>3. l.prerelease = r.prerelease => l = r
    BY <2>1, VersionParts
  <2> HIDE DEF differ
  <2> QED BY <1>0, <2>1, <2>2, <2>3, PrereleaseCases DEF Precedes
<1> QED BY <1>1, <1>2

\* Precedes excludes its converse.
LEMMA PrecedesAsymmetric ==
    ASSUME NEW l \in Version, NEW r \in Version, Precedes(l, r)
    PROVE  ~Precedes(r, l)
<1>0. /\ l.numbers \in [1..3 -> Nat] /\ r.numbers \in [1..3 -> Nat]
      /\ l.prerelease \in Seq(Identifier) /\ r.prerelease \in Seq(Identifier)
  BY VersionParts
<1>1. ASSUME NEW i \in 1..3, NEW k \in 1..3, NumbersAt(l, r, i), NumbersAt(r, l, k) PROVE FALSE
  <2>1. l.numbers[i] \in Nat /\ r.numbers[i] \in Nat /\ l.numbers[k] \in Nat /\ r.numbers[k] \in Nat
    BY <1>0, <1>1
  <2>2. l.numbers[i] < r.numbers[i] /\ r.numbers[k] < l.numbers[k]
    BY <1>1 DEF NumbersAt
  <2>3. CASE i < k
    <3>1. i \in 1..(k - 1)
      BY <1>1, <2>3
    <3>2. r.numbers[i] = l.numbers[i]
      BY <1>1, <3>1 DEF NumbersAt
    <3> QED BY <2>1, <2>2, <3>2
  <2>4. CASE k < i
    <3>1. k \in 1..(i - 1)
      BY <1>1, <2>4
    <3>2. l.numbers[k] = r.numbers[k]
      BY <1>1, <3>1 DEF NumbersAt
    <3> QED BY <2>1, <2>2, <3>2
  <2>5. CASE i = k
    BY <2>1, <2>2, <2>5
  <2> QED BY <1>1, <2>3, <2>4, <2>5
<1>2. ASSUME NEW i \in 1..3, NumbersAt(l, r, i) \/ NumbersAt(r, l, i), l.numbers = r.numbers
      PROVE  FALSE
  BY <1>0, <1>2 DEF NumbersAt
<1>3. ~(Before(l.prerelease, r.prerelease) /\ Before(r.prerelease, l.prerelease))
  BY <1>0, BeforeAsymmetric
<1> QED BY <1>1, <1>2, <1>3 DEF Precedes

\* Precedes is transitive.
LEMMA PrecedesTransitive ==
    ASSUME NEW a \in Version, NEW b \in Version, NEW c \in Version,
           Precedes(a, b), Precedes(b, c)
    PROVE  Precedes(a, c)
<1>0. /\ a.numbers \in [1..3 -> Nat] /\ b.numbers \in [1..3 -> Nat] /\ c.numbers \in [1..3 -> Nat]
      /\ a.prerelease \in Seq(Identifier) /\ b.prerelease \in Seq(Identifier)
      /\ c.prerelease \in Seq(Identifier)
  BY VersionParts
<1>1. ASSUME NEW i \in 1..3, NEW k \in 1..3, NumbersAt(a, b, i), NumbersAt(b, c, k)
      PROVE  Precedes(a, c)
  <2>1. CASE i < k
    <3>1. a.numbers[i] < b.numbers[i] /\ \A j \in 1..(i - 1) : a.numbers[j] = b.numbers[j]
      BY <1>1 DEF NumbersAt
    <3>2. \A j \in 1..i : j \in 1..(k - 1)
      BY <2>1
    <3>3. \A j \in 1..i : b.numbers[j] = c.numbers[j]
      BY <1>1, <3>2 DEF NumbersAt
    <3>4. i \in 1..i /\ \A j \in 1..(i - 1) : j \in 1..i
      OBVIOUS
    <3>5. NumbersAt(a, c, i)
      BY <3>1, <3>3, <3>4 DEF NumbersAt
    <3> QED BY <3>5 DEF Precedes
  <2>2. CASE k < i
    <3>1. b.numbers[k] < c.numbers[k] /\ \A j \in 1..(k - 1) : b.numbers[j] = c.numbers[j]
      BY <1>1 DEF NumbersAt
    <3>2. \A j \in 1..k : j \in 1..(i - 1)
      BY <2>2
    <3>3. \A j \in 1..k : a.numbers[j] = b.numbers[j]
      BY <1>1, <3>2 DEF NumbersAt
    <3>4. k \in 1..k /\ \A j \in 1..(k - 1) : j \in 1..k
      OBVIOUS
    <3>5. NumbersAt(a, c, k)
      BY <3>1, <3>3, <3>4 DEF NumbersAt
    <3> QED BY <3>5 DEF Precedes
  <2>3. CASE i = k
    <3>1. a.numbers[i] \in Nat /\ b.numbers[i] \in Nat /\ c.numbers[i] \in Nat
      BY <1>0
    <3>2. a.numbers[i] < b.numbers[i] /\ b.numbers[i] < c.numbers[i]
      BY <1>1, <2>3 DEF NumbersAt
    <3>3. \A j \in 1..(i - 1) : a.numbers[j] = c.numbers[j]
      BY <1>1, <2>3 DEF NumbersAt
    <3>4. NumbersAt(a, c, i)
      BY <3>1, <3>2, <3>3 DEF NumbersAt
    <3> QED BY <3>4 DEF Precedes
  <2> QED BY <2>1, <2>2, <2>3
<1>2. ASSUME NEW i \in 1..3, NumbersAt(a, b, i), b.numbers = c.numbers PROVE Precedes(a, c)
  <2>1. NumbersAt(a, c, i)
    BY <1>2 DEF NumbersAt
  <2> QED BY <2>1 DEF Precedes
<1>3. ASSUME NEW k \in 1..3, NumbersAt(b, c, k), a.numbers = b.numbers PROVE Precedes(a, c)
  <2>1. NumbersAt(a, c, k)
    BY <1>3 DEF NumbersAt
  <2> QED BY <2>1 DEF Precedes
<1>4. ASSUME Before(a.prerelease, b.prerelease), Before(b.prerelease, c.prerelease)
      PROVE  Before(a.prerelease, c.prerelease)
  BY <1>0, <1>4, BeforeTransitive
<1> QED BY <1>1, <1>2, <1>3, <1>4 DEF Precedes

\* Older is exactly Precedes.
LEMMA OlderIsPrecedes ==
    ASSUME NEW l \in Version, NEW r \in Version
    PROVE  Older(l, r) <=> Precedes(l, r)
<1>1. Older(l, r) => Precedes(l, r)
  BY CompareCases DEF Older
<1>2. Precedes(l, r) => Older(l, r)
  <2>1. Compare(l, r) = 1 => ~Precedes(l, r)
    BY CompareCases, PrecedesAsymmetric
  <2>2. l = r => ~Precedes(l, r)
    BY PrecedesAsymmetric
  <2> QED BY <2>1, <2>2, CompareCases DEF Older
<1> QED BY <1>1, <1>2

\* Of two different versions exactly one is older: whatever the numbers and the
\* prereleases are, the service and the agent agree on which (version.Compare).
THEOREM OlderTotal ==
    ASSUME NEW l \in Version, NEW r \in Version
    PROVE  /\ ~(Older(l, r) /\ Older(r, l))
           /\ ~Older(l, r) /\ ~Older(r, l) => l = r
<1>1. ~(Precedes(l, r) /\ Precedes(r, l))
  BY PrecedesAsymmetric
<1>2. Precedes(l, r) \/ Precedes(r, l) \/ l = r
  BY CompareCases
<1> QED BY <1>1, <1>2, OlderIsPrecedes

\* Older is transitive: a series of updates, each to a newer version, never comes
\* back to a version it had (version.Compare).
THEOREM OlderTransitive ==
    ASSUME NEW a \in Version, NEW b \in Version, NEW c \in Version, Older(a, b), Older(b, c)
    PROVE  Older(a, c)
BY OlderIsPrecedes, PrecedesTransitive

-----------------------------------------------------------------------------
(***************************************************************************)
(* Updates.                                                                *)
(***************************************************************************)

\* No version is older than itself.
LEMMA NotOlderThanItself ==
    ASSUME NEW v \in Release
    PROVE  ~Older(v, v)
BY OlderTotal, ReleaseAssumption

\* If x is no newer than v and v no newer than w, then x is no newer than w.
LEMMA NotOlderChain ==
    ASSUME NEW v \in Release, NEW w \in Release, NEW x \in Release,
           ~Older(v, x), ~Older(w, v)
    PROVE  ~Older(w, x)
<1>0. v \in Version /\ w \in Version /\ x \in Version
  BY ReleaseAssumption
<1>1. v = w \/ Older(v, w)
  BY <1>0, OlderTotal
<1>2. Older(v, w) /\ Older(w, x) => Older(v, x)
  BY <1>0, OlderTransitive
<1> QED BY <1>1, <1>2

\* The fields of a published file.
LEMMA GenuineFields ==
    \A v : Genuine(v).version = v /\ Genuine(v).genuine = TRUE
BY DEF Genuine

\* The initial states have it.
LEMMA InitIInv == Init => IInv
<1> SUFFICES ASSUME Init PROVE IInv
  OBVIOUS
<1>1. PICK v \in Release : executable = Genuine(v)
  BY DEF Init
<1>2. executable \in Binary /\ executable = Genuine(executable.version)
  BY <1>1 DEF Genuine, Binary
<1>3. TypeOK
  BY <1>2 DEF Init, TypeOK
<1>4. HoldsLock /\ UpdateSound /\ TargetNotOlder
  BY DEF Init, HoldsLock, UpdateSound, TargetNotOlder, Updating
<1> QED BY <1>2, <1>3, <1>4 DEF IInv, ExecutableGenuine

\* Every step keeps the types.
LEMMA NextTypeOK ==
    ASSUME IInv, [Next]_vars
    PROVE  TypeOK'
<1> USE DEF serviceVars
<1>0. TypeOK
  BY DEF IInv
<1>1. ASSUME NEW p \in Process, Step(p) PROVE TypeOK'
  <2>0. Genuine(target[p]) \in Binary \/ pc[p] \notin Updating
    BY DEF IInv, UpdateSound, Genuine, Binary, Updating
  <2>1. CASE Start(p)
    <3>1. executable.version \in Release
      BY <1>0 DEF TypeOK, Binary
    <3> QED BY <1>0, <2>1, <3>1 DEF TypeOK, Start
  <2>2. CASE AcquireLock(p)
    BY <1>0, <2>2 DEF TypeOK, AcquireLock
  <2>3. CASE LockHeld(p)
    BY <1>0, <2>3 DEF TypeOK, LockHeld, Exit
  <2>4. CASE Receipt(p)
    BY <1>0, <2>4 DEF TypeOK, Receipt
  <2>5. CASE GetChecksums(p)
    BY <1>0, <2>0, <2>5 DEF TypeOK, GetChecksums, Updating
  <2>6. ASSUME NEW file \in Binary, Download(p, file) PROVE TypeOK'
    BY <1>0, <2>6 DEF TypeOK, Download
  <2>7. CASE Verify(p)
    BY <1>0, <2>7 DEF TypeOK, Verify
  <2>8. CASE Refuse(p)
    BY <1>0, <2>8 DEF TypeOK, Refuse, Abort
  <2>9. CASE Fail(p)
    BY <1>0, <2>9 DEF TypeOK, Fail, Abort
  <2>10. CASE Replace(p)
    <3>1. temporary[p] \in Binary
      BY <2>0, <2>10 DEF IInv, UpdateSound, Replace, Updating
    <3> QED BY <1>0, <3>1, <2>10 DEF TypeOK, Replace
  <2>11. CASE ReleaseLock(p)
    BY <1>0, <2>11 DEF TypeOK, ReleaseLock
  <2>12. CASE Exec(p)
    <3>1. executable.version \in Release
      BY <1>0 DEF TypeOK, Binary
    <3> QED BY <1>0, <2>12, <3>1 DEF TypeOK, Exec
  <2> QED BY <1>1, <2>1, <2>2, <2>3, <2>4, <2>5, <2>6, <2>7, <2>8, <2>9, <2>10, <2>11, <2>12
          DEF Step
<1>2. ASSUME NEW p \in Process, Crash(p) PROVE TypeOK'
  BY <1>0, <1>2 DEF TypeOK, Crash, Exit
<1>3. ASSUME NEW v \in Release, Deploy(v) PROVE TypeOK'
  BY <1>0, <1>3 DEF TypeOK, Deploy
<1>4. CASE UNCHANGED vars
  BY <1>0, <1>4 DEF TypeOK, vars
<1> QED BY <1>1, <1>2, <1>3, <1>4 DEF Next

\* The lock has one holder.
LEMMA NextHoldsLock ==
    ASSUME IInv, [Next]_vars
    PROVE  HoldsLock'
<1> USE DEF serviceVars, Updating
<1>0. TypeOK /\ HoldsLock /\ None \notin Process
  BY NoneAssumption DEF IInv
<1>1. ASSUME NEW p \in Process, Step(p) PROVE HoldsLock'
  <2>1. CASE Start(p)
    BY <1>0, <2>1 DEF TypeOK, HoldsLock, Start
  <2>2. CASE AcquireLock(p)
    BY <1>0, <2>2 DEF TypeOK, HoldsLock, AcquireLock, LockFree
  <2>3. CASE LockHeld(p)
    BY <1>0, <2>3 DEF TypeOK, HoldsLock, LockHeld, Exit
  <2>4. CASE Receipt(p)
    BY <1>0, <2>4 DEF TypeOK, HoldsLock, Receipt
  <2>5. CASE GetChecksums(p)
    BY <1>0, <2>5 DEF TypeOK, HoldsLock, GetChecksums
  <2>6. ASSUME NEW file \in Binary, Download(p, file) PROVE HoldsLock'
    BY <1>0, <2>6 DEF TypeOK, HoldsLock, Download
  <2>7. CASE Verify(p)
    BY <1>0, <2>7 DEF TypeOK, HoldsLock, Verify
  <2>8. CASE Refuse(p)
    BY <1>0, <2>8 DEF TypeOK, HoldsLock, Refuse, Abort
  <2>9. CASE Fail(p)
    BY <1>0, <2>9 DEF TypeOK, HoldsLock, Fail, Abort
  <2>10. CASE Replace(p)
    BY <1>0, <2>10 DEF TypeOK, HoldsLock, Replace
  <2>11. CASE ReleaseLock(p)
    BY <1>0, <2>11 DEF TypeOK, HoldsLock, ReleaseLock
  <2>12. CASE Exec(p)
    BY <1>0, <2>12 DEF TypeOK, HoldsLock, Exec
  <2> QED BY <1>1, <2>1, <2>2, <2>3, <2>4, <2>5, <2>6, <2>7, <2>8, <2>9, <2>10, <2>11, <2>12
          DEF Step
<1>2. ASSUME NEW p \in Process, Crash(p) PROVE HoldsLock'
  BY <1>0, <1>2 DEF TypeOK, HoldsLock, Crash, Exit
<1>3. ASSUME NEW v \in Release, Deploy(v) PROVE HoldsLock'
  BY <1>0, <1>3 DEF TypeOK, HoldsLock, Deploy
<1>4. CASE UNCHANGED vars
  BY <1>0, <1>4 DEF TypeOK, HoldsLock, vars
<1> QED BY <1>1, <1>2, <1>3, <1>4 DEF Next

\* An update stays what it was asked for.
LEMMA NextUpdateSound ==
    ASSUME IInv, [Next]_vars
    PROVE  UpdateSound'
<1> USE DEF serviceVars, Updating
<1>0. TypeOK /\ UpdateSound
  BY DEF IInv
<1>a. executable.version \in Release /\ server \in Release
  BY <1>0 DEF TypeOK, Binary
<1>1. ASSUME NEW p \in Process, Step(p) PROVE UpdateSound'
  <2>1. CASE Start(p)
    BY <1>0, <1>a, <2>1 DEF TypeOK, UpdateSound, Start
  <2>2. CASE AcquireLock(p)
    BY <1>0, <1>a, <2>2 DEF TypeOK, UpdateSound, AcquireLock
  <2>3. CASE LockHeld(p)
    BY <1>0, <1>a, <2>3 DEF TypeOK, UpdateSound, LockHeld, Exit
  <2>4. CASE Receipt(p)
    BY <1>0, <1>a, <2>4 DEF TypeOK, UpdateSound, Receipt
  <2>5. CASE GetChecksums(p)
    BY <1>0, <1>a, <2>5 DEF TypeOK, UpdateSound, GetChecksums
  <2>6. ASSUME NEW file \in Binary, Download(p, file) PROVE UpdateSound'
    BY <1>0, <1>a, <2>6 DEF TypeOK, UpdateSound, Download
  <2>7. CASE Verify(p)
    BY <1>0, <2>7 DEF TypeOK, UpdateSound, Verify, Verified
  <2>8. CASE Refuse(p)
    BY <1>0, <1>a, <2>8 DEF TypeOK, UpdateSound, Refuse, Abort
  <2>9. CASE Fail(p)
    BY <1>0, <1>a, <2>9 DEF TypeOK, UpdateSound, Fail, Abort
  <2>10. CASE Replace(p)
    BY <1>0, <1>a, <2>10 DEF TypeOK, UpdateSound, Replace
  <2>11. CASE ReleaseLock(p)
    BY <1>0, <1>a, <2>11 DEF TypeOK, UpdateSound, ReleaseLock
  <2>12. CASE Exec(p)
    BY <1>0, <1>a, <2>12 DEF TypeOK, UpdateSound, Exec
  <2> QED BY <1>1, <2>1, <2>2, <2>3, <2>4, <2>5, <2>6, <2>7, <2>8, <2>9, <2>10, <2>11, <2>12
          DEF Step
<1>2. ASSUME NEW p \in Process, Crash(p) PROVE UpdateSound'
  BY <1>0, <1>a, <1>2 DEF TypeOK, UpdateSound, Crash, Exit
<1>3. ASSUME NEW v \in Release, Deploy(v) PROVE UpdateSound'
  BY <1>0, <1>a, <1>3 DEF TypeOK, UpdateSound, Deploy
<1>4. CASE UNCHANGED vars
  BY <1>0, <1>a, <1>4 DEF TypeOK, UpdateSound, vars
<1> QED BY <1>1, <1>2, <1>3, <1>4 DEF Next

\* Only a published file is installed.
LEMMA NextGenuine ==
    ASSUME IInv, [Next]_vars
    PROVE  ExecutableGenuine'
<1> USE DEF serviceVars, Updating
<1>0. TypeOK /\ UpdateSound /\ ExecutableGenuine
  BY DEF IInv
<1>1. ASSUME NEW p \in Process, Step(p) PROVE ExecutableGenuine'
  <2>1. CASE Start(p)
    BY <1>0, <2>1 DEF ExecutableGenuine, Start
  <2>2. CASE AcquireLock(p)
    BY <1>0, <2>2 DEF ExecutableGenuine, AcquireLock
  <2>3. CASE LockHeld(p)
    BY <1>0, <2>3 DEF ExecutableGenuine, LockHeld, Exit
  <2>4. CASE Receipt(p)
    BY <1>0, <2>4 DEF ExecutableGenuine, Receipt
  <2>5. CASE GetChecksums(p)
    BY <1>0, <2>5 DEF ExecutableGenuine, GetChecksums
  <2>6. ASSUME NEW file \in Binary, Download(p, file) PROVE ExecutableGenuine'
    BY <1>0, <2>6 DEF ExecutableGenuine, Download
  <2>7. CASE Verify(p)
    BY <1>0, <2>7 DEF ExecutableGenuine, Verify
  <2>8. CASE Refuse(p)
    BY <1>0, <2>8 DEF ExecutableGenuine, Refuse, Abort
  <2>9. CASE Fail(p)
    BY <1>0, <2>9 DEF ExecutableGenuine, Fail, Abort
  <2>10. CASE Replace(p)
    <3>1. executable' = Genuine(target[p])
      BY <1>0, <2>10 DEF UpdateSound, Replace
    <3> QED BY <3>1, GenuineFields DEF ExecutableGenuine
  <2>11. CASE ReleaseLock(p)
    BY <1>0, <2>11 DEF ExecutableGenuine, ReleaseLock
  <2>12. CASE Exec(p)
    BY <1>0, <2>12 DEF ExecutableGenuine, Exec
  <2> QED BY <1>1, <2>1, <2>2, <2>3, <2>4, <2>5, <2>6, <2>7, <2>8, <2>9, <2>10, <2>11, <2>12
          DEF Step
<1>2. ASSUME NEW p \in Process, Crash(p) PROVE ExecutableGenuine'
  BY <1>0, <1>2 DEF ExecutableGenuine, Crash, Exit
<1>3. ASSUME NEW v \in Release, Deploy(v) PROVE ExecutableGenuine'
  BY <1>0, <1>3 DEF ExecutableGenuine, Deploy
<1>4. CASE UNCHANGED vars
  BY <1>0, <1>4 DEF ExecutableGenuine, vars
<1> QED BY <1>1, <1>2, <1>3, <1>4 DEF Next

\* Without a rollback no target falls behind the file.
LEMMA NextTargetNotOlder ==
    ASSUME IInv, [Next]_vars
    PROVE  TargetNotOlder'
<1> USE DEF serviceVars, Updating
<1>0. TypeOK /\ HoldsLock /\ UpdateSound /\ TargetNotOlder
  BY DEF IInv
<1>a. executable.version \in Release /\ server \in Release
  BY <1>0 DEF TypeOK, Binary
<1>1. ASSUME NEW p \in Process, Step(p) PROVE TargetNotOlder'
  <2>1. CASE Start(p)
    BY <1>0, <2>1 DEF TypeOK, TargetNotOlder, Start
  <2>2. CASE AcquireLock(p)
    BY <1>0, <2>2 DEF TypeOK, TargetNotOlder, AcquireLock
  <2>3. CASE LockHeld(p)
    BY <1>0, <2>3 DEF TypeOK, TargetNotOlder, LockHeld, Exit
  <2>4. CASE Receipt(p)
    <3>1. running[p] \in Version /\ server \in Version
      BY <1>0, <1>a, <2>4, ReleaseAssumption DEF UpdateSound, Receipt
    <3>2. ~Older(server, running[p]) /\ ~Older(server, server)
      BY <2>4, <3>1, OlderTotal DEF Receipt
    <3> QED BY <1>0, <3>2, <2>4 DEF TypeOK, TargetNotOlder, Receipt
  <2>5. CASE GetChecksums(p)
    BY <1>0, <2>5 DEF TypeOK, TargetNotOlder, GetChecksums
  <2>6. ASSUME NEW file \in Binary, Download(p, file) PROVE TargetNotOlder'
    BY <1>0, <2>6 DEF TypeOK, TargetNotOlder, Download
  <2>7. CASE Verify(p)
    BY <1>0, <2>7 DEF TypeOK, TargetNotOlder, Verify
  <2>8. CASE Refuse(p)
    BY <1>0, <2>8 DEF TypeOK, TargetNotOlder, Refuse, Abort
  <2>9. CASE Fail(p)
    BY <1>0, <2>9 DEF TypeOK, TargetNotOlder, Fail, Abort
  <2>10. CASE Replace(p)
    <3> SUFFICES ASSUME ~rolledBack', NEW q \in Process
                 PROVE  /\ pc'[q] # "off" => ~Older(server', executable'.version)
                        /\ pc'[q] \notin Updating
      BY DEF TargetNotOlder
    <3>1. executable'.version = target[p]
      BY <1>0, <2>10, GenuineFields DEF UpdateSound, Replace
    <3>2. ~Older(server, target[p])
      BY <1>0, <2>10 DEF TargetNotOlder, Replace
    <3>3. pc'[q] \notin Updating
      BY <1>0, <2>10 DEF TypeOK, HoldsLock, Replace
    <3> QED BY <3>1, <3>2, <3>3, <2>10 DEF Replace
  <2>11. CASE ReleaseLock(p)
    BY <1>0, <2>11 DEF TypeOK, TargetNotOlder, ReleaseLock
  <2>12. CASE Exec(p)
    BY <1>0, <2>12 DEF TypeOK, TargetNotOlder, Exec
  <2> QED BY <1>1, <2>1, <2>2, <2>3, <2>4, <2>5, <2>6, <2>7, <2>8, <2>9, <2>10, <2>11, <2>12
          DEF Step
<1>2. ASSUME NEW p \in Process, Crash(p) PROVE TargetNotOlder'
  BY <1>0, <1>2 DEF TypeOK, TargetNotOlder, Crash, Exit
<1>3. ASSUME NEW v \in Release, Deploy(v) PROVE TargetNotOlder'
  <2> SUFFICES ASSUME ~rolledBack', NEW q \in Process
               PROVE  /\ pc'[q] # "off" => \/ running'[q] = executable'.version
                                           \/ ~Older(server', executable'.version)
                      /\ pc'[q] \in Updating => /\ ~Older(server', target'[q])
                                                /\ ~Older(target'[q], executable'.version)
    BY DEF TargetNotOlder
  <2>1. ~rolledBack /\ ~Older(v, server) /\ server' = v
    BY <1>0, <1>3 DEF TypeOK, Deploy
  <2>2. ~Older(server, executable.version) => ~Older(v, executable.version)
    BY <1>a, <2>1, NotOlderChain
  <2>3. target[q] \in Release /\ ~Older(server, target[q]) => ~Older(v, target[q])
    BY <1>a, <2>1, NotOlderChain
  <2> QED BY <1>0, <1>3, <2>1, <2>2, <2>3 DEF TargetNotOlder, UpdateSound, Deploy
<1>4. CASE UNCHANGED vars
  BY <1>0, <1>4 DEF TypeOK, TargetNotOlder, vars
<1> QED BY <1>1, <1>2, <1>3, <1>4 DEF Next

\* An update installs nothing older.
LEMMA ReplaceUpgrades ==
    ASSUME IInv, [Next]_vars, executable' # executable
    PROVE  /\ executable'.genuine
           /\ Older(executable.version, executable'.version) \/ rolledBack
<1> USE DEF serviceVars, Updating
<1>1. PICK p \in Process : Replace(p)
  BY DEF Next, Step, Start, AcquireLock, LockHeld, Receipt, GetChecksums, Download, Verify, Refuse,
         Fail, ReleaseLock, Exec, Crash, Deploy, vars
<1>2. executable' = Genuine(target[p]) /\ target[p] \in Release
  BY <1>1 DEF IInv, UpdateSound, Replace
<1>3. executable'.version = target[p] /\ executable'.genuine
  BY <1>2, GenuineFields
<1>4. target[p] # executable.version
  BY <1>2 DEF IInv, ExecutableGenuine
<1>5. rolledBack \/ ~Older(target[p], executable.version)
  BY <1>1 DEF IInv, TargetNotOlder, Replace
<1>6. executable.version \in Version /\ target[p] \in Version
  BY <1>2, ReleaseAssumption DEF IInv, TypeOK, Binary
<1>7. rolledBack \/ Older(executable.version, target[p])
  BY <1>4, <1>5, <1>6, OlderTotal
<1> QED BY <1>3, <1>7

\* The types of the updating processes, for any number of them.
THEOREM UpdateTypeCorrect == Spec => []TypeOK
<1>1. IInv /\ [Next]_vars => IInv'
  BY NextTypeOK, NextHoldsLock, NextUpdateSound, NextGenuine, NextTargetNotOlder DEF IInv
<1>2. IInv => TypeOK
  BY DEF IInv
<1> QED BY InitIInv, <1>1, <1>2, PTL DEF Spec

\* With any number of processes, releases, deployments and crashes the installed
\* agent is only replaced by the published file of a newer version, unless the
\* service has been rolled back (Apply, AcquireLock, main).
THEOREM InstalledNeverDowngraded == Spec => NeverDowngraded
<1>1. IInv /\ [Next]_vars => IInv'
  BY NextTypeOK, NextHoldsLock, NextUpdateSound, NextGenuine, NextTargetNotOlder DEF IInv
<1>2. IInv /\ [Next]_vars =>
        [executable' # executable =>
           /\ executable'.genuine
           /\ Older(executable.version, executable'.version) \/ rolledBack]_vars
  BY ReplaceUpgrades
<1> QED BY InitIInv, <1>1, <1>2, PTL DEF Spec, NeverDowngraded
============================================================================
