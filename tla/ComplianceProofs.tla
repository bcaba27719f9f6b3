-------------------------- MODULE ComplianceProofs --------------------------
(* What holds of versions, releases and compliance for every platform:       *)
(* the order and the matching of versions first, then the existence of a     *)
(* newest release, then the invariants of Compliance.                        *)
EXTENDS Compliance, Kustomization, TLAPS, FunctionTheorems, FiniteSetTheorems, WellFoundedInduction

-----------------------------------------------------------------------------
(* A finite set with a strict order has an element nothing is before: the    *)
(* sets of what is before each element have a minimal one.                   *)
LEMMA MinimalExists ==
  ASSUME NEW S, IsFiniteSet(S), S # {}, NEW R,
         \A x \in S : <<x, x>> \notin R,
         \A x, y, z \in S : <<x, y>> \in R /\ <<y, z>> \in R => <<x, z>> \in R
  PROVE  \E x \in S : \A y \in S : <<y, x>> \notin R
<1> DEFINE Under(x) == {y \in S : <<y, x>> \in R}
           T == {Under(x) : x \in S}
<1>1. T \subseteq FiniteSubsetsOf(S) /\ T # {}
  <2>1. FiniteSubsetsOf(S) = SUBSET S
    BY FS_FiniteSubsetsOfFinite
  <2>2. T \subseteq SUBSET S
    <3> SUFFICES ASSUME NEW B \in T PROVE B \subseteq S
      OBVIOUS
    <3>1. PICK x \in S : B = Under(x)
      OBVIOUS
    <3> QED
      BY <3>1
  <2>3. T # {}
    <3>1. PICK x \in S : TRUE
      OBVIOUS
    <3>2. Under(x) \in T
      OBVIOUS
    <3> QED
      BY <3>2
  <2> HIDE DEF T
  <2> QED
    BY <2>1, <2>2, <2>3
<1>2. PICK B \in T : \A C \in T : <<C, B>> \notin StrictSubsetOrdering(S)
  <2> HIDE DEF T
  <2> QED BY <1>1, FS_StrictSubsetOrderingWellFounded, WFMin
<1>3. PICK x \in S : B = Under(x)
  OBVIOUS
<1>4. ASSUME NEW y \in S, <<y, x>> \in R PROVE FALSE
  <2>1. Under(y) \subseteq Under(x)
    BY <1>4
  <2>2. y \in Under(x) /\ y \notin Under(y)
    BY <1>4
  <2>3. <<Under(y), Under(x)>> \in StrictSubsetOrdering(S)
    BY <2>1, <2>2 DEF StrictSubsetOrdering
  <2>4. Under(y) \in T
    OBVIOUS
  <2> HIDE DEF T
  <2> QED
    BY <2>3, <2>4, <1>2, <1>3
<1> QED
  BY <1>4

-----------------------------------------------------------------------------
(* Versions.                                                                 *)

LEMMA VersionFields ==
  ASSUME NEW v \in Version
  PROVE  /\ v = [parts |-> v.parts, major |-> v.major, minor |-> v.minor,
                 patch |-> v.patch, suffix |-> v.suffix]
         /\ v.parts \in 0..3 /\ v.major \in Nat /\ v.minor \in Nat /\ v.patch \in Nat
         /\ v.suffix \in Suffixes
         /\ v.parts < 3 => v.patch = 0
         /\ v.parts < 2 => v.minor = 0
         /\ v.parts = 0 => v.suffix = NoSuffix
BY DEF Version

(* CompareStrings is a total preorder on all versions, parsed or not         *)
(* (version.go, CompareStrings): swapping the versions changes the sign, and *)
(* "not after" is transitive. Sorting by it is therefore well defined.       *)
THEOREM VersionsPreordered ==
  /\ \A a, b \in Version : CompareStrings(a, b) \in {-1, 0, 1}
                        /\ CompareStrings(a, b) = -CompareStrings(b, a)
  /\ \A a, b, c \in Version :
       CompareStrings(a, b) <= 0 /\ CompareStrings(b, c) <= 0 => CompareStrings(a, c) <= 0
<1> USE DEF CompareStrings, Compare, Sign, Parsed, Prerelease
<1> DEFINE Typed(v) == v.parts \in 0..3 /\ v.major \in Nat /\ v.minor \in Nat /\ v.patch \in Nat
<1>1. \A v \in Version : Typed(v)
  BY VersionFields
<1>2. ASSUME NEW a, NEW b, Typed(a), Typed(b)
      PROVE  CompareStrings(a, b) \in {-1, 0, 1} /\ CompareStrings(a, b) = -CompareStrings(b, a)
  BY <1>2
<1>3. ASSUME NEW a, NEW b, NEW c, Typed(a), Typed(b), Typed(c),
             CompareStrings(a, b) <= 0, CompareStrings(b, c) <= 0
      PROVE  CompareStrings(a, c) <= 0
  BY <1>3
<1> HIDE DEF Typed, CompareStrings
<1> QED
  BY <1>1, <1>2, <1>3

(* Every version satisfies itself (version.go, Matches).                     *)
LEMMA MatchesItself == ASSUME NEW v \in Version PROVE Matches(v, v)
BY DEF Matches, SameNumbers

(* Two full versions that are satisfied by one version are of the same rank  *)
(* (version.go, Matches against Compare).                                    *)
LEMMA FullPinsAgree ==
  ASSUME NEW v \in Version, NEW w \in Version, NEW a \in Version,
         v.parts = 3, w.parts = 3, Matches(v, a), Matches(w, a)
  PROVE  CompareStrings(v, w) = 0
BY VersionFields DEF Matches, SameNumbers, CompareStrings, Compare, Parsed, Sign, Prerelease, Empty

-----------------------------------------------------------------------------
(* The order of releases.                                                    *)

IsReleases(rels) == DOMAIN rels \subseteq Names /\ \A n \in DOMAIN rels : IsRelease(rels[n])

LEMMA FilesPlaces ==
  /\ IsFiniteSet(Names)
  /\ Names \subseteq Version \ {Empty}
  /\ \A n \in Names : Place(Files, n) \in Nat /\ Files[Place(Files, n)] = n
<1>1. DOMAIN Files = 1..Len(Files) /\ Len(Files) \in Nat
  BY NamesAssumption
<1>2. Files \in Surjection(1..Len(Files), Names)
  BY <1>1, NamesAssumption DEF Surjection, Names
<1>3. IsFiniteSet(1..Len(Files))
  BY <1>1, FS_Interval
<1>4. IsFiniteSet(Names)
  BY <1>2, <1>3, FS_Surjection
<1>5. Names \subseteq Version \ {Empty}
  BY NamesAssumption DEF Names
<1>6. ASSUME NEW n \in Names
      PROVE  Place(Files, n) \in DOMAIN Files /\ Files[Place(Files, n)] = n
  BY DEF Names, Place
<1> QED
  BY <1>1, <1>4, <1>5, <1>6

(* Releases are strictly and totally ordered (release.go, Sort over Load).   *)
LEMMA PrecedesOrders ==
  ASSUME NEW rels, IsReleases(rels)
  PROVE  /\ \A n \in DOMAIN rels : ~Precedes(rels, n, n)
         /\ \A n, m \in DOMAIN rels : n # m => Precedes(rels, n, m) \/ Precedes(rels, m, n)
         /\ \A x, y, z \in DOMAIN rels :
              Precedes(rels, x, y) /\ Precedes(rels, y, z) => Precedes(rels, x, z)
<1>1. \A n \in DOMAIN rels : n \in Names /\ rels[n].version \in Version
  BY DEF IsReleases, IsRelease
<1>2. \A n \in DOMAIN rels : Place(Files, n) \in Nat /\ Files[Place(Files, n)] = n
  BY <1>1, FilesPlaces
<1> DEFINE cmp(n, m) == CompareStrings(rels[n].version, rels[m].version)
<1>3. \A n, m \in DOMAIN rels : cmp(n, m) \in {-1, 0, 1} /\ cmp(n, m) = -cmp(m, n)
  BY <1>1, VersionsPreordered
<1>4. \A x, y, z \in DOMAIN rels : cmp(x, y) <= 0 /\ cmp(y, z) <= 0 => cmp(x, z) <= 0
  BY <1>1, VersionsPreordered
<1>5. \A n, m \in DOMAIN rels : Precedes(rels, n, m) <=>
         cmp(n, m) > 0 \/ (cmp(n, m) = 0 /\ Place(Files, n) < Place(Files, m))
  BY DEF Precedes, Newer
<1> HIDE DEF cmp
<1>6. \A n \in DOMAIN rels : ~Precedes(rels, n, n)
  BY <1>2, <1>3, <1>5
<1>7. \A n, m \in DOMAIN rels : n # m => Precedes(rels, n, m) \/ Precedes(rels, m, n)
  BY <1>2, <1>3, <1>5
<1>8. ASSUME NEW x \in DOMAIN rels, NEW y \in DOMAIN rels, NEW z \in DOMAIN rels,
             Precedes(rels, x, y), Precedes(rels, y, z)
      PROVE  Precedes(rels, x, z)
  <2>1. cmp(y, x) <= 0 /\ cmp(z, y) <= 0 /\ cmp(z, x) <= 0
    BY <1>3, <1>4, <1>5, <1>8
  <2>2. cmp(x, z) = 0 => cmp(x, y) = 0 /\ cmp(y, z) = 0
    BY <2>1, <1>3, <1>4
  <2>3. cmp(x, z) = 0 => Place(Files, x) < Place(Files, z)
    BY <2>2, <1>2, <1>5, <1>8
  <2> QED
    BY <2>1, <2>3, <1>3, <1>5
<1> QED
  BY <1>6, <1>7, <1>8

(* In every set of releases there is one that is listed before all others.   *)
LEMMA NewestExists ==
  ASSUME NEW rels, IsReleases(rels), NEW S \in SUBSET DOMAIN rels, S # {}
  PROVE  \E n \in S : \A m \in S \ {n} : Precedes(rels, n, m)
<1> DEFINE R == {r \in S \X S : Precedes(rels, r[1], r[2])}
<1>1. IsFiniteSet(S)
  BY FilesPlaces, FS_Subset DEF IsReleases
<1>2. \A n \in S : <<n, n>> \notin R
  BY PrecedesOrders
<1>3. \A x, y, z \in S : <<x, y>> \in R /\ <<y, z>> \in R => <<x, z>> \in R
  BY PrecedesOrders
<1>4. PICK n \in S : \A m \in S : <<m, n>> \notin R
  <2> HIDE DEF R
  <2> QED BY <1>1, <1>2, <1>3, MinimalExists
<1>5. \A m \in S \ {n} : Precedes(rels, n, m)
  BY <1>4, PrecedesOrders
<1> QED
  BY <1>5

(* What the code reads as the first of the sorted list is the newest.        *)
LEMMA FirstIsNewest ==
  ASSUME NEW rels, IsReleases(rels), NEW S \in SUBSET DOMAIN rels, S # {}
  PROVE  First(rels, S) \in S /\ \A m \in S \ {First(rels, S)} : Precedes(rels, First(rels, S), m)
<1>1. \E n \in S : \A m \in S \ {n} : Precedes(rels, n, m)
  BY NewestExists
<1> QED
  BY <1>1 DEF First

-----------------------------------------------------------------------------
(* The state of Compliance.                                                  *)

(* History: what a release cut from a complete discovery pins its            *)
(* environment ran, and a complete inventory is what its environment runs.   *)
CutFromRunning ==
  \A n \in exact : \A c \in DOMAIN releases[n].components :
    /\ c \in DOMAIN cluster[origin[n]]
    /\ releases[n].components[c] = cluster[origin[n]][c]

CompleteIsRunning == \A e \in complete : invs[e] = cluster[e]

IInv == TypeOK /\ CutFromRunning /\ CompleteIsRunning

LEMMA EmptyIsVersion == Empty \in Version
BY SuffixAssumption DEF Empty, Version

LEMMA NormalizeIsVersion == ASSUME NEW v \in Version PROVE Normalize(v) \in Version
<1> DEFINE w == [parts |-> v.parts, major |-> v.major, minor |-> v.minor, patch |-> v.patch,
                 suffix |-> NoSuffix]
<1>1. Normalize(v) = w
  BY VersionFields DEF Normalize
<1>2. w \in Version
  BY VersionFields, SuffixAssumption DEF Version
<1> QED
  BY <1>1, <1>2

LEMMA PutIsBill ==
  ASSUME NEW f, IsBill(f), NEW c \in Components, NEW v \in Version
  PROVE  IsBill(Put(f, c, v))
BY DEF IsBill, Put

LEMMA CutIsRelease ==
  ASSUME NEW n \in Version, NEW found, IsBill(found)
  PROVE  IsRelease(FromInventory(n, found))
BY NormalizeIsVersion DEF IsRelease, IsBill, FromInventory

(* A discovery finds components with versions, whatever it misses.           *)
LEMMA ObservationsSound ==
  ASSUME TypeOK, NEW e \in Environments, NEW found \in Observations(e)
  PROVE  IsBill(found)
<1>1. CASE e \notin Flaky
  BY <1>1 DEF Observations, TypeOK
<1>2. CASE e \in Flaky
  <2>1. PICK S \in SUBSET DOMAIN cluster[e] :
          found \in {f \in [S -> UNION {Told(e, c) : c \in S}] : \A c \in S : f[c] \in Told(e, c)}
    BY <1>2 DEF Observations
  <2>2. /\ DOMAIN found = S
        /\ found = [c \in S |-> found[c]]
        /\ \A c \in S : found[c] \in Told(e, c)
    BY <2>1
  <2>3. \A c \in S : c \in Components /\ cluster[e][c] \in Version
    BY DEF TypeOK, IsBill
  <2>4. \A c \in S : Told(e, c) \subseteq Version
    BY <2>3, ComplianceAssumption, EmptyIsVersion DEF Told
  <2> QED
    BY <2>2, <2>3, <2>4 DEF IsBill
<1> QED
  BY <1>1, <1>2

-----------------------------------------------------------------------------
LEMMA InitIInv == Init => IInv
<1> SUFFICES ASSUME Init PROVE IInv
  OBVIOUS
<1>1. TypeOK
  BY ComplianceAssumption DEF Init, TypeOK
<1>2. CutFromRunning /\ CompleteIsRunning
  BY DEF Init, CutFromRunning, CompleteIsRunning
<1> QED
  BY <1>1, <1>2 DEF IInv

LEMMA EditBound == ASSUME TypeOK, Edit PROVE edits' \in 0..MaxEdits
BY ComplianceAssumption DEF TypeOK, Edit

LEMMA UpgradeIInv ==
  ASSUME IInv, NEW e \in Environments, NEW c \in Components, NEW v \in Deployable[c], Upgrade(e, c, v)
  PROVE  IInv'
<1>1. v \in Version
  BY ComplianceAssumption
<1>2. DOMAIN cluster' = Environments /\ \A d \in Environments : IsBill(cluster'[d])
  <2>1. DOMAIN cluster' = Environments /\ cluster'[e] = Put(cluster[e], c, v)
        /\ \A d \in Environments : d # e => cluster'[d] = cluster[d]
    BY DEF IInv, TypeOK, Upgrade
  <2>2. IsBill(Put(cluster[e], c, v))
    BY <1>1, PutIsBill DEF IInv, TypeOK
  <2> QED
    BY <2>1, <2>2 DEF IInv, TypeOK
<1>3. /\ DOMAIN origin' \subseteq DOMAIN origin
      /\ \A n \in DOMAIN origin' : origin'[n] = origin[n] /\ origin[n] # e
      /\ origin' \in [DOMAIN origin' -> Environments]
      /\ exact' \subseteq exact \cap DOMAIN origin'
  BY DEF Upgrade, Without, IInv, TypeOK
<1>4. TypeOK'
  <2>1. edits' \in 0..MaxEdits
    BY EditBound DEF IInv, Upgrade
  <2> QED
    BY <1>2, <1>3, <2>1 DEF IInv, TypeOK, Upgrade
<1>5. CutFromRunning'
  BY <1>3 DEF IInv, CutFromRunning, Upgrade, TypeOK
<1>6. CompleteIsRunning'
  BY DEF IInv, CompleteIsRunning, Upgrade, TypeOK
<1> QED
  BY <1>4, <1>5, <1>6 DEF IInv

LEMMA DiscoverIInv == ASSUME IInv, Discover PROVE IInv'
<1>1. PICK found \in [Environments -> UNION {Observations(e) : e \in Environments}] :
        (\A e \in Environments : found[e] \in Observations(e)) /\ invs' = found
  BY DEF Discover
<1>2. \A e \in Environments : IsBill(invs'[e])
  BY <1>1, ObservationsSound DEF IInv
<1>3. TypeOK'
  BY <1>1, <1>2 DEF IInv, TypeOK, Discover
<1>4. CutFromRunning' /\ CompleteIsRunning'
  BY DEF IInv, CutFromRunning, CompleteIsRunning, Discover
<1> QED
  BY <1>3, <1>4 DEF IInv

(* What a cut does to the releases.                                          *)
LEMMA CutFacts ==
  ASSUME IInv, NEW n \in Names, NEW e \in Environments, NEW force, NEW found \in Observations(e),
         Cut(n, e, force, found)
  PROVE  /\ DOMAIN releases' = DOMAIN releases \cup {n}
         /\ \A m \in DOMAIN releases \ {n} : releases'[m] = releases[m]
         /\ \A m \in DOMAIN releases' : IsRelease(releases'[m])
         /\ found = cluster[e] =>
              \A c \in DOMAIN releases'[n].components :
                c \in DOMAIN cluster[e] /\ releases'[n].components[c] = cluster[e][c]
<1>1. IsBill(found)
  BY ObservationsSound DEF IInv
<1>2. IsRelease(FromInventory(n, found))
  BY <1>1, FilesPlaces, CutIsRelease
<1>3. /\ DOMAIN releases' = DOMAIN releases \cup {n}
      /\ \A m \in DOMAIN releases \ {n} : releases'[m] = releases[m]
      /\ releases'[n] = FromInventory(n, found)
  BY DEF Cut, Put
<1>4. \A c \in DOMAIN FromInventory(n, found).components :
        c \in DOMAIN found /\ FromInventory(n, found).components[c] = found[c]
  BY DEF FromInventory
<1>5. \A m \in DOMAIN releases \ {n} : IsRelease(releases[m])
  BY DEF IInv, TypeOK
<1>6. \A m \in DOMAIN releases' : IsRelease(releases'[m])
  BY <1>2, <1>3, <1>5
<1>7. found = cluster[e] =>
        \A c \in DOMAIN releases'[n].components :
          c \in DOMAIN cluster[e] /\ releases'[n].components[c] = cluster[e][c]
  BY <1>3, <1>4
<1> QED
  BY <1>3, <1>6, <1>7

LEMMA CutIInv ==
  ASSUME IInv, NEW n \in Names, NEW e \in Environments, NEW force, NEW found \in Observations(e),
         Cut(n, e, force, found)
  PROVE  IInv'
<1>0. /\ DOMAIN releases' = DOMAIN releases \cup {n}
      /\ \A m \in DOMAIN releases \ {n} : releases'[m] = releases[m]
      /\ \A m \in DOMAIN releases' : IsRelease(releases'[m])
      /\ found = cluster[e] =>
           \A c \in DOMAIN releases'[n].components :
             c \in DOMAIN cluster[e] /\ releases'[n].components[c] = cluster[e][c]
  BY CutFacts
<1>1. UNCHANGED <<cluster, invs, targets, complete>> /\ edits' \in 0..MaxEdits
  BY EditBound DEF Cut, IInv
<1>2. /\ DOMAIN origin' = DOMAIN origin \cup {n} /\ origin'[n] = e
      /\ \A m \in DOMAIN origin \ {n} : origin'[m] = origin[m]
      /\ origin' \in [DOMAIN origin' -> Environments]
  BY DEF Cut, Put, IInv, TypeOK
<1>3. exact' \subseteq exact \cup {n} /\ (n \in exact' => found = cluster[e])
  BY DEF Cut
<1>4. TypeOK'
  BY <1>1, <1>2, <1>3, <1>0 DEF IInv, TypeOK
<1>5. CutFromRunning'
  <2> SUFFICES ASSUME NEW m \in exact', NEW c \in DOMAIN releases'[m].components
               PROVE  c \in DOMAIN cluster[origin'[m]]
                      /\ releases'[m].components[c] = cluster[origin'[m]][c]
    BY <1>1 DEF CutFromRunning
  <2>1. CASE m = n
    BY <2>1, <1>0, <1>2, <1>3
  <2>2. CASE m # n
    <3>1. m \in exact /\ m \in DOMAIN origin /\ m \in DOMAIN releases
      BY <2>2, <1>3 DEF IInv, TypeOK
    <3> QED
      BY <2>2, <3>1, <1>0, <1>2 DEF IInv, CutFromRunning
  <2> QED
    BY <2>1, <2>2
<1>6. CompleteIsRunning'
  BY <1>1 DEF IInv, CompleteIsRunning
<1> QED
  BY <1>4, <1>5, <1>6 DEF IInv

(* Whatever becomes of release n, the other releases stay what they were.    *)
LEMMA OthersFromRunning ==
  ASSUME IInv, NEW n, UNCHANGED cluster, exact' = exact \ {n},
         \A m \in DOMAIN origin \ {n} : origin'[m] = origin[m] /\ releases'[m] = releases[m]
  PROVE  CutFromRunning'
<1> SUFFICES ASSUME NEW m \in exact', NEW c \in DOMAIN releases'[m].components
             PROVE  c \in DOMAIN cluster[origin'[m]]
                    /\ releases'[m].components[c] = cluster[origin'[m]][c]
  BY DEF CutFromRunning
<1>1. m \in exact /\ m \in DOMAIN origin \ {n}
  BY DEF IInv, TypeOK
<1> QED
  BY <1>1 DEF IInv, CutFromRunning

LEMMA PinIInv ==
  ASSUME IInv, NEW n \in Names, NEW c \in Components, NEW v \in Pins[c], Pin(n, c, v)
  PROVE  IInv'
<1> DEFINE r == IF n \in DOMAIN releases
                  THEN [releases[n] EXCEPT !.components = Put(@, c, v)]
                  ELSE [version |-> n, components |-> [d \in {c} |-> v]]
<1>1. v \in Version /\ n \in Version
  BY ComplianceAssumption, FilesPlaces
<1>2. IsRelease(r)
  <2>1. CASE n \in DOMAIN releases
    <3>1. IsRelease(releases[n])
      BY <2>1 DEF IInv, TypeOK
    <3>2. r = [version |-> releases[n].version, components |-> Put(releases[n].components, c, v)]
      BY <2>1, <3>1 DEF IsRelease
    <3> QED
      BY <3>1, <3>2, <1>1, PutIsBill DEF IsRelease
  <2>2. CASE n \notin DOMAIN releases
    BY <2>2, <1>1 DEF IsRelease, IsBill
  <2> QED
    BY <2>1, <2>2
<1>3. /\ DOMAIN releases' = DOMAIN releases \cup {n}
      /\ \A m \in DOMAIN releases \ {n} : releases'[m] = releases[m]
      /\ releases'[n] = r
  BY DEF Pin, Put
<1>4. /\ DOMAIN origin' = DOMAIN origin \ {n}
      /\ \A m \in DOMAIN origin' : origin'[m] = origin[m]
      /\ origin' \in [DOMAIN origin' -> Environments]
  BY DEF Pin, Without, IInv, TypeOK
<1>5. UNCHANGED <<cluster, invs, targets, complete>> /\ edits' \in 0..MaxEdits
  BY EditBound DEF Pin, IInv
<1> HIDE DEF r
<1>6. TypeOK'
  BY <1>2, <1>3, <1>4, <1>5 DEF IInv, TypeOK, Pin
<1>7. CutFromRunning'
  <2>1. \A m \in DOMAIN origin \ {n} : origin'[m] = origin[m] /\ releases'[m] = releases[m]
    BY <1>3, <1>4 DEF IInv, TypeOK
  <2> QED
    BY <1>5, <2>1, OthersFromRunning DEF Pin
<1>8. CompleteIsRunning'
  BY <1>3, <1>4, <1>5 DEF IInv, CompleteIsRunning, TypeOK
<1> QED
  BY <1>6, <1>7, <1>8 DEF IInv

LEMMA DeleteIInv == ASSUME IInv, NEW n \in Names, Delete(n) PROVE IInv'
<1>1. /\ DOMAIN releases' = DOMAIN releases \ {n}
      /\ \A m \in DOMAIN releases' : releases'[m] = releases[m]
  BY DEF Delete, Without
<1>2. /\ DOMAIN origin' = DOMAIN origin \ {n}
      /\ \A m \in DOMAIN origin' : origin'[m] = origin[m]
      /\ origin' \in [DOMAIN origin' -> Environments]
  BY DEF Delete, Without, IInv, TypeOK
<1>3. UNCHANGED <<cluster, invs, targets, complete>> /\ edits' \in 0..MaxEdits
  BY EditBound DEF Delete, IInv
<1>4. TypeOK'
  BY <1>1, <1>2, <1>3 DEF IInv, TypeOK, Delete
<1>5. CutFromRunning'
  <2>1. \A m \in DOMAIN origin \ {n} : origin'[m] = origin[m] /\ releases'[m] = releases[m]
    BY <1>1, <1>2 DEF IInv, TypeOK
  <2> QED
    BY <1>3, <2>1, OthersFromRunning DEF Delete
<1>6. CompleteIsRunning'
  BY <1>1, <1>2, <1>3 DEF IInv, CompleteIsRunning, TypeOK
<1> QED
  BY <1>4, <1>5, <1>6 DEF IInv

LEMMA OthersIInv ==
  ASSUME IInv, (\E e \in Environments, n \in Names : Target(e, n)) \/ UNCHANGED vars
  PROVE  IInv'
<1>1. CASE \E e \in Environments, n \in Names : Target(e, n)
  <2>1. edits' \in 0..MaxEdits
    BY <1>1, EditBound DEF IInv, Target
  <2> QED
    BY <1>1, <2>1 DEF IInv, TypeOK, CutFromRunning, CompleteIsRunning, Target
<1>2. CASE UNCHANGED vars
  BY <1>2 DEF IInv, TypeOK, CutFromRunning, CompleteIsRunning, vars
<1> QED
  BY <1>1, <1>2

LEMMA NextIInv == IInv /\ [Next]_vars => IInv'
<1> SUFFICES ASSUME IInv, [Next]_vars PROVE IInv'
  OBVIOUS
<1> QED
  BY UpgradeIInv, DiscoverIInv, CutIInv, PinIInv, DeleteIInv, OthersIInv DEF Next

LEMMA Invariance == Spec => []IInv
BY InitIInv, NextIInv, PTL DEF Spec

-----------------------------------------------------------------------------
(* Type correctness.                                                         *)
THEOREM TypeCorrect == Spec => []TypeOK
<1>1. IInv => TypeOK
  BY DEF IInv
<1> QED
  BY <1>1, Invariance, PTL

(* A release cut from a complete discovery is fulfilled where it was cut     *)
(* (release.go, FromInventory, against matrix.go, Satisfies).                *)
THEOREM CutIsFulfilledHolds == Spec => []CutIsFulfilled
<1>1. IInv => CutIsFulfilled
  <2> SUFFICES ASSUME IInv, NEW n \in exact, origin[n] \in complete
               PROVE  Satisfies(releases[n].components, invs[origin[n]])
    BY DEF CutIsFulfilled
  <2>1. invs[origin[n]] = cluster[origin[n]]
    BY DEF IInv, CompleteIsRunning
  <2>2. IsBill(releases[n].components)
    BY DEF IInv, TypeOK, IsRelease
  <2>3. \A c \in DOMAIN releases[n].components :
          /\ c \in DOMAIN invs[origin[n]]
          /\ Matches(releases[n].components[c], invs[origin[n]][c])
    BY <2>1, <2>2, MatchesItself DEF IInv, CutFromRunning, IsBill
  <2> QED
    BY <2>3 DEF Satisfies
<1> QED
  BY <1>1, Invariance, PTL

(* When an environment fulfils two releases, full pins are of the same rank  *)
(* (version.go, Matches, against release.go, Compare).                       *)
THEOREM FulfilledTwiceUnchangedHolds == Spec => []FulfilledTwiceUnchanged
<1>1. IInv => FulfilledTwiceUnchanged
  <2> SUFFICES ASSUME IInv, NEW n \in DOMAIN releases, NEW m \in DOMAIN releases,
                      NEW e \in Environments,
                      Satisfies(releases[n].components, invs[e]),
                      Satisfies(releases[m].components, invs[e]),
                      NEW c \in DOMAIN releases[n].components \cap DOMAIN releases[m].components,
                      releases[n].components[c].parts = 3, releases[m].components[c].parts = 3
               PROVE  Change(releases[n].components, releases[m].components, c) = "unchanged"
    BY DEF FulfilledTwiceUnchanged
  <2>1. /\ releases[n].components[c] \in Version
        /\ releases[m].components[c] \in Version
        /\ c \in DOMAIN invs[e] => invs[e][c] \in Version
    BY DEF IInv, TypeOK, IsRelease, IsBill
  <2>2. /\ c \in DOMAIN invs[e]
        /\ Matches(releases[n].components[c], invs[e][c])
        /\ Matches(releases[m].components[c], invs[e][c])
    BY DEF Satisfies
  <2>3. CompareStrings(releases[n].components[c], releases[m].components[c]) = 0
    BY <2>1, <2>2, FullPinsAgree
  <2> QED
    BY <2>3 DEF Change
<1> QED
  BY <1>1, Invariance, PTL

-----------------------------------------------------------------------------
(* What is shown: the drafted releases and targets.                          *)

LEMMA OrderPlaces ==
  IsFiniteSet(Environments) /\ \A e \in Environments : Place(Order, e) \in Nat
<1>1. DOMAIN Order = 1..Len(Order) /\ Len(Order) \in Nat
  BY EnvironmentsAssumption
<1>2. Order \in Surjection(1..Len(Order), Environments)
  BY <1>1, EnvironmentsAssumption DEF Surjection, Environments
<1>3. IsFiniteSet(1..Len(Order))
  BY <1>1, FS_Interval
<1>4. IsFiniteSet(Environments)
  BY <1>2, <1>3, FS_Surjection
<1>5. ASSUME NEW e \in Environments
      PROVE  Place(Order, e) \in DOMAIN Order
  BY DEF Environments, Place
<1> QED
  BY <1>1, <1>4, <1>5

LEMMA FirstListedExists ==
  ASSUME NEW S \in SUBSET Environments, S # {}
  PROVE  \E e \in S : \A d \in S : Place(Order, e) <= Place(Order, d)
<1> DEFINE R == {r \in S \X S : Place(Order, r[1]) < Place(Order, r[2])}
<1>1. IsFiniteSet(S) /\ \A e \in S : Place(Order, e) \in Nat
  BY OrderPlaces, FS_Subset
<1>2. \A e \in S : <<e, e>> \notin R
  BY <1>1
<1>3. \A x, y, z \in S : <<x, y>> \in R /\ <<y, z>> \in R => <<x, z>> \in R
  BY <1>1
<1>4. PICK e \in S : \A d \in S : <<d, e>> \notin R
  <2> HIDE DEF R
  <2> QED BY <1>1, <1>2, <1>3, MinimalExists
<1>5. \A d \in S : ~(Place(Order, d) < Place(Order, e))
  BY <1>4
<1>6. \A d \in S : Place(Order, e) <= Place(Order, d)
  BY <1>1, <1>5
<1> QED
  BY <1>6

LEMMA SourceIsEnvironment ==
  ASSUME Sources(invs) # {}
  PROVE  SourceEnvironment(invs) \in Environments
<1> DEFINE S == IF Sources(invs) \cap Production # {} THEN Sources(invs) \cap Production ELSE Sources(invs)
<1>1. S \in SUBSET Environments /\ S # {}
  BY DEF Sources
<1>2. \E e \in S : \A d \in S : Place(Order, e) <= Place(Order, d)
  BY <1>1, FirstListedExists
<1>3. SourceEnvironment(invs) \in S
  BY <1>2 DEF SourceEnvironment
<1> QED
  BY <1>1, <1>3

LEMMA ShownIsReleases == ASSUME TypeOK PROVE IsReleases(Shown)
<1>1. CASE DOMAIN releases = {} /\ Sources(invs) # {}
  <2>1. Shown = [n \in {FirstRelease} |-> FromInventory(n, invs[SourceEnvironment(invs)])]
    BY <1>1 DEF Shown, DraftReleases
  <2>2. FirstRelease \in Names /\ FirstRelease \in Version
    BY NamesAssumption, FilesPlaces
  <2>3. IsBill(invs[SourceEnvironment(invs)])
    BY <1>1, SourceIsEnvironment DEF TypeOK
  <2>4. IsRelease(FromInventory(FirstRelease, invs[SourceEnvironment(invs)]))
    BY <2>2, <2>3, CutIsRelease
  <2> QED
    BY <2>1, <2>2, <2>4 DEF IsReleases
<1>2. CASE ~(DOMAIN releases = {} /\ Sources(invs) # {})
  BY <1>2 DEF Shown, DraftReleases, IsReleases, TypeOK
<1> QED
  BY <1>1, <1>2

(* Counting cells decides what Satisfies decides (matrix.go, BuildMatrix     *)
(* against Satisfies).                                                       *)
LEMMA CellsDecideSatisfies ==
  ASSUME NEW rels, IsReleases(rels), NEW n, NEW actual
  PROVE  Compliant(rels, n, actual) <=> n \in Satisfied(rels, actual)
<1>1. CASE n \notin DOMAIN rels
  BY <1>1 DEF Compliant, Satisfied
<1>2. CASE n \in DOMAIN rels
  <2> DEFINE pins == rels[n].components
  <2>1. DOMAIN pins \subseteq Components
    BY <1>2 DEF IsReleases, IsRelease, IsBill
  <2>2. \A c \in Components : Status(rels, n, actual, c) \in {"drift", "missing"} <=>
           c \in DOMAIN pins /\ (c \notin DOMAIN actual \/ ~Matches(pins[c], actual[c]))
    BY <1>2 DEF Status
  <2>3. Satisfies(pins, actual) <=>
          \A c \in DOMAIN pins : c \in DOMAIN actual /\ Matches(pins[c], actual[c])
    BY DEF Satisfies
  <2>4. Compliant(rels, n, actual) <=> Satisfies(pins, actual)
    BY <1>2, <2>1, <2>2, <2>3 DEF Compliant
  <2> QED
    BY <1>2, <2>4 DEF Satisfied
<1> QED
  BY <1>1, <1>2

(* The two computations of the matrix agree, and an environment that is      *)
(* compliant is said to run its target or a release listed before it.        *)
THEOREM CompliantMeansSatisfiedHolds == Spec => []CompliantMeansSatisfied
<1>1. TypeOK => CompliantMeansSatisfied
  <2> SUFFICES ASSUME TypeOK, NEW e \in Environments
               PROVE  LET n == ShownTarget(e)
                          running == MatchedRelease(Shown, invs[e])
                      IN /\ ShownCompliant(e) <=> n \in Satisfied(Shown, invs[e])
                         /\ ShownCompliant(e) => running = n \/ Precedes(Shown, running, n)
    BY DEF CompliantMeansSatisfied
  <2> DEFINE n == ShownTarget(e)
             S == Satisfied(Shown, invs[e])
  <2>1. IsReleases(Shown)
    BY ShownIsReleases
  <2>2. ShownCompliant(e) <=> n \in S
    BY <2>1, CellsDecideSatisfies DEF ShownCompliant
  <2>3. S \in SUBSET DOMAIN Shown
    BY DEF Satisfied
  <2>4. ASSUME n \in S
        PROVE  MatchedRelease(Shown, invs[e]) = n \/ Precedes(Shown, MatchedRelease(Shown, invs[e]), n)
    <3>1. MatchedRelease(Shown, invs[e]) = First(Shown, S)
      BY <2>4 DEF MatchedRelease
    <3> HIDE DEF S, n
    <3> QED
      BY <2>1, <2>3, <2>4, <3>1, FirstIsNewest
  <2> QED
    BY <2>2, <2>4
<1> QED
  BY <1>1, TypeCorrect, PTL

(* A platform without releases is shown as compliant where its release is    *)
(* drafted from (draft/apply.go, Apply).                                     *)
THEOREM DraftIsFulfilledHolds == Spec => []DraftIsFulfilled
<1>1. TypeOK => DraftIsFulfilled
  <2> SUFFICES ASSUME TypeOK, DOMAIN releases = {}, Sources(invs) # {},
                      targets[SourceEnvironment(invs)] \in {Empty, FirstRelease}
               PROVE  ShownCompliant(SourceEnvironment(invs))
                      /\ ShownTarget(SourceEnvironment(invs)) = FirstRelease
    BY DEF DraftIsFulfilled
  <2> DEFINE e == SourceEnvironment(invs)
  <2>1. e \in Environments
    BY SourceIsEnvironment
  <2>2. Shown = [n \in {FirstRelease} |-> FromInventory(n, invs[e])]
    BY DEF Shown, DraftReleases
  <2>3. First(Shown, DOMAIN Shown) = FirstRelease
    BY <2>2 DEF First
  <2>4. FirstRelease # Empty
    BY NamesAssumption, FilesPlaces
  <2>5. ShownTarget(e) = FirstRelease
    BY <2>1, <2>2, <2>3, <2>4 DEF ShownTarget, DraftTargets
  <2>6. IsBill(invs[e])
    BY <2>1 DEF TypeOK
  <2>7. Satisfies(Shown[FirstRelease].components, invs[e])
    BY <2>2, <2>6, MatchesItself DEF Satisfies, FromInventory, IsBill
  <2>8. FirstRelease \in Satisfied(Shown, invs[e])
    BY <2>2, <2>7 DEF Satisfied
  <2>9. ShownCompliant(e)
    BY <2>5, <2>8, ShownIsReleases, CellsDecideSatisfies DEF ShownCompliant
  <2> QED
    BY <2>5, <2>9
<1> QED
  BY <1>1, TypeCorrect, PTL

(* A release does not disturb environments that target another one           *)
(* (draft/apply.go, Apply; matrix.go, BuildMatrix).                          *)
LEMMA TargetDecides ==
  ASSUME TypeOK, NEW e \in Environments, targets[e] \in DOMAIN releases
  PROVE  ShownCompliant(e) <=> Satisfies(releases[targets[e]].components, invs[e])
<1>1. Shown = releases
  BY DEF Shown, DraftReleases
<1>2. targets[e] # Empty
  BY FilesPlaces DEF TypeOK
<1>3. ShownTarget(e) = targets[e]
  BY <1>1, <1>2 DEF ShownTarget, DraftTargets
<1> QED
  BY <1>1, <1>3, ShownIsReleases, CellsDecideSatisfies DEF ShownCompliant, Satisfied

OthersDoNotMatterStep == \A e \in Environments : ~ChangesCompliance(e)

THEOREM OthersDoNotMatterHolds == Spec => OthersDoNotMatter
<1>1. ASSUME TypeOK, TypeOK', NEW e \in Environments, ChangesCompliance(e)
      PROVE  FALSE
  <2>1. ShownCompliant(e) <=> Satisfies(releases[targets[e]].components, invs[e])
    BY <1>1, TargetDecides DEF ChangesCompliance
  <2>2. ShownCompliant(e)' <=> Satisfies(releases[targets[e]].components, invs[e])'
    <3>1. (targets[e] \in DOMAIN releases)'
      BY <1>1 DEF ChangesCompliance
    <3> QED
      BY <1>1, <3>1, TargetDecides, PTL
  <2>3. Satisfies(releases[targets[e]].components, invs[e])'
          <=> Satisfies(releases[targets[e]].components, invs[e])
    BY <1>1 DEF ChangesCompliance, Satisfies
  <2> QED
    BY <1>1, <2>1, <2>2, <2>3 DEF ChangesCompliance
<1>2. TypeOK /\ TypeOK' /\ [Next]_vars => [OthersDoNotMatterStep]_vars
  BY <1>1 DEF OthersDoNotMatterStep
<1> QED
  BY <1>2, TypeCorrect, PTL DEF Spec, OthersDoNotMatter, OthersDoNotMatterStep

-----------------------------------------------------------------------------
(* Updates.  What is found of a component is a version that parses, or none. *)
IsTold(f) == \A c \in DOMAIN f : f[c] = Empty \/ Parsed(f[c])

ToldInv == \A e \in Environments : IsTold(cluster[e]) /\ IsTold(invs[e])

LEMMA ToldStep == TypeOK /\ ToldInv /\ [Next]_vars => ToldInv'
<1> SUFFICES ASSUME TypeOK, ToldInv, [Next]_vars PROVE ToldInv'
  OBVIOUS
<1>1. ASSUME NEW e \in Environments, NEW c \in Components, NEW v \in Deployable[c], Upgrade(e, c, v)
      PROVE  ToldInv'
  <2>1. v = Empty \/ Parsed(v)
    BY ToldAssumption
  <2>2. IsTold(Put(cluster[e], c, v))
    BY <2>1 DEF IsTold, Put, ToldInv
  <2>3. cluster'[e] = Put(cluster[e], c, v) /\ \A d \in Environments : d # e => cluster'[d] = cluster[d]
    BY <1>1 DEF Upgrade, TypeOK
  <2>4. invs' = invs
    BY <1>1 DEF Upgrade
  <2> QED
    BY <2>2, <2>3, <2>4 DEF ToldInv
<1>2. ASSUME NEW e \in Environments, NEW found \in Observations(e)
      PROVE  IsTold(found)
  <2>1. CASE e \notin Flaky
    BY <2>1 DEF Observations, ToldInv
  <2>2. CASE e \in Flaky
    <3>1. PICK S \in SUBSET DOMAIN cluster[e] :
            found \in {f \in [S -> UNION {Told(e, c) : c \in S}] : \A c \in S : f[c] \in Told(e, c)}
      BY <2>2 DEF Observations
    <3>2. DOMAIN found = S /\ \A c \in S : found[c] \in Told(e, c)
      BY <3>1
    <3>3. \A c \in S : c \in Components /\ (cluster[e][c] = Empty \/ Parsed(cluster[e][c]))
      BY DEF TypeOK, IsBill, ToldInv, IsTold
    <3>4. \A c \in S : \A v \in Told(e, c) : v = Empty \/ Parsed(v)
      BY <3>3, ToldAssumption DEF Told
    <3> QED
      BY <3>2, <3>4 DEF IsTold
  <2> QED
    BY <2>1, <2>2
<1>3. CASE Discover
  <2>1. \A e \in Environments : invs'[e] \in Observations(e)
    BY <1>3 DEF Discover
  <2>2. cluster' = cluster
    BY <1>3 DEF Discover
  <2> QED
    BY <1>2, <2>1, <2>2 DEF ToldInv
<1>4. CASE UNCHANGED <<cluster, invs>>
  BY <1>4 DEF ToldInv
<1>5. CASE Next
  BY <1>1, <1>3, <1>4, <1>5 DEF Next, Cut, Pin, Delete, Target
<1>6. CASE UNCHANGED vars
  BY <1>4, <1>6 DEF vars
<1> QED
  BY <1>5, <1>6

(* In a set of versions of which some is known there is an oldest one.       *)
LEMMA OldestExists ==
  ASSUME NEW S \in SUBSET Version, IsFiniteSet(S), S # {}
  PROVE  Oldest(S) \in S /\ \A v \in S : CompareStrings(Oldest(S), v) <= 0
<1> DEFINE R == {r \in S \X S : CompareStrings(r[1], r[2]) < 0}
<1>1. \A v, w \in S : /\ CompareStrings(v, w) \in {-1, 0, 1}
                      /\ CompareStrings(v, w) = -CompareStrings(w, v)
  BY VersionsPreordered
<1>2. \A v \in S : ~(CompareStrings(v, v) < 0)
  BY <1>1
<1>3. ASSUME NEW x \in S, NEW y \in S, NEW z \in S, CompareStrings(x, y) < 0, CompareStrings(y, z) < 0
      PROVE  CompareStrings(x, z) < 0
  <2>1. CompareStrings(x, z) <= 0
    BY <1>1, <1>3, VersionsPreordered
  <2>2. CompareStrings(x, z) # 0
    <3> SUFFICES ASSUME CompareStrings(x, z) = 0 PROVE FALSE
      OBVIOUS
    <3>1. CompareStrings(z, x) <= 0 /\ CompareStrings(x, y) <= 0
      BY <1>1, <1>3
    <3>2. CompareStrings(z, y) <= 0
      BY <3>1, VersionsPreordered
    <3> QED
      BY <3>2, <1>1, <1>3
  <2> QED
    BY <2>1, <2>2, <1>1
<1>4. PICK v \in S : \A w \in S : <<w, v>> \notin R
  <2>1. \A x \in S : <<x, x>> \notin R
    BY <1>2
  <2>2. \A x, y, z \in S : <<x, y>> \in R /\ <<y, z>> \in R => <<x, z>> \in R
    BY <1>3
  <2> HIDE DEF R
  <2> QED BY <2>1, <2>2, MinimalExists
<1>5. \A w \in S : ~(CompareStrings(w, v) < 0)
  BY <1>4
<1>6. \A w \in S : CompareStrings(v, w) <= 0
  BY <1>1, <1>5
<1> QED
  BY <1>6 DEF Oldest

(* How far a version is behind: the assessments are ranked, and the worst of *)
(* some is one of them.                                                      *)
Freshness == {"unknown", "latest", "patch", "minor", "major", "unsupported"}

LEMMA RankValues ==
  /\ Rank["unknown"] = 0 /\ Rank["latest"] = 1 /\ Rank["patch"] = 2
  /\ Rank["minor"] = 3 /\ Rank["major"] = 4 /\ Rank["unsupported"] = 5
BY DEF Rank

LEMMA WorstIsWorst ==
  ASSUME NEW S \in SUBSET Freshness
  PROVE  Worst(S) \in S \cup {"unknown"} /\ \A g \in S : Rank[g] <= Rank[Worst(S)]
<1>1. \E f \in S \cup {"unknown"} : \A g \in S : Rank[g] <= Rank[f]
  <2>1. CASE "unsupported" \in S
    BY <2>1, RankValues DEF Freshness
  <2>2. CASE "unsupported" \notin S /\ "major" \in S
    BY <2>2, RankValues DEF Freshness
  <2>3. CASE "unsupported" \notin S /\ "major" \notin S /\ "minor" \in S
    BY <2>3, RankValues DEF Freshness
  <2>4. CASE "unsupported" \notin S /\ "major" \notin S /\ "minor" \notin S /\ "patch" \in S
    BY <2>4, RankValues DEF Freshness
  <2>5. CASE S \subseteq {"unknown", "latest"} /\ "latest" \in S
    BY <2>5, RankValues
  <2>6. CASE S \subseteq {"unknown"}
    BY <2>6, RankValues
  <2> QED
    BY <2>1, <2>2, <2>3, <2>4, <2>5, <2>6 DEF Freshness
<1> QED
  BY <1>1 DEF Worst

(* An assessment against upstream's newest release: of two versions, the     *)
(* older one is never assessed as better, unless upstream drops minors of    *)
(* the current major (freshness.go, Assess).                                 *)
LEMMA AssessUnknown ==
  ASSUME NEW v, NEW up, NEW s, ~Parsed(v) \/ up = <<>> \/ ~Parsed(up[1])
  PROVE  Assess(v, up, s) = "unknown"
BY DEF Assess

LEMMA AssessKnown ==
  ASSUME NEW v \in Version, NEW up, up # <<>>, up[1] \in Version, Parsed(v), Parsed(up[1]), NEW s \in Nat
  PROVE  /\ Assess(v, up, s) \in Freshness \ {"unknown"}
         /\ Assess(v, up, s) = "latest" <=> CompareStrings(up[1], v) <= 0
BY VersionFields DEF Assess, Freshness, CompareStrings, Compare, Sign, Parsed, Prerelease

LEMMA AssessOrders ==
  ASSUME NEW v \in Version, NEW w \in Version, NEW up, up # <<>>, up[1] \in Version,
         Parsed(v), Parsed(w), Parsed(up[1]), CompareStrings(v, w) <= 0
  PROVE  Rank[Assess(w, up, 0)] <= Rank[Assess(v, up, 0)]
<1> DEFINE u == up[1]
<1>1. /\ v.major \in Nat /\ v.minor \in Nat /\ v.patch \in Nat
      /\ w.major \in Nat /\ w.minor \in Nat /\ w.patch \in Nat
      /\ u.major \in Nat /\ u.minor \in Nat /\ u.patch \in Nat
  BY VersionFields
<1>2. CompareStrings(w, u) < 0 => CompareStrings(v, u) < 0
  BY VersionsPreordered
<1>3. CASE CompareStrings(w, u) >= 0
  <2>1. Assess(w, up, 0) = "latest"
    BY <1>3 DEF Assess, CompareStrings
  <2>2. Assess(v, up, 0) \in Freshness \ {"unknown"}
    BY AssessKnown
  <2> QED
    BY <2>1, <2>2, RankValues DEF Freshness
<1>4. CASE CompareStrings(w, u) < 0
  <2>1. Compare(v, u) < 0 /\ Compare(w, u) < 0 /\ Compare(v, w) <= 0
    BY <1>2, <1>4 DEF CompareStrings
  <2>2. w.major <= u.major /\ (w.major = u.major => w.minor <= u.minor)
    BY <1>1, <2>1 DEF Compare, Sign
  <2>3. v.major <= w.major /\ (v.major = w.major => v.minor <= w.minor)
    BY <1>1, <2>1 DEF Compare, Sign
  <2>a. Compare(v, u) \in {-1, 0, 1} /\ Compare(w, u) \in {-1, 0, 1}
    BY DEF Compare, Sign
  <2>b. ~(Compare(v, u) >= 0) /\ ~(Compare(w, u) >= 0) /\ ~(0 > 0)
    BY <2>1, <2>a
  <2>4. Assess(w, up, 0) = IF w.major < u.major THEN "major"
                           ELSE IF u.minor - w.minor > 0 THEN "minor" ELSE "patch"
    BY <2>b DEF Assess
  <2>5. Assess(v, up, 0) = IF v.major < u.major THEN "major"
                           ELSE IF u.minor - v.minor > 0 THEN "minor" ELSE "patch"
    BY <2>b DEF Assess
  <2>6. CASE w.major < u.major
    <3>1. v.major < u.major
      BY <1>1, <2>3, <2>6
    <3> QED
      BY <3>1, <2>4, <2>5, <2>6, RankValues
  <2>7. CASE w.major = u.major /\ u.minor - w.minor > 0
    <3>1. v.major < u.major \/ u.minor - v.minor > 0
      BY <1>1, <2>3, <2>7
    <3>2. Assess(w, up, 0) = "minor"
      BY <1>1, <2>4, <2>7
    <3>3. Assess(v, up, 0) \in {"major", "minor"}
      BY <3>1, <2>5
    <3> QED
      BY <3>2, <3>3, RankValues
  <2>8. CASE w.major = u.major /\ ~(u.minor - w.minor > 0)
    <3>1. Assess(w, up, 0) = "patch"
      BY <1>1, <2>4, <2>8
    <3>2. Assess(v, up, 0) \in {"major", "minor", "patch"}
      BY <2>5
    <3> QED
      BY <3>1, <3>2, RankValues
  <2> QED
    BY <1>1, <2>2, <2>6, <2>7, <2>8
<1> QED
  BY <1>3, <1>4, VersionsPreordered

(* The newer releases are none exactly when upstream's first is not newer    *)
(* (updates.go, newerThan).                                                  *)
LEMMA NewerThanEmpty ==
  ASSUME NEW up \in Seq(Version), NEW cur \in Version, Parsed(cur)
  PROVE  NewerThan(up, cur) = <<>> <=> up = <<>> \/ ~Newer(up[1], cur)
<1> DEFINE stops == {i \in DOMAIN up : ~Newer(up[i], cur)} \cup {Len(up) + 1, MaxNewer + 1}
           stop == CHOOSE i \in stops : \A j \in stops : i <= j
           R == {r \in stops \X stops : r[1] < r[2]}
<1>1. Len(up) \in Nat /\ DOMAIN up = 1..Len(up) /\ MaxNewer \in Nat /\ MaxNewer > 0
  BY ComponentsAssumption
<1>2. stops \subseteq Nat \ {0} /\ Len(up) + 1 \in stops
  BY <1>1
<1>3. IsFiniteSet(stops)
  <2>1. stops \subseteq 1..(Len(up) + MaxNewer + 1)
    BY <1>1
  <2>2. IsFiniteSet(1..(Len(up) + MaxNewer + 1))
    BY <1>1, FS_Interval
  <2> HIDE DEF stops
  <2> QED
    BY <2>1, <2>2, FS_Subset
<1>4. 1 \in stops <=> up = <<>> \/ ~Newer(up[1], cur)
  <2>1. MaxNewer + 1 # 1
    BY <1>1
  <2>2. Len(up) + 1 = 1 <=> up = <<>>
    BY <1>1
  <2>3. 1 \in DOMAIN up <=> up # <<>>
    BY <1>1
  <2> QED
    BY <2>1, <2>2, <2>3
<1>5. NewerThan(up, cur) = SubSeq(up, 1, stop - 1)
  BY DEF NewerThan
<1> HIDE DEF stops
<1>6. \E i \in stops : \A j \in stops : i <= j
  <2>1. \A x \in stops : <<x, x>> \notin R
    BY <1>2
  <2>2. \A x, y, z \in stops : <<x, y>> \in R /\ <<y, z>> \in R => <<x, z>> \in R
    BY <1>2
  <2>3. PICK i \in stops : \A j \in stops : <<j, i>> \notin R
    <3>1. stops # {}
      BY <1>2
    <3> HIDE DEF R
    <3> QED BY <1>3, <2>1, <2>2, <3>1, MinimalExists
  <2>4. \A j \in stops : ~(j < i)
    BY <2>3
  <2>5. \A j \in stops : i <= j
    BY <2>4, <1>2
  <2> QED
    BY <2>5
<1>7. stop \in stops /\ \A j \in stops : stop <= j
  BY <1>6
<1> HIDE DEF stop
<1>8. stop = 1 <=> 1 \in stops
  BY <1>2, <1>7
<1>9. stop \in 1..(Len(up) + 1)
  BY <1>1, <1>2, <1>7
<1>10. SubSeq(up, 1, stop - 1) = <<>> <=> stop = 1
  <2>1. SubSeq(up, 1, stop - 1) \in Seq(Version) /\ Len(SubSeq(up, 1, stop - 1)) = stop - 1
    BY <1>1, <1>9
  <2> QED
    BY <1>9, <2>1
<1> QED
  BY <1>4, <1>5, <1>8, <1>10

(* The matrix and the updates are computed from the same versions along two  *)
(* paths - assess all of them and take the worst, or take the oldest and     *)
(* assess that - and agree (matrix.go, BuildMatrix against updates.go,       *)
(* BuildUpdates).                                                            *)
THEOREM UpdatesAgreeHolds == Spec => []UpdatesAgree
<1>1. TypeOK /\ ToldInv => UpdatesAgree
  <2> SUFFICES ASSUME TypeOK, ToldInv, NEW c \in Components
               PROVE  LET row   == RowFreshness(invs, Upstream, c)
                          entry == UpdateFreshness(invs, Upstream, c)
                          newer == NewerThan(Upstream[c], Current(invs, c))
                      IN /\ row \in {"unknown", "latest"} <=> entry \in {"unknown", "latest"}
                         /\ row \notin {"unknown", "latest"} <=> newer # <<>>
                         /\ Rank[entry] <= Rank[row]
                         /\ SupportedMinors[c] = 0 => entry = row
    BY DEF UpdatesAgree
  <2> DEFINE up == Upstream[c]
             s == SupportedMinors[c]
             all == {invs[e][c] : e \in Running(invs, c)}
             known == all \ {Empty}
             cur == Current(invs, c)
             F == {Assess(invs[e][c], up, s) : e \in Running(invs, c)}
             row == RowFreshness(invs, Upstream, c)
             entry == UpdateFreshness(invs, Upstream, c)
             newer == NewerThan(up, cur)
  <2>1. up \in Seq(Version) /\ s \in Nat /\ (up # <<>> => up[1] \in Version)
    BY ComplianceAssumption, ComponentsAssumption
  <2>2. all \subseteq Version /\ \A v \in known : Parsed(v)
    BY DEF Running, TypeOK, IsBill, ToldInv, IsTold
  <2>3. IsFiniteSet(known)
    <3>1. Running(invs, c) \subseteq Environments
      BY DEF Running
    <3>2. IsFiniteSet(Running(invs, c))
      BY <3>1, OrderPlaces, FS_Subset
    <3>3. [e \in Running(invs, c) |-> invs[e][c]] \in Surjection(Running(invs, c), all)
      BY DEF Surjection
    <3> HIDE DEF all
    <3>4. IsFiniteSet(all)
      BY <3>2, <3>3, FS_Surjection
    <3> QED
      BY <3>4, FS_Subset
  <2>4. row = Worst(F) /\ entry = Assess(cur, up, s) /\ cur = Oldest(known)
    BY DEF RowFreshness, UpdateFreshness, Current
  <2>5. \A f \in F : \E v \in all : f = Assess(v, up, s)
    OBVIOUS
  <2>6. \A v \in all : Assess(v, up, s) \in F
    OBVIOUS
  <2>7. ~Parsed(Empty)
    BY DEF Empty, Parsed
  <2> HIDE DEF up, s, all, cur, F, row, entry
  <2>8. CASE known = {} \/ up = <<>> \/ ~Parsed(up[1])
    <3>1. \A v \in all : Assess(v, up, s) = "unknown"
      BY <2>2, <2>7, <2>8, AssessUnknown
    <3>2. F \subseteq {"unknown"}
      BY <3>1, <2>5
    <3>3. row = "unknown"
      <4>1. F \in SUBSET Freshness
        BY <3>2 DEF Freshness
      <4> QED
        BY <3>2, <4>1, <2>4, WorstIsWorst
    <3>4. known = {} => cur = Empty
      BY <2>4 DEF Oldest
    <3>5. entry = "unknown"
      BY <2>4, <2>7, <2>8, <3>4, AssessUnknown
    <3>6. newer = <<>>
      <4>1. CASE ~Parsed(cur)
        BY <4>1 DEF NewerThan
      <4>2. CASE Parsed(cur)
        <5>1. known # {} /\ cur \in Version
          <6>1. known # {}
            BY <4>2, <3>4, <2>7
          <6> QED
            BY <6>1, <2>2, <2>3, <2>4, OldestExists
        <5>2. up = <<>> \/ ~Newer(up[1], cur)
          BY <5>1, <4>2, <2>8 DEF Newer, CompareStrings
        <5> QED
          BY <2>1, <4>2, <5>1, <5>2, NewerThanEmpty
      <4> QED
        BY <4>1, <4>2
    <3> QED
      BY <3>3, <3>5, <3>6, RankValues DEF row, entry, cur, up, s
  <2>9. CASE known # {} /\ up # <<>> /\ Parsed(up[1])
    <3>1. cur \in known /\ \A v \in known : CompareStrings(cur, v) <= 0
      BY <2>2, <2>3, <2>4, <2>9, OldestExists
    <3>2. cur \in Version /\ Parsed(cur) /\ cur \in all
      BY <2>2, <3>1
    <3>3. entry \in Freshness \ {"unknown"} /\ (entry = "latest" <=> CompareStrings(up[1], cur) <= 0)
      BY <2>1, <2>4, <2>9, <3>2, AssessKnown
    <3>4. \A v \in known : /\ Assess(v, up, s) \in Freshness \ {"unknown"}
                           /\ Assess(v, up, s) = "latest" <=> CompareStrings(up[1], v) <= 0
      BY <2>1, <2>2, <2>9, AssessKnown
    <3>5. \A f \in F : f = "unknown" \/ \E v \in known : f = Assess(v, up, s)
      BY <2>5, <2>7, AssessUnknown
    <3>6. F \in SUBSET Freshness
      BY <3>4, <3>5 DEF Freshness
    <3>7. row \in F \cup {"unknown"} /\ \A f \in F : Rank[f] <= Rank[row]
      BY <2>4, <3>6, WorstIsWorst
    <3>8. entry \in F
      BY <2>4, <2>6, <3>2
    <3>9. Rank[entry] <= Rank[row]
      BY <3>7, <3>8
    <3>10. row # "unknown"
      BY <3>3, <3>9, RankValues DEF Freshness
    <3>11. PICK v \in known : row = Assess(v, up, s)
      BY <3>5, <3>7, <3>10
    <3>12. entry = "latest" => row = "latest"
      <4>1. CompareStrings(up[1], cur) <= 0 => CompareStrings(up[1], v) <= 0
        BY <2>1, <2>2, <2>9, <3>1, <3>2, VersionsPreordered
      <4> QED
        BY <3>3, <3>4, <3>11, <4>1
    <3>13. row = "latest" => entry = "latest"
      BY <3>3, <3>9, RankValues DEF Freshness
    <3>14. newer # <<>> <=> entry # "latest"
      <4>1. newer = <<>> <=> ~Newer(up[1], cur)
        BY <2>1, <2>9, <3>2, NewerThanEmpty
      <4>2. Newer(up[1], cur) <=> ~(CompareStrings(up[1], cur) <= 0)
        BY <2>1, <2>9, <3>2, VersionsPreordered DEF Newer
      <4> QED
        BY <3>3, <4>1, <4>2
    <3>15. s = 0 => entry = row
      <4> SUFFICES ASSUME s = 0 PROVE entry = row
        OBVIOUS
      <4>1. Rank[row] <= Rank[entry]
        BY <2>1, <2>2, <2>4, <2>9, <3>1, <3>2, <3>11, AssessOrders
      <4>2. row \in Freshness /\ entry \in Freshness
        BY <3>3, <3>4, <3>11
      <4> QED
        BY <4>1, <4>2, <3>9, RankValues DEF Freshness
    <3> QED
      BY <3>3, <3>9, <3>10, <3>12, <3>13, <3>14, <3>15 DEF row, entry, cur, up, s
  <2> QED
    BY <2>8, <2>9
<1>2. Init => ToldInv
  BY ToldAssumption DEF Init, ToldInv, IsTold
<1> QED
  BY <1>1, <1>2, TypeCorrect, ToldStep, PTL DEF Spec

-----------------------------------------------------------------------------
(* The kustomization.yaml of the platform's directory, for any releases.     *)

(* A release that is being created is there, or has been deleted and is      *)
(* forgotten; and the file that is about to be written lists it and whatever *)
(* creations have told of, although people add and delete files meanwhile.   *)
ListedInv ==
  /\ KustomizationTypeOK
  /\ creating \in directory \cup {NoRelease}
  /\ UpdatedIsApplied
  /\ (Beside /\ pc = "write") => told \cup ({creating} \ {NoRelease}) \subseteq listing

LEMMA CommandListed ==
  ASSUME ListedInv, Command
  PROVE  ListedInv'
<1> USE NoReleaseAssumption DEF ListedInv, KustomizationTypeOK, UpdatedIsApplied
<1>1. ASSUME NEW n \in Releases, NEW force \in BOOLEAN, Create(n, force) \/ CreateFails(n, force)
      PROVE  ListedInv'
  BY <1>1 DEF Create, CreateFails, End
<1>2. CASE SyncNothing \/ Refuse \/ Stop
  BY <1>2 DEF SyncNothing, Refuse, Stop, End
<1>3. CASE SyncOwn \/ Kustomize \/ Check \/ CheckUnread
  BY <1>3 DEF SyncOwn, Kustomize, Check, CheckUnread, Go
<1>4. CASE List
  BY <1>4 DEF List, Go
<1>5. CASE Write
  BY <1>5 DEF Write, Writes, End
<1>6. CASE WriteFails
  BY <1>6 DEF WriteFails, Writes, End
<1> QED
  BY <1>1, <1>2, <1>3, <1>4, <1>5, <1>6 DEF Command

LEMMA PeopleListed ==
  ASSUME ListedInv, People \/ UNCHANGED kustomizationVars
  PROVE  ListedInv'
<1> USE NoReleaseAssumption DEF ListedInv, KustomizationTypeOK, UpdatedIsApplied
<1>1. ASSUME NEW n \in Releases, Add(n)
      PROVE  ListedInv'
  BY <1>1 DEF Add
<1>2. ASSUME NEW n \in Releases, Remove(n)
      PROVE  ListedInv'
  BY <1>2 DEF Remove
<1>3. ASSUME NEW n \in Releases, Unlist(n)
      PROVE  ListedInv'
  BY <1>3 DEF Unlist
<1>4. CASE Replace
  BY <1>4 DEF Replace
<1>5. CASE UNCHANGED kustomizationVars
  BY <1>5 DEF kustomizationVars
<1> QED
  BY <1>1, <1>2, <1>3, <1>4, <1>5 DEF People

(* A release whose creation told that the kustomization was updated stays    *)
(* listed, whatever commands come, fail or are killed since, as long as the  *)
(* file is pbom's and whole, the release is there and people have not taken  *)
(* it out (cli/kustomize.go:86-99), for any releases.                        *)
THEOREM UpdatedIsAppliedHolds == KustomizationSpec => []UpdatedIsApplied
<1>1. KustomizationInit => ListedInv
  BY DEF KustomizationInit, ListedInv, KustomizationTypeOK, UpdatedIsApplied
<1>2. ListedInv /\ [KustomizationNext]_kustomizationVars => ListedInv'
  BY CommandListed, PeopleListed DEF KustomizationNext
<1>3. ListedInv => UpdatedIsApplied
  BY DEF ListedInv
<1> QED
  BY <1>1, <1>2, <1>3, PTL DEF KustomizationSpec
=============================================================================
