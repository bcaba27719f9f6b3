--------------------------- MODULE DiscoveryProofs ---------------------------
(***************************************************************************)
(* Proofs about Discovery, for any catalog, landscapes and cluster, and at *)
(* the end about CloudToken, the token that the requests of a discovery    *)
(* carry.                                                                  *)
(***************************************************************************)
EXTENDS Discovery, CloudToken, TLAPS, FiniteSetTheorems, WellFoundedInduction

(* The order of the requests; functions are done when configurations are.  *)
Place(p) ==
  IF p = "server" THEN 0 ELSE IF p = "groups" THEN 1
  ELSE IF p = "deployments" THEN 2 ELSE IF p = "statefulsets" THEN 3
  ELSE IF p = "daemonsets" THEN 4 ELSE IF p = "secrets" THEN 5
  ELSE IF p = "providers" THEN 6
  ELSE IF p \in {"functions", "betaFunctions"} THEN 7
  ELSE IF p = "configurations" THEN 8
  ELSE IF p = "collect" THEN 9 ELSE 10

Passed(l) == Place(l) < Place(pc)

(* Evidence for all that o speaks for, or an error that tells.             *)
Accounted(o) ==
  (\A n \in Named(o) : <<o, n>> \in found) \/ errors \cap Tells(Is[o].list) # {}

(* Of a list that was passed everything stable is accounted for ...        *)
PassedInv == pc # "done" => \A o \in stable : Passed(Is[o].list) => Accounted(o)

(* ... of the one being read, everything that later pages do not bring ... *)
PageInv ==
  rest # {} => \A o \in stable \ rest : Is[o].list = pc => \A n \in Named(o) : <<o, n>> \in found

(* ... packages are left out only when there are none or the groups failed *)
PackagesInv ==
  /\ Packaged(cluster) # {} => PackageAPI \in cluster
  /\ Place(pc) > 1 /\ pc # "done" =>
       packages \/ "api groups" \in errors \/ Packaged(stable) = {}

(* ... and the inventory has a component for all the evidence.             *)
InventoryInv ==
  \/ inventory = NoInventory
  \/ /\ pc = "done"
     /\ DOMAIN inventory = Found
     /\ \A o \in stable : Accounted(o)

IInv == TypeOK /\ PassedInv /\ PageInv /\ PackagesInv /\ InventoryInv

-------------------------------------------------------------------------------
(* The catalog names components.                                           *)
LEMMA NamesTyped ==
  ASSUME NEW o \in Object, NEW l \in Landscapes
  PROVE  Names(o, l) \subseteq Name
<1>1. DOMAIN Definitions \subseteq Name
  BY CatalogAssumption DEF Definitions
<1>2. Claimants(Is[o].ref) \subseteq Name
  BY <1>1 DEF Claimants
<1>3. Is[o].ref \in Ref
  BY ObjectAssumption
<1>4. OwnName[Is[o].ref] \in Name
  BY <1>3, CatalogAssumption
<1>5. Is[o].ref \in DOMAIN l => l[Is[o].ref] \in Name
  BY CatalogAssumption
<1> QED
  BY <1>2, <1>4, <1>5 DEF Names, Project

LEMMA EvidenceTyped ==
  ASSUME TypeOK, NEW S \in SUBSET Object
  PROVE  \A e \in Evidence(S) : e[1] \in S /\ e[2] \in Name
<1> SUFFICES ASSUME NEW o \in S, NEW e \in {<<o, n>> : n \in Names(o, landscape)}
             PROVE  e[1] \in S /\ e[2] \in Name
  BY DEF Evidence
<1>1. PICK n \in Names(o, landscape) : e = <<o, n>>
  OBVIOUS
<1>2. landscape \in Landscapes
  BY DEF TypeOK
<1>3. n \in Name
  BY <1>1, <1>2, NamesTyped
<1> QED
  BY <1>1, <1>3

(* Reading an object brings evidence for all that it surely speaks for.    *)
LEMMA EvidenceComplete ==
  ASSUME TypeOK, NEW S, NEW o \in S, NEW n \in Named(o)
  PROVE  <<o, n>> \in Evidence(S)
<1>1. ~Skipped(o) /\ n \in Names(o, landscape)
  BY DEF Named, TypeOK
<1> QED
  BY <1>1 DEF Evidence

-------------------------------------------------------------------------------
LEMMA InitIInv == Init => IInv
<1> SUFFICES ASSUME Init PROVE IInv
  OBVIOUS
<1>1. TypeOK
  <2>1. 0 \in 0..MaxChanges
    BY BoundAssumption
  <2>2. Start \subseteq Object
    BY ObjectAssumption
  <2> QED
    BY <2>1, <2>2 DEF Init, TypeOK
<1>2. PassedInv
  <2>1. \A o \in stable : Is[o].list \in Lists
    BY ObjectAssumption DEF Init
  <2>2. \A l \in Lists : ~(Place(l) < Place("server"))
    BY DEF Place, Lists, Workloads, Packages
  <2> QED
    BY <2>1, <2>2 DEF Init, PassedInv, Passed
<1>3. PageInv /\ InventoryInv
  BY DEF Init, PageInv, InventoryInv
<1>4. PackagesInv
  BY ObjectAssumption DEF Init, PackagesInv, Packaged, Place
<1> QED
  BY <1>1, <1>2, <1>3, <1>4 DEF IInv

LEMMA TypeStep == TypeOK /\ [Next]_vars => TypeOK'
<1> SUFFICES ASSUME TypeOK, [Next]_vars PROVE TypeOK'
  OBVIOUS
<1>l. \A l : InList(l) \subseteq Object /\ \A o \in InList(l) : Is[o].list = l
  BY DEF InList, TypeOK
<1>a. \A l \in Lister : After(l) \in Lister \cup {"collect"}
  BY DEF After, PackagesOrEnd, Lister, Workloads, Packages
<1>s. \A p \in {"server", "groups", "betaFunctions", "collect", "done"} : p \notin Lister
  BY DEF Lister, Workloads, Packages
<1>r. pc \notin Lister => rest = {}
  BY DEF TypeOK
<1>w. \A l \in Workloads \cup Packages \cup {"secrets"} : l \in Lister
  BY DEF Lister
<1>1. CASE Reach
  <2>1. \A e \in Evidence(InList("server")) : e[1] \in Object /\ e[2] \in Name
    BY <1>l, EvidenceTyped
  <2>2. rest = {}
    BY <1>1, <1>s, <1>r DEF Reach
  <2> QED
    BY <1>1, <2>1, <2>2 DEF Reach, TypeOK
<1>2. CASE Unreachable
  <2>1. rest = {}
    BY <1>2, <1>s, <1>r DEF Unreachable
  <2> QED
    BY <1>2, <2>1 DEF Unreachable, TypeOK
<1>3. CASE Groups
  <2>1. \A e \in Evidence(InList("groups")) : e[1] \in Object /\ e[2] \in Name
    BY <1>l, EvidenceTyped
  <2>2. rest = {} /\ "deployments" \in Lister
    BY <1>3, <1>s, <1>r, <1>w DEF Groups, Workloads
  <2>3. packages' \in BOOLEAN
    BY <1>3 DEF Groups
  <2> QED
    BY <1>3, <2>1, <2>2, <2>3 DEF Groups, TypeOK
<1>4. CASE GroupsFail
  <2>1. rest = {} /\ "deployments" \in Lister
    BY <1>4, <1>s, <1>r, <1>w DEF GroupsFail, Workloads
  <2> QED
    BY <1>4, <2>1 DEF GroupsFail, TypeOK
<1>5. ASSUME NEW l \in Lister, Page(l) PROVE TypeOK'
  <2> DEFINE all == IF rest = {} THEN InList(l) ELSE rest
  <2>1. all \subseteq {o \in Object : Is[o].list = l}
    BY <1>5, <1>l, <1>a DEF Page, TypeOK
  <2>2. PICK S \in SUBSET all : /\ found' = found \cup Evidence(S)
                                /\ rest' = all \ S
                                /\ pc' = IF S = all THEN After(l) ELSE l
    BY <1>5 DEF Page
  <2>3. \A e \in Evidence(S) : e[1] \in Object /\ e[2] \in Name
    BY <2>1, EvidenceTyped
  <2>4. pc' \in Lister \cup {"collect"}
    BY <2>2, <1>a
  <2>5. rest' \subseteq {o \in Object : Is[o].list = pc' /\ pc' \in Lister}
    BY <2>1, <2>2
  <2> QED
    BY <1>5, <2>2, <2>3, <2>4, <2>5 DEF Page, TypeOK
<1>6. CASE BetaFunctions
  <2>1. \A e \in Evidence(InList("functions")) : e[1] \in Object /\ e[2] \in Name
    BY <1>l, EvidenceTyped
  <2>2. rest = {} /\ "configurations" \in Lister
    BY <1>6, <1>s, <1>r, <1>w DEF BetaFunctions, Packages
  <2> QED
    BY <1>6, <2>1, <2>2 DEF BetaFunctions, TypeOK
<1>7. ASSUME NEW at, NEW source, NEW next, Fails(at, source, next),
             source \subseteq {"workloads", "helm releases", "crossplane packages"},
             next \in Lister \cup {"betaFunctions", "collect"}
      PROVE  TypeOK'
  BY <1>7 DEF Fails, TypeOK
<1>f. CASE WorkloadsFail \/ SecretsFail \/ FunctionsFail \/ PackagesFail
  <2>1. {"secrets", "functions", "configurations", PackagesOrEnd} \subseteq Lister \cup {"collect"}
    BY <1>w DEF PackagesOrEnd, Packages
  <2> QED
    BY <1>f, <1>7, <2>1 DEF WorkloadsFail, SecretsFail, FunctionsFail, PackagesFail
<1>8. CASE Collect
  <2>1. DOMAIN inventory' = Found
    BY <1>8 DEF Collect
  <2>2. Found \subseteq Name
    BY DEF Found, TypeOK
  <2>3. rest = {}
    BY <1>8, <1>s, <1>r DEF Collect
  <2> QED
    BY <1>8, <2>1, <2>2, <2>3 DEF Collect, TypeOK
<1>9. CASE Discover
  <2>1. rest = {} /\ FALSE \in BOOLEAN
    BY <1>9, <1>s, <1>r DEF Discover
  <2> QED
    BY <1>9, <2>1 DEF Discover, TypeOK
<1>10. CASE Refresh
  BY <1>10 DEF Refresh, TypeOK
<1>11. ASSUME NEW gone \in SUBSET Object, NEW new \in SUBSET Object, Change(gone, new)
       PROVE  TypeOK'
  <2>0. changed \in 0..MaxChanges
    BY DEF TypeOK
  <2>1. changed' \in 0..MaxChanges
    BY <1>11, <2>0, BoundAssumption DEF Change
  <2>2. cluster' \subseteq Object /\ stable' \subseteq cluster' /\ cluster' \subseteq seen' /\ seen' \subseteq Object
    BY <1>11 DEF Change, TypeOK
  <2> QED
    BY <1>11, <2>1, <2>2 DEF Change, TypeOK
<1>c. CASE \E gone, new \in {{}} \cup {{o} : o \in Object} : Change(gone, new)
  <2>1. \A S \in {{}} \cup {{o} : o \in Object} : S \in SUBSET Object
    OBVIOUS
  <2> QED
    BY <1>c, <2>1, <1>11
<1>12. CASE UNCHANGED vars
  BY <1>12 DEF vars, TypeOK
<1> QED
  BY <1>1, <1>2, <1>3, <1>4, <1>5, <1>6, <1>f, <1>8, <1>9, <1>10, <1>c, <1>12 DEF Next, Request

-------------------------------------------------------------------------------
(* What is accounted for stays so while a discovery goes on.               *)
LEMMA AccountedStays ==
  ASSUME found \subseteq found', errors \subseteq errors', NEW o, Accounted(o)
  PROVE  Accounted(o)'
BY DEF Accounted

(* A step of a discovery has to account for the lists it leaves behind.    *)
LEMMA Advance ==
  ASSUME IInv, pc # "done", stable' = stable, found \subseteq found', errors \subseteq errors',
         \A o \in stable : ~Passed(Is[o].list) /\ Passed(Is[o].list)' => Accounted(o)'
  PROVE  PassedInv'
<1> SUFFICES ASSUME NEW o \in stable, Passed(Is[o].list)'
             PROVE  Accounted(o)'
  BY DEF PassedInv
<1>1. CASE Passed(Is[o].list)
  BY <1>1, AccountedStays DEF IInv, PassedInv
<1>2. CASE ~Passed(Is[o].list)
  BY <1>2
<1> QED
  BY <1>1, <1>2

LEMMA PackagesStay ==
  ASSUME IInv, pc # "done", Place(pc) > 1,
         UNCHANGED <<cluster, packages, stable>>, errors \subseteq errors'
  PROVE  PackagesInv'
BY DEF IInv, PackagesInv

(* Where packages are not asked for, they are accounted for.               *)
LEMMA PackagesAccounted ==
  ASSUME IInv, pc # "done", Place(pc) > 1, ~packages, NEW o \in stable, Is[o].list \in Packages
  PROVE  Accounted(o)
<1>1. "api groups" \in errors
  BY DEF IInv, PackagesInv, Packaged
<1>2. "api groups" \in Tells(Is[o].list)
  BY DEF Tells, Packages, Workloads
<1> QED
  BY <1>1, <1>2 DEF Accounted

(* What is read is accounted for.                                          *)
LEMMA ReadAccounted ==
  ASSUME TypeOK, NEW S, Evidence(S) \subseteq found', NEW o \in S
  PROVE  Accounted(o)'
BY EvidenceComplete DEF Accounted

LEMMA StableListed ==
  ASSUME TypeOK, NEW o \in stable
  PROVE  o \in InList(Is[o].list) /\ Is[o].list \in Lists
BY ObjectAssumption DEF TypeOK, InList

-------------------------------------------------------------------------------
LEMMA InitialSteps ==
  ASSUME IInv, Reach \/ Unreachable \/ Groups \/ GroupsFail
  PROVE  PassedInv' /\ PageInv' /\ PackagesInv' /\ InventoryInv'
<1> USE DEF Place, Lists, Workloads, Packages
<1>0. /\ pc \in {"server", "groups"} => rest = {} /\ inventory = NoInventory
      /\ Packaged(cluster) # {} => PackageAPI \in cluster
      /\ stable \subseteq cluster
  BY DEF IInv, TypeOK, InventoryInv, PackagesInv, Lister
<1>1. CASE Reach
  <2>1. \A o \in stable : Is[o].list = "server" => Accounted(o)'
    BY <1>1, StableListed, ReadAccounted DEF Reach, IInv
  <2>2. \A o \in stable : Passed(Is[o].list)' => Is[o].list = "server"
    BY <1>1, StableListed DEF Reach, IInv, Passed
  <2>3. PassedInv'
    BY <1>1, <2>1, <2>2 DEF Reach, PassedInv
  <2> QED
    BY <1>0, <1>1, <2>3 DEF Reach, PageInv, PackagesInv, InventoryInv
<1>2. CASE Unreachable
  BY <1>0, <1>2 DEF Unreachable, PassedInv, PageInv, PackagesInv, InventoryInv
<1>3. CASE Groups
  <2>1. \A o \in stable : Is[o].list = "groups" => Accounted(o)'
    BY <1>3, StableListed, ReadAccounted DEF Groups, IInv
  <2>2. \A o \in stable : ~Passed(Is[o].list) /\ Passed(Is[o].list)' => Is[o].list = "groups"
    BY <1>3, StableListed DEF Groups, IInv, Passed
  <2>3. PassedInv'
    BY <1>3, <2>1, <2>2, Advance DEF Groups
  <2>4. packages' \/ Packaged(stable)' = {}
    BY <1>0, <1>3 DEF Groups, Packaged
  <2>5. PackagesInv'
    BY <1>0, <1>3, <2>4 DEF Groups, PackagesInv
  <2> QED
    BY <1>0, <1>3, <2>3, <2>5 DEF Groups, PageInv, InventoryInv
<1>4. CASE GroupsFail
  <2>1. \A o \in stable : Is[o].list = "groups" => Accounted(o)'
    <3>1. "api groups" \in errors' \cap Tells("groups")
      BY <1>4 DEF GroupsFail, Tells
    <3> QED
      BY <3>1 DEF Accounted
  <2>2. \A o \in stable : ~Passed(Is[o].list) /\ Passed(Is[o].list)' => Is[o].list = "groups"
    <3>1. pc = "groups" /\ pc' = "deployments"
      BY <1>4 DEF GroupsFail
    <3> QED
      BY <3>1, StableListed DEF IInv, Passed
  <2>3. PassedInv'
    BY <1>4, <2>1, <2>2, Advance DEF GroupsFail
  <2> QED
    BY <1>0, <1>4, <2>3 DEF GroupsFail, PageInv, PackagesInv, InventoryInv
<1> QED
  BY <1>1, <1>2, <1>3, <1>4

(* After a list comes the one that is next in place; only the packages may *)
(* be skipped.                                                             *)
LEMMA AfterPlaces ==
  ASSUME NEW l \in Lister, NEW k \in Lists, ~(Place(k) < Place(l)), Place(k) < Place(After(l))
  PROVE  k = l \/ (~packages /\ k \in Packages)
<1> USE DEF Lister, Lists, Workloads, Packages
<1>1. CASE l = "secrets"
  <2>1. CASE packages
    BY <1>1, <2>1 DEF After, PackagesOrEnd, Place
  <2>2. CASE ~packages
    BY <1>1, <2>2 DEF After, PackagesOrEnd, Place
  <2> QED
    BY <2>1, <2>2
<1>2. CASE l # "secrets"
  BY <1>2 DEF After, Place
<1> QED
  BY <1>1, <1>2

LEMMA PageStep ==
  ASSUME IInv, NEW l \in Lister, Page(l)
  PROVE  PassedInv' /\ PageInv' /\ PackagesInv' /\ InventoryInv'
<1> DEFINE all == IF rest = {} THEN InList(l) ELSE rest
<1>1. PICK S \in SUBSET all : /\ found' = found \cup Evidence(S)
                              /\ rest' = all \ S
                              /\ pc' = IF S = all THEN After(l) ELSE l
  BY DEF Page
<1>2. /\ pc = l /\ pc # "done" /\ Place(pc) > 1
      /\ UNCHANGED <<cluster, landscape, packages, errors, inventory, stable, seen, changed>>
      /\ inventory = NoInventory
  BY DEF Page, Place, Lister, Workloads, Packages, IInv, InventoryInv
<1>3. ASSUME NEW o \in stable, Is[o].list = l, o \notin all \ S
      PROVE  Accounted(o)' /\ \A n \in Named(o) : <<o, n>> \in found'
  <2>1. CASE o \in S
    BY <1>1, <2>1, EvidenceComplete DEF Accounted, IInv
  <2>2. CASE o \notin S
    <3>1. rest # {} /\ o \notin rest
      BY <1>3, <2>2, StableListed DEF IInv
    <3>2. \A n \in Named(o) : <<o, n>> \in found
      BY <1>2, <1>3, <3>1 DEF IInv, PageInv
    <3> QED
      BY <1>1, <3>2 DEF Accounted
  <2> QED
    BY <2>1, <2>2
<1>4. ASSUME NEW o \in stable, ~Passed(Is[o].list), Passed(Is[o].list)'
      PROVE  Accounted(o)'
  <2>1. S = all /\ pc' = After(l)
    BY <1>1, <1>2, <1>4 DEF Passed
  <2>2. Is[o].list = l \/ (~packages /\ Is[o].list \in Packages)
    BY <1>2, <1>4, <2>1, AfterPlaces, StableListed DEF Passed, IInv
  <2>3. CASE Is[o].list = l
    BY <1>3, <2>1, <2>3
  <2>4. CASE ~packages /\ Is[o].list \in Packages
    BY <1>1, <1>2, <2>4, PackagesAccounted, AccountedStays
  <2> QED
    BY <2>2, <2>3, <2>4
<1>5. PassedInv'
  BY <1>1, <1>2, <1>4, Advance
<1>6. PageInv'
  <2> SUFFICES ASSUME rest' # {}, NEW o \in stable \ rest', Is[o].list = pc'
               PROVE  \A n \in Named(o) : <<o, n>> \in found'
    BY <1>2 DEF PageInv
  <2>1. pc' = l
    BY <1>1
  <2> QED
    BY <1>1, <1>3, <2>1
<1>7. PackagesInv'
  BY <1>2, PackagesStay
<1>8. InventoryInv'
  BY <1>2 DEF InventoryInv
<1> QED
  BY <1>5, <1>6, <1>7, <1>8

(* A failure is an error that tells of every list it leaves out.           *)
LEMMA FailsStep ==
  ASSUME IInv, NEW at \in Lister \cup {"betaFunctions"}, NEW source, NEW next, Fails(at, source, next),
         next \in Lister \cup {"betaFunctions", "collect"}, Place(next) > 1,
         \A k \in Lists : ~(Place(k) < Place(at)) /\ Place(k) < Place(next) =>
           source \cap Tells(k) # {} \/ (~packages /\ k \in Packages)
  PROVE  PassedInv' /\ PageInv' /\ PackagesInv' /\ InventoryInv'
<1>1. pc = at /\ pc # "done" /\ Place(pc) > 1
  BY DEF Fails, Place, Lister, Workloads, Packages
<1>2. inventory = NoInventory
  BY <1>1 DEF IInv, InventoryInv
<1>3. errors \subseteq errors' /\ found' = found
  BY DEF Fails
<1>4. ASSUME NEW o \in stable, ~Passed(Is[o].list), Passed(Is[o].list)'
      PROVE  Accounted(o)'
  <2>1. Is[o].list \in Lists
    BY StableListed DEF IInv
  <2>2. source \cap Tells(Is[o].list) # {} \/ (~packages /\ Is[o].list \in Packages)
    BY <1>1, <1>4, <2>1 DEF Fails, Passed
  <2>3. CASE source \cap Tells(Is[o].list) # {}
    BY <2>3 DEF Fails, Accounted
  <2>4. CASE ~packages /\ Is[o].list \in Packages
    BY <1>1, <1>3, <2>4, PackagesAccounted, AccountedStays
  <2> QED
    BY <2>2, <2>3, <2>4
<1>5. PassedInv'
  BY <1>1, <1>3, <1>4, Advance DEF Fails
<1>6. PackagesInv'
  BY <1>1, <1>3, PackagesStay DEF Fails
<1> QED
  BY <1>2, <1>5, <1>6 DEF Fails, PageInv, InventoryInv

LEMMA FailSteps ==
  ASSUME IInv, WorkloadsFail \/ SecretsFail \/ FunctionsFail \/ PackagesFail
  PROVE  PassedInv' /\ PageInv' /\ PackagesInv' /\ InventoryInv'
<1> DEFINE Left(k, at, next) == ~(Place(k) < Place(at)) /\ Place(k) < Place(next)
<1>1. ASSUME NEW l \in Workloads, Fails(l, {"workloads"}, "secrets")
      PROVE  PassedInv' /\ PageInv' /\ PackagesInv' /\ InventoryInv'
  <2>1. \A k \in Workloads : {"workloads"} \cap Tells(k) # {}
    BY DEF Tells, Workloads
  <2>2. \A k \in Lists : Left(k, l, "secrets") => k \in Workloads
    BY DEF Place, Lists, Workloads, Packages
  <2>3. l \in Lister /\ "secrets" \in Lister /\ Place("secrets") > 1
    BY DEF Lister, Place
  <2>4. \A k \in Lists : Left(k, l, "secrets") =>
          {"workloads"} \cap Tells(k) # {} \/ (~packages /\ k \in Packages)
    BY <2>1, <2>2
  <2> HIDE DEF Left
  <2>5. l \in Lister \cup {"betaFunctions"} /\ "secrets" \in Lister \cup {"betaFunctions", "collect"}
    BY <2>3
  <2> QED
    BY <1>1, <2>3, <2>4, <2>5, FailsStep DEF Left
<1>2. CASE SecretsFail
  <2>1. {"helm releases"} \cap Tells("secrets") # {}
    BY DEF Tells, Workloads
  <2>2. After("secrets") = PackagesOrEnd /\ "secrets" \in Lister
    BY DEF After, Lister
  <2>3. \A k \in Lists : Left(k, "secrets", PackagesOrEnd) => k = "secrets" \/ (~packages /\ k \in Packages)
    BY <2>2, AfterPlaces
  <2>4. PackagesOrEnd \in Lister \cup {"collect"} /\ Place(PackagesOrEnd) > 1
    BY DEF PackagesOrEnd, Lister, Packages, Place
  <2>5. \A k \in Lists : Left(k, "secrets", PackagesOrEnd) =>
          {"helm releases"} \cap Tells(k) # {} \/ (~packages /\ k \in Packages)
    BY <2>1, <2>3
  <2>6. Fails("secrets", {"helm releases"}, PackagesOrEnd)
    BY <1>2 DEF SecretsFail
  <2> HIDE DEF Left
  <2>7. ASSUME NEW next, next = PackagesOrEnd
        PROVE  PassedInv' /\ PageInv' /\ PackagesInv' /\ InventoryInv'
    <3>1. next \in Lister \cup {"betaFunctions", "collect"} /\ Place(next) > 1
      BY <2>4, <2>7
    <3>2. "secrets" \in Lister \cup {"betaFunctions"}
      BY <2>2
    <3>3. Fails("secrets", {"helm releases"}, next)
      BY <2>6, <2>7
    <3>4. \A k \in Lists : Left(k, "secrets", next) =>
            {"helm releases"} \cap Tells(k) # {} \/ (~packages /\ k \in Packages)
      BY <2>5, <2>7
    <3> QED
      BY <3>1, <3>2, <3>3, <3>4, FailsStep DEF Left
  <2> QED
    BY <2>7
<1>3. CASE FunctionsFail
  <2>1. \A k \in Lists : ~Left(k, "functions", "betaFunctions")
    BY DEF Place
  <2>2. "functions" \in Lister /\ Place("betaFunctions") > 1
    BY DEF Lister, Packages, Place
  <2> QED
    BY <1>3, <2>1, <2>2, FailsStep DEF FunctionsFail
<1>4. CASE PackagesFail
  <2>1. \A k \in Packages : {"crossplane packages"} \cap Tells(k) # {}
    BY DEF Tells, Packages, Workloads
  <2>2. ASSUME NEW at \in Lister \cup {"betaFunctions"}, NEW next \in Lister \cup {"betaFunctions", "collect"},
               Fails(at, {"crossplane packages"}, next), Place(next) > 1,
               \A k \in Lists : Left(k, at, next) => k \in Packages
        PROVE  PassedInv' /\ PageInv' /\ PackagesInv' /\ InventoryInv'
    <3>1. \A k \in Lists : Left(k, at, next) =>
            {"crossplane packages"} \cap Tells(k) # {} \/ (~packages /\ k \in Packages)
      BY <2>1, <2>2
    <3> QED
      BY <2>2, <3>1, FailsStep
  <2>3. /\ {"providers", "betaFunctions", "configurations"} \subseteq Lister \cup {"betaFunctions"}
        /\ {"functions", "configurations", "collect"} \subseteq Lister \cup {"betaFunctions", "collect"}
        /\ Place("functions") > 1 /\ Place("configurations") > 1 /\ Place("collect") > 1
    BY DEF Place, Lister, Workloads, Packages
  <2>4. CASE Fails("providers", {"crossplane packages"}, "functions")
    <3>1. "providers" \in Lister \cup {"betaFunctions"} /\ "functions" \in Lister \cup {"betaFunctions", "collect"}
      BY <2>3
    <3>2. \A k \in Lists : Left(k, "providers", "functions") => k \in Packages
      BY DEF Left, Place, Lists, Workloads, Packages
    <3> QED
      BY <2>2, <2>3, <2>4, <3>1, <3>2
  <2>5. CASE Fails("betaFunctions", {"crossplane packages"}, "configurations")
    <3>1. "betaFunctions" \in Lister \cup {"betaFunctions"} /\ "configurations" \in Lister \cup {"betaFunctions", "collect"}
      BY <2>3
    <3>2. \A k \in Lists : Left(k, "betaFunctions", "configurations") => k \in Packages
      BY DEF Left, Place, Lists, Workloads, Packages
    <3> QED
      BY <2>2, <2>3, <2>5, <3>1, <3>2
  <2>6. CASE Fails("configurations", {"crossplane packages"}, "collect")
    <3>1. "configurations" \in Lister \cup {"betaFunctions"} /\ "collect" \in Lister \cup {"betaFunctions", "collect"}
      BY <2>3
    <3>2. \A k \in Lists : Left(k, "configurations", "collect") => k \in Packages
      BY DEF Left, Place, Lists, Workloads, Packages
    <3> QED
      BY <2>2, <2>3, <2>6, <3>1, <3>2
  <2> QED
    BY <1>4, <2>4, <2>5, <2>6 DEF PackagesFail
<1> QED
  BY <1>1, <1>2, <1>3, <1>4 DEF WorkloadsFail

LEMMA OtherSteps ==
  ASSUME IInv, BetaFunctions \/ Collect \/ Discover \/ Refresh \/ UNCHANGED vars
  PROVE  PassedInv' /\ PageInv' /\ PackagesInv' /\ InventoryInv'
<1> USE DEF Place, Lists, Workloads, Packages
<1>1. CASE BetaFunctions
  <2>1. \A o \in stable : Is[o].list = "functions" => Accounted(o)'
    BY <1>1, StableListed, ReadAccounted DEF BetaFunctions, IInv
  <2>2. \A o \in stable : ~Passed(Is[o].list) /\ Passed(Is[o].list)' => Is[o].list = "functions"
    BY <1>1, StableListed DEF BetaFunctions, IInv, Passed
  <2>3. PassedInv'
    BY <1>1, <2>1, <2>2, Advance DEF BetaFunctions
  <2>4. rest = {} /\ inventory = NoInventory
    BY <1>1 DEF BetaFunctions, IInv, TypeOK, Lister, InventoryInv
  <2>5. PackagesInv'
    BY <1>1, PackagesStay DEF BetaFunctions
  <2> QED
    BY <1>1, <2>3, <2>4, <2>5 DEF BetaFunctions, PageInv, InventoryInv
<1>2. CASE Collect
  <2>1. \A o \in stable : Accounted(o)
    BY <1>2, StableListed DEF Collect, IInv, PassedInv, Passed
  <2>2. DOMAIN inventory' = Found /\ pc' = "done" /\ UNCHANGED <<cluster, rest, found, packages, errors, stable>>
    BY <1>2 DEF Collect
  <2>3. rest = {}
    BY <1>2 DEF Collect, IInv, TypeOK, Lister
  <2>4. InventoryInv'
    BY <2>1, <2>2, AccountedStays DEF InventoryInv, Found
  <2> QED
    BY <2>2, <2>3, <2>4 DEF PassedInv, PageInv, PackagesInv, IInv
<1>3. CASE Discover
  <2>1. \A o \in stable' : Is[o].list \in Lists
    BY <1>3, ObjectAssumption DEF Discover, IInv, TypeOK
  <2>2. \A l \in Lists : ~Passed(l)'
    BY <1>3 DEF Discover, Passed
  <2>3. rest = {}
    BY <1>3 DEF Discover, IInv, TypeOK, Lister
  <2> QED
    BY <1>3, <2>1, <2>2, <2>3 DEF Discover, PassedInv, PageInv, PackagesInv, InventoryInv, IInv
<1>4. CASE Refresh \/ UNCHANGED vars
  <2>1. UNCHANGED <<cluster, pc, rest, found, packages, errors, inventory, stable>>
    BY <1>4 DEF Refresh, vars
  <2>2. PassedInv' /\ PageInv'
    BY <2>1 DEF IInv, PassedInv, PageInv, Passed, Accounted
  <2>3. PackagesInv'
    BY <2>1 DEF IInv, PackagesInv
  <2>4. InventoryInv'
    BY <2>1 DEF IInv, InventoryInv, Accounted, Found
  <2> QED
    BY <2>2, <2>3, <2>4
<1> QED
  BY <1>1, <1>2, <1>3, <1>4

LEMMA ChangeStep ==
  ASSUME IInv, NEW gone \in SUBSET Object, NEW new \in SUBSET Object, Change(gone, new)
  PROVE  PassedInv' /\ PageInv' /\ PackagesInv' /\ InventoryInv'
<1>1. UNCHANGED <<pc, rest, found, packages, errors, inventory>> /\ stable' \subseteq stable
  BY DEF Change
<1>2. PassedInv' /\ PageInv' /\ InventoryInv'
  BY <1>1 DEF IInv, PassedInv, PageInv, InventoryInv, Passed, Accounted, Found
<1>3. Packaged(cluster') # {} => PackageAPI \in cluster'
  <2> SUFFICES ASSUME NEW o \in cluster', Is[o].list \in Packages
               PROVE  PackageAPI \in cluster'
    BY DEF Packaged
  <2>1. cluster' = (cluster \ gone) \cup new
    BY DEF Change
  <2>2. PackageAPI \notin gone \ new
    BY <2>1 DEF Change, Packaged
  <2>3. PackageAPI \in cluster
    BY <2>1 DEF Change, Packaged, IInv, PackagesInv
  <2> QED
    BY <2>1, <2>2, <2>3
<1>4. Packaged(stable)' \subseteq Packaged(stable)
  BY <1>1 DEF Packaged
<1> QED
  BY <1>1, <1>2, <1>3, <1>4 DEF IInv, PackagesInv

LEMMA NextIInv == IInv /\ [Next]_vars => IInv'
<1> SUFFICES ASSUME IInv, [Next]_vars PROVE IInv'
  OBVIOUS
<1>1. TypeOK'
  BY TypeStep DEF IInv
<1>2. ASSUME NEW gone \in {{}} \cup {{o} : o \in Object}, NEW new \in {{}} \cup {{o} : o \in Object},
             Change(gone, new)
      PROVE  PassedInv' /\ PageInv' /\ PackagesInv' /\ InventoryInv'
  <2>1. gone \in SUBSET Object /\ new \in SUBSET Object
    OBVIOUS
  <2> QED
    BY <1>2, <2>1, ChangeStep
<1>3. PassedInv' /\ PageInv' /\ PackagesInv' /\ InventoryInv'
  BY <1>2, InitialSteps, PageStep, FailSteps, OtherSteps DEF Next, Request
<1> QED
  BY <1>1, <1>3 DEF IInv

LEMMA Invariance == Spec => []IInv
BY InitIInv, NextIInv, PTL DEF Spec

-------------------------------------------------------------------------------
(* Type correctness.                                                       *)
THEOREM TypeCorrect == Spec => []TypeOK
<1>1. IInv => TypeOK
  BY DEF IInv
<1> QED
  BY <1>1, Invariance, PTL

(* Nothing that was there all the time is missing without an error that    *)
(* tells (discovery.go, Discover).                                         *)
THEOREM MissingIsToldHolds == Spec => []MissingIsTold
<1>1. IInv => MissingIsTold
  <2> SUFFICES ASSUME IInv, Discovered, NEW o \in stable, NEW n \in Named(o),
                      errors \cap Tells(Is[o].list) = {}
               PROVE  <<o, n>> \in found /\ n \in DOMAIN inventory
    BY DEF MissingIsTold
  <2>1. DOMAIN inventory = Found /\ Accounted(o)
    BY DEF IInv, InventoryInv, Discovered
  <2>2. <<o, n>> \in found
    BY <2>1 DEF Accounted
  <2>3. n \in Found
    BY <2>2 DEF Found
  <2> QED
    BY <2>1, <2>2, <2>3
<1> QED
  BY <1>1, Invariance, PTL

-------------------------------------------------------------------------------
(* A finite set with a strict order has an element nothing is before: the  *)
(* sets of what is before each element have a minimal one.                 *)
LEMMA MinimalExists ==
  ASSUME NEW S, IsFiniteSet(S), S # {}, NEW R,
         \A x \in S : <<x, x>> \notin R,
         \A x, y, z \in S : <<x, y>> \in R /\ <<y, z>> \in R => <<x, z>> \in R
  PROVE  \E x \in S : \A y \in S : <<y, x>> \notin R
<1> DEFINE Under(x) == {y \in S : <<y, x>> \in R}
           T == {Under(x) : x \in S}
<1>1. T \subseteq FiniteSubsetsOf(S) /\ T # {}
  <2>1. FiniteSubsetsOf(S) = SUBSET S
    BY FS_FiniteSubsetsOfFinite
  <2>2. T \subseteq SUBSET S
    <3> SUFFICES ASSUME NEW B \in T PROVE B \subseteq S
      OBVIOUS
    <3>1. PICK x \in S : B = Under(x)
      OBVIOUS
    <3> QED
      BY <3>1
  <2>3. T # {}
    <3>1. PICK x \in S : TRUE
      OBVIOUS
    <3>2. Under(x) \in T
      OBVIOUS
    <3> QED
      BY <3>2
  <2> HIDE DEF T
  <2> QED
    BY <2>1, <2>2, <2>3
<1>2. PICK B \in T : \A C \in T : <<C, B>> \notin StrictSubsetOrdering(S)
  <2> HIDE DEF T
  <2> QED BY <1>1, FS_StrictSubsetOrderingWellFounded, WFMin
<1>3. PICK x \in S : B = Under(x)
  OBVIOUS
<1>4. ASSUME NEW y \in S, <<y, x>> \in R PROVE FALSE
  <2>1. Under(y) \subseteq Under(x)
    BY <1>4
  <2>2. y \in Under(x) /\ y \notin Under(y)
    BY <1>4
  <2>3. <<Under(y), Under(x)>> \in StrictSubsetOrdering(S)
    BY <2>1, <2>2 DEF StrictSubsetOrdering
  <2>4. Under(y) \in T
    OBVIOUS
  <2> HIDE DEF T
  <2> QED
    BY <2>3, <2>4, <1>2, <1>3
<1> QED
  BY <1>4

(* Being newer is a strict order of the versions (version.go,              *)
(* CompareStrings).                                                        *)
LEMMA NewerOrders ==
  /\ \A a \in Version : ~Newer(a, a)
  /\ \A a, b, c \in Version : Newer(a, b) /\ Newer(b, c) => Newer(a, c)
<1> USE DEF Newer, CompareStrings, Compare, Sign, Parsed, Prerelease
<1> DEFINE Typed(v) == v.parts \in 0..3 /\ v.major \in Nat /\ v.minor \in Nat /\ v.patch \in Nat
<1>1. \A v \in Version : Typed(v)
  BY DEF Version
<1>2. ASSUME NEW a, Typed(a) PROVE ~Newer(a, a)
  BY <1>2
<1>3. ASSUME NEW a, NEW b, NEW c, Typed(a), Typed(b), Typed(c), Newer(a, b), Newer(b, c)
      PROVE  Newer(a, c)
  BY <1>3
<1> HIDE DEF Typed, Newer
<1> QED
  BY <1>1, <1>2, <1>3

LEMMA DisplayIsVersion == ASSUME NEW v \in Version PROVE Display(v) \in Version
<1>1. v.parts < 3 => v.patch = 0
  BY DEF Version
<1>2. v.parts < 2 => v.minor = 0
  BY DEF Version
<1>3. Normalize(v) = [parts |-> v.parts, major |-> v.major, minor |-> v.minor,
                      patch |-> v.patch, suffix |-> NoSuffix]
  BY DEF Normalize, Version
<1>4. /\ v.parts \in 0..3 /\ v.major \in Nat /\ v.minor \in Nat /\ v.patch \in Nat
      /\ NoSuffix \in Suffixes
  BY SuffixAssumption DEF Version
<1>5. Normalize(v) \in Version
  BY <1>1, <1>2, <1>3, <1>4 DEF Version
<1> QED
  BY <1>5 DEF Display

-------------------------------------------------------------------------------
(* Among objects that tell a version, the most trustworthy decide ...      *)
LEMMA DecidingExists ==
  ASSUME NEW S \in SUBSET Object, Telling(S) # {}
  PROVE  Deciding(S) # {}
<1> DEFINE R == {r \in Object \X Object : Rank(Is[r[1]].list) < Rank(Is[r[2]].list)}
<1>1. Telling(S) \subseteq Object /\ IsFiniteSet(Telling(S))
  <2>1. Telling(S) \subseteq Object
    BY DEF Telling
  <2> QED
    BY <2>1, ObjectAssumption, FS_Subset
<1>2. \A o \in Object : Rank(Is[o].list) \in 0..3
  BY DEF Rank
<1>3. \A x \in Telling(S) : <<x, x>> \notin R
  BY <1>1, <1>2
<1>4. \A x, y, z \in Telling(S) : <<x, y>> \in R /\ <<y, z>> \in R => <<x, z>> \in R
  BY <1>1, <1>2
<1>5. PICK o \in Telling(S) : \A p \in Telling(S) : <<p, o>> \notin R
  <2> HIDE DEF R
  <2> QED BY <1>1, <1>3, <1>4, MinimalExists
<1>6. \A p \in Telling(S) : Rank(Is[o].list) <= Rank(Is[p].list)
  <2> SUFFICES ASSUME NEW p \in Telling(S) PROVE Rank(Is[o].list) <= Rank(Is[p].list)
    OBVIOUS
  <2>1. <<p, o>> \in Object \X Object
    BY <1>1
  <2>2. ~(Rank(Is[p].list) < Rank(Is[o].list))
    BY <2>1, <1>5
  <2>3. Rank(Is[p].list) \in 0..3 /\ Rank(Is[o].list) \in 0..3
    BY <1>1, <1>2
  <2> HIDE DEF R
  <2> QED
    BY <2>2, <2>3
<1> QED
  BY <1>6 DEF Deciding

(* ... and whatever order their versions are visited in, one is chosen     *)
(* (resolve.go, ResolveVersion).                                           *)
LEMMA ChoicesExist ==
  ASSUME NEW S \in SUBSET Object
  PROVE  Choices(S) # {}
<1> DEFINE D == Deciding(S)
           shown == {Display(Is[o].version) : o \in D}
           count == [v \in shown |-> Cardinality({o \in D : Display(Is[o].version) = v})]
           Beats(v, w) == count[v] > count[w] \/ (count[v] = count[w] /\ Newer(v, w))
           R == {r \in shown \X shown : Beats(r[1], r[2])}
<1>1. D \subseteq Object /\ IsFiniteSet(D)
  <2>1. D \subseteq Object
    BY DEF Deciding, Telling
  <2> QED
    BY <2>1, ObjectAssumption, FS_Subset
<1>2. shown \subseteq Version
  BY <1>1, ObjectAssumption, DisplayIsVersion
<1>3. IsFiniteSet(shown)
  <2>1. [o \in D |-> Display(Is[o].version)] \in Surjection(D, shown)
    BY DEF Surjection
  <2> HIDE DEF shown
  <2> QED
    BY <1>1, <2>1, FS_Surjection
<1>4. \A v \in shown : count[v] \in Nat
  <2> SUFFICES ASSUME NEW v \in shown
               PROVE  Cardinality({o \in D : Display(Is[o].version) = v}) \in Nat
    OBVIOUS
  <2>1. IsFiniteSet({o \in D : Display(Is[o].version) = v})
    BY <1>1, FS_Subset
  <2> QED
    BY <2>1, FS_CardinalityType
<1>5. CASE D = {}
  BY <1>5 DEF Choices
<1>6. CASE D # {}
  <2>1. shown # {}
    BY <1>6
  <2>2. \E v \in shown : \A w \in shown : ~Beats(w, v)
    <3> HIDE DEF count, shown, D
    <3>1. \A v \in shown : ~Beats(v, v)
      BY <1>2, <1>4, NewerOrders
    <3>2. ASSUME NEW v \in shown, NEW w \in shown, NEW x \in shown, Beats(v, w), Beats(w, x)
          PROVE  Beats(v, x)
      <4>1. count[v] >= count[w] /\ count[w] >= count[x]
        BY <1>4, <3>2
      <4>2. CASE count[v] > count[x]
        BY <4>2
      <4>3. CASE count[v] = count[w] /\ count[w] = count[x]
        <5>1. Newer(v, w) /\ Newer(w, x)
          BY <1>4, <3>2, <4>3
        <5>2. Newer(v, x)
          BY <5>1, <1>2, NewerOrders
        <5> QED
          BY <4>3, <5>2
      <4> QED
        BY <1>4, <4>1, <4>2, <4>3
    <3> HIDE DEF Beats
    <3>3. \A v \in shown : <<v, v>> \notin R
      BY <3>1
    <3>4. \A v, w, x \in shown : <<v, w>> \in R /\ <<w, x>> \in R => <<v, x>> \in R
      BY <3>2
    <3>5. PICK v \in shown : \A w \in shown : <<w, v>> \notin R
      <4> HIDE DEF R
      <4> QED BY <1>3, <2>1, <3>3, <3>4, MinimalExists
    <3> QED
      BY <3>5
  <2> QED
    BY <2>2, <1>6 DEF Choices
<1> QED
  BY <1>5, <1>6

-------------------------------------------------------------------------------
(* All evidence is of an object that was in the cluster at some time since *)
(* the discovery began and speaks for the component under some landscape,  *)
(* whatever was installed, removed or renamed between the requests.        *)
Speaks(o, n) == ~Skipped(o) /\ \E l \in Landscapes : n \in Names(o, l)

EvidenceInv ==
  /\ rest \subseteq seen
  /\ \A e \in found : e = <<e[1], e[2]>> /\ e[1] \in seen /\ Speaks(e[1], e[2])

(* A version in the inventory is one that the evidence lets ResolveVersion *)
(* choose.                                                                 *)
ChosenInv == inventory # NoInventory => \A n \in Found : inventory[n] \in Choices(Of(n))

LEMMA EvidenceStays ==
  ASSUME TypeOK, EvidenceInv, found' \subseteq found \cup Evidence(seen),
         seen \subseteq seen', rest' \subseteq seen'
  PROVE  EvidenceInv'
<1> SUFFICES ASSUME NEW e \in found'
             PROVE  e = <<e[1], e[2]>> /\ e[1] \in seen' /\ Speaks(e[1], e[2])
  BY DEF EvidenceInv
<1>1. CASE e \in found
  BY <1>1 DEF EvidenceInv
<1>2. CASE e \in Evidence(seen)
  <2>1. PICK o \in {p \in seen : ~Skipped(p)} : e \in {<<o, n>> : n \in Names(o, landscape)}
    BY <1>2 DEF Evidence
  <2>2. PICK n \in Names(o, landscape) : e = <<o, n>>
    BY <2>1
  <2>3. landscape \in Landscapes
    BY DEF TypeOK
  <2> QED
    BY <2>1, <2>2, <2>3 DEF Speaks
<1> QED
  BY <1>1, <1>2

LEMMA EvidenceGrows == ASSUME NEW S, NEW T, S \subseteq T PROVE Evidence(S) \subseteq Evidence(T)
<1> SUFFICES ASSUME NEW o \in {p \in S : ~Skipped(p)}
             PROVE  {<<o, n>> : n \in Names(o, landscape)} \subseteq Evidence(T)
  BY DEF Evidence
<1> QED
  BY DEF Evidence

LEMMA EvidenceStep == IInv /\ EvidenceInv /\ [Next]_vars => EvidenceInv'
<1> SUFFICES ASSUME IInv, EvidenceInv, [Next]_vars PROVE EvidenceInv'
  OBVIOUS
<1> USE DEF IInv
<1>1. \A l : InList(l) \subseteq seen /\ Evidence(InList(l)) \subseteq Evidence(seen)
  BY EvidenceGrows DEF InList, TypeOK
<1>2. rest \subseteq seen /\ TypeOK
  BY DEF EvidenceInv
<1>3. CASE Reach \/ Groups \/ BetaFunctions
  BY <1>1, <1>2, <1>3, EvidenceStays DEF Reach, Groups, BetaFunctions
<1>4. ASSUME NEW l \in Lister, Page(l) PROVE EvidenceInv'
  <2> DEFINE all == IF rest = {} THEN InList(l) ELSE rest
  <2>1. all \subseteq seen
    BY <1>1, <1>2
  <2>2. PICK S \in SUBSET all : found' = found \cup Evidence(S) /\ rest' = all \ S
    BY <1>4 DEF Page
  <2>3. Evidence(S) \subseteq Evidence(seen)
    BY <2>1, EvidenceGrows
  <2>4. seen' = seen
    BY <1>4 DEF Page
  <2> QED
    BY <1>2, <2>1, <2>2, <2>3, <2>4, EvidenceStays
<1>5. CASE \/ Unreachable \/ GroupsFail \/ Collect \/ Refresh \/ UNCHANGED vars
           \/ WorkloadsFail \/ SecretsFail \/ FunctionsFail \/ PackagesFail
  <2>1. found' = found /\ seen' = seen /\ rest' \subseteq rest
    BY <1>5 DEF Unreachable, GroupsFail, Collect, Refresh, vars, WorkloadsFail, SecretsFail,
       FunctionsFail, PackagesFail, Fails
  <2> QED
    BY <1>2, <2>1, EvidenceStays
<1>6. CASE Discover
  <2>1. rest = {}
    BY <1>6 DEF Discover, TypeOK, Lister, Workloads, Packages
  <2> QED
    BY <1>6, <2>1 DEF Discover, EvidenceInv
<1>7. CASE \E gone, new \in {{}} \cup {{o} : o \in Object} : Change(gone, new)
  <2>1. found' = found /\ seen \subseteq seen' /\ rest' = rest
    BY <1>7 DEF Change
  <2> QED
    BY <1>2, <2>1, EvidenceStays
<1> QED
  BY <1>3, <1>4, <1>5, <1>6, <1>7 DEF Next, Request

LEMMA CollectChooses ==
  ASSUME IInv, Collect
  PROVE  \A n \in Found : inventory'[n] \in Choices(Of(n))
<1> DEFINE Ties(cs) == {n \in Found : Cardinality(cs[n]) > 1}
           Given(cs, chosen) ==
             /\ \A n \in Ties(cs) : chosen[n] \in cs[n]
             /\ inventory' = [n \in Found |-> IF n \in Ties(cs) THEN chosen[n]
                                             ELSE CHOOSE v \in cs[n] : TRUE]
<1>0. PICK choices \in {[n \in Found |-> Choices(Of(n))]} :
        \E chosen \in [Ties(choices) -> UNION {choices[n] : n \in Found}] : Given(choices, chosen)
  BY DEF Collect
<1>1. PICK chosen \in [Ties(choices) -> UNION {choices[n] : n \in Found}] : Given(choices, chosen)
  BY <1>0
<1> DEFINE Tied == Ties(choices)
<1> SUFFICES ASSUME NEW n \in Found PROVE inventory'[n] \in Choices(Of(n))
  OBVIOUS
<1>2. Of(n) \in SUBSET Object
  BY DEF Of
<1>3. choices[n] = Choices(Of(n)) /\ choices[n] # {}
  BY <1>2, ChoicesExist
<1>4. (CHOOSE v \in choices[n] : TRUE) \in choices[n]
  BY <1>3
<1> HIDE DEF Ties
<1>5. inventory'[n] = IF n \in Tied THEN chosen[n] ELSE CHOOSE v \in choices[n] : TRUE
  BY <1>1
<1> QED
  BY <1>1, <1>3, <1>4, <1>5

LEMMA ChosenStep == IInv /\ ChosenInv /\ [Next]_vars => ChosenInv'
<1> SUFFICES ASSUME IInv, ChosenInv, [Next]_vars, inventory' # NoInventory
             PROVE  \A n \in Found' : inventory'[n] \in Choices(Of(n)')
  BY DEF ChosenInv
<1>1. CASE Collect
  <2>1. found' = found
    BY <1>1 DEF Collect
  <2> QED
    BY <1>1, <2>1, CollectChooses DEF Found, Of
<1>2. CASE Discover
  BY <1>2 DEF Discover
<1>3. CASE inventory' = inventory /\ found' = found
  BY <1>3 DEF ChosenInv, Found, Of
<1>4. CASE Reach \/ Groups \/ BetaFunctions \/ \E l \in Lister : Page(l)
  <2>1. inventory' = inventory /\ pc # "done"
    BY <1>4 DEF Reach, Groups, BetaFunctions, Page, Lister, Workloads, Packages
  <2> QED
    BY <2>1 DEF IInv, InventoryInv
<1>5. CASE \/ Unreachable \/ GroupsFail \/ Refresh \/ UNCHANGED vars
           \/ WorkloadsFail \/ SecretsFail \/ FunctionsFail \/ PackagesFail
  <2>1. inventory' = inventory /\ found' = found
    BY <1>5 DEF Unreachable, GroupsFail, Refresh, vars, WorkloadsFail, SecretsFail,
       FunctionsFail, PackagesFail, Fails
  <2> QED
    BY <2>1, <1>3
<1>6. CASE \E gone, new \in {{}} \cup {{o} : o \in Object} : Change(gone, new)
  <2>1. inventory' = inventory /\ found' = found
    BY <1>6 DEF Change
  <2> QED
    BY <2>1, <1>3
<1> QED
  BY <1>1, <1>2, <1>4, <1>5, <1>6 DEF Next, Request

LEMMA EvidenceInvariance == Spec => [](IInv /\ EvidenceInv /\ ChosenInv)
<1>1. Init => EvidenceInv /\ ChosenInv
  BY DEF Init, EvidenceInv, ChosenInv
<1> QED
  BY <1>1, Invariance, EvidenceStep, ChosenStep, PTL DEF Spec

-------------------------------------------------------------------------------
LEMMA ChosenIsTold ==
  ASSUME NEW S \in SUBSET Object, Deciding(S) # {}, NEW v \in Choices(S)
  PROVE  \E p \in Deciding(S) : Display(Is[p].version) = v
BY DEF Choices

LEMMA FoundOf ==
  ASSUME TypeOK, EvidenceInv, NEW n
  PROVE  n \in Found <=> Of(n) # {}
BY DEF Found, Of, TypeOK, EvidenceInv

(* The version of a component comes from something at least as trustworthy *)
(* as all that was there throughout, whatever failed or changed meanwhile  *)
(* (discovery.go, Discover; resolve.go, ResolveVersion).                   *)
THEOREM TrustedVersionHolds == Spec => []TrustedVersion
<1>1. IInv /\ EvidenceInv /\ ChosenInv => TrustedVersion
  <2> SUFFICES ASSUME IInv, EvidenceInv, ChosenInv, Discovered, NEW n \in DOMAIN inventory,
                      NEW o \in Telling({p \in stable : n \in Named(p) /\ errors \cap Tells(Is[p].list) = {}})
               PROVE  \E p \in Telling(seen) :
                        Display(Is[p].version) = inventory[n] /\ Rank(Is[p].list) <= Rank(Is[o].list)
    BY DEF TrustedVersion
  <2>1. o \in stable /\ n \in Named(o) /\ errors \cap Tells(Is[o].list) = {}
        /\ Is[o].list # "groups" /\ Parsed(Is[o].version)
    BY DEF Telling
  <2>2. DOMAIN inventory = Found /\ inventory # NoInventory
    BY DEF IInv, InventoryInv, Discovered
  <2>3. <<o, n>> \in found
    BY <2>1, <2>2 DEF IInv, InventoryInv, Accounted
  <2>4. o \in Telling(Of(n))
    BY <2>1, <2>3 DEF Telling, Of, IInv, TypeOK
  <2>5. Of(n) \in SUBSET Object
    BY DEF Of
  <2>6. Deciding(Of(n)) # {}
    BY <2>4, <2>5, DecidingExists
  <2>7. inventory[n] \in Choices(Of(n))
    BY <2>2 DEF ChosenInv
  <2>8. PICK p \in Deciding(Of(n)) : Display(Is[p].version) = inventory[n]
    BY <2>5, <2>6, <2>7, ChosenIsTold
  <2>9. p \in Telling(Of(n)) /\ Rank(Is[p].list) <= Rank(Is[o].list)
    BY <2>4, <2>8 DEF Deciding
  <2>10. <<p, n>> \in found /\ Is[p].list # "groups" /\ Parsed(Is[p].version)
    BY <2>9 DEF Telling, Of
  <2>11. p \in seen
    BY <2>10 DEF EvidenceInv
  <2>12. p \in Telling(seen)
    BY <2>10, <2>11 DEF Telling
  <2> QED
    BY <2>8, <2>9, <2>12
<1> QED
  BY <1>1, EvidenceInvariance, PTL

(* A discovery that nothing failed in, of a cluster that did not change,   *)
(* finds all that the cluster runs, and nothing else, in the versions that *)
(* all of its evidence tells (discovery.go, Discover).                     *)
THEOREM QuietIsExactHolds == Spec => []QuietIsExact
<1>1. IInv /\ EvidenceInv /\ ChosenInv => QuietIsExact
  <2> SUFFICES ASSUME IInv, EvidenceInv, ChosenInv, Discovered, errors = {}, stable = seen, NEW n \in Name
               PROVE  LET sure == {o \in cluster : n \in Named(o)} IN
                      (\A o \in cluster, l \in Landscapes : ~Skipped(o) /\ n \in Names(o, l) => o \in sure) =>
                        IF sure = {} THEN n \notin DOMAIN inventory
                        ELSE n \in DOMAIN inventory /\ inventory[n] \in Choices(sure)
    BY DEF QuietIsExact
  <2> DEFINE sure == {o \in cluster : n \in Named(o)}
  <2> SUFFICES ASSUME \A o \in cluster, l \in Landscapes : ~Skipped(o) /\ n \in Names(o, l) => o \in sure
               PROVE  IF sure = {} THEN n \notin DOMAIN inventory
                      ELSE n \in DOMAIN inventory /\ inventory[n] \in Choices(sure)
    OBVIOUS
  <2>1. cluster = stable /\ cluster = seen /\ cluster \subseteq Object
    BY DEF IInv, TypeOK
  <2>2. DOMAIN inventory = Found /\ inventory # NoInventory
    BY DEF IInv, InventoryInv, Discovered
  <2>3. ASSUME NEW o \in sure PROVE o \in Of(n)
    <3>1. o \in stable /\ n \in Named(o)
      BY <2>1
    <3>2. Accounted(o)
      BY <3>1, <2>2 DEF IInv, InventoryInv
    <3> QED
      BY <2>1, <3>1, <3>2 DEF Accounted, Of
  <2>4. ASSUME NEW o \in Of(n) PROVE o \in sure
    <3>1. o \in seen /\ Speaks(o, n)
      BY DEF Of, EvidenceInv
    <3> QED
      BY <2>1, <3>1 DEF Speaks
  <2>5. Of(n) = sure
    BY <2>3, <2>4
  <2>6. n \in Found <=> sure # {}
    BY <2>5, FoundOf DEF IInv
  <2>7. n \in Found => inventory[n] \in Choices(sure)
    BY <2>2, <2>5 DEF ChosenInv
  <2> QED
    BY <2>2, <2>6, <2>7
<1> QED
  BY <1>1, EvidenceInvariance, PTL

-------------------------------------------------------------------------------
(***************************************************************************)
(* What makes a discovery end, whatever fails and changes meanwhile: its   *)
(* requests have an order, and those for one list bring less each time.    *)
(***************************************************************************)
Turn(p) ==
  IF p = "server" THEN 0 ELSE IF p = "groups" THEN 1
  ELSE IF p = "deployments" THEN 2 ELSE IF p = "statefulsets" THEN 3
  ELSE IF p = "daemonsets" THEN 4 ELSE IF p = "secrets" THEN 5
  ELSE IF p = "providers" THEN 6 ELSE IF p = "functions" THEN 7
  ELSE IF p = "betaFunctions" THEN 8 ELSE IF p = "configurations" THEN 9
  ELSE IF p = "collect" THEN 10 ELSE 11

Onward ==
  \/ Turn(pc') > Turn(pc)
  \/ /\ pc' = pc
     /\ rest' # {} /\ IsFiniteSet(rest')
     /\ rest # {} => rest' \subseteq rest /\ rest' # rest

RequestsGoOn == [][Request => Onward]_vars

LEMMA Turns ==
  /\ Turn("server") = 0 /\ Turn("groups") = 1 /\ Turn("deployments") = 2
  /\ Turn("statefulsets") = 3 /\ Turn("daemonsets") = 4 /\ Turn("secrets") = 5
  /\ Turn("providers") = 6 /\ Turn("functions") = 7 /\ Turn("betaFunctions") = 8
  /\ Turn("configurations") = 9 /\ Turn("collect") = 10 /\ Turn("done") = 11
BY DEF Turn

LEMMA AfterIsLater == ASSUME NEW l \in Lister PROVE Turn(After(l)) > Turn(l)
<1> USE Turns DEF Lister, Workloads, Packages, After, PackagesOrEnd
<1>1. CASE l = "secrets"
  <2>1. CASE packages
    BY <1>1, <2>1
  <2>2. CASE ~packages
    BY <1>1, <2>2
  <2> QED
    BY <2>1, <2>2
<1>2. CASE l # "secrets"
  BY <1>2
<1> QED
  BY <1>1, <1>2

LEMMA RequestGoesOn == ASSUME TypeOK, Request PROVE Onward
<1>1. CASE Reach \/ Unreachable \/ Groups \/ GroupsFail \/ BetaFunctions \/ Collect
  <2>1. \/ pc = "server" /\ pc' \in {"groups", "done"}
        \/ pc = "groups" /\ pc' = "deployments"
        \/ pc = "betaFunctions" /\ pc' = "configurations"
        \/ pc = "collect" /\ pc' = "done"
    BY <1>1 DEF Reach, Unreachable, Groups, GroupsFail, BetaFunctions, Collect
  <2> QED
    BY <2>1, Turns DEF Onward
<1>2. ASSUME NEW l \in Lister, Page(l) PROVE Onward
  <2> DEFINE all == IF rest = {} THEN InList(l) ELSE rest
  <2>1. PICK S \in SUBSET all : /\ all # {} => S # {}
                                /\ rest' = all \ S
                                /\ pc' = IF S = all THEN After(l) ELSE l
    BY <1>2 DEF Page
  <2>2. pc = l /\ all \subseteq Object
    BY <1>2 DEF Page, TypeOK, InList
  <2> HIDE DEF all
  <2>3. CASE S = all
    <3>1. pc' = After(l)
      BY <2>1, <2>3
    <3> QED
      BY <2>2, <3>1, AfterIsLater DEF Onward
  <2>4. CASE S # all
    <3>1. pc' = pc /\ rest' # {} /\ S # {}
      <4>1. pc' = l
        BY <2>1, <2>4
      <4>2. \E o \in all : o \notin S
        BY <2>1, <2>4
      <4>3. all # {} /\ \E o \in all \ S : TRUE
        BY <4>2
      <4> QED
        BY <2>1, <2>2, <4>1, <4>3
    <3>2. IsFiniteSet(rest')
      BY <2>1, <2>2, FS_Subset, ObjectAssumption
    <3>3. rest # {} => rest' \subseteq rest /\ rest' # rest
      BY <2>1, <3>1 DEF all
    <3> QED
      BY <3>1, <3>2, <3>3 DEF Onward
  <2> QED
    BY <2>3, <2>4
<1>3. CASE WorkloadsFail \/ SecretsFail \/ FunctionsFail \/ PackagesFail
  <2>1. Turn(pc') > Turn(pc)
    <3>1. CASE WorkloadsFail
      <4>1. pc \in Workloads /\ pc' = "secrets"
        BY <3>1 DEF WorkloadsFail, Fails
      <4> QED
        BY <4>1, Turns DEF Workloads
    <3>2. CASE SecretsFail
      <4>1. pc = "secrets" /\ pc' \in {"providers", "collect"}
        BY <3>2 DEF SecretsFail, PackagesOrEnd, Fails
      <4> QED
        BY <4>1, Turns
    <3>3. CASE FunctionsFail
      <4>1. pc = "functions" /\ pc' = "betaFunctions"
        BY <3>3 DEF FunctionsFail, Fails
      <4> QED
        BY <4>1, Turns
    <3>4. CASE PackagesFail
      <4>1. \/ pc = "providers" /\ pc' = "functions"
            \/ pc = "betaFunctions" /\ pc' = "configurations"
            \/ pc = "configurations" /\ pc' = "collect"
        BY <3>4 DEF PackagesFail, Fails
      <4> QED
        BY <4>1, Turns
    <3> QED
      BY <1>3, <3>1, <3>2, <3>3, <3>4
  <2> QED
    BY <2>1 DEF Onward
<1> QED
  BY <1>1, <1>2, <1>3 DEF Request

(* Every request of a discovery goes on to a later one, or leaves fewer    *)
(* objects of its list for the pages to come: no failure makes it ask      *)
(* again for what it has passed, in particular not for the functions,      *)
(* which have two API versions, and no change of the cluster makes a list  *)
(* longer that is being paged (discovery.go, Discover and its sources).    *)
THEOREM RequestsGoOnHolds == Spec => RequestsGoOn
<1>1. TypeOK /\ [Next]_vars => [Request => Onward]_vars
  BY RequestGoesOn
<1> QED
  BY <1>1, TypeCorrect, PTL DEF Spec, RequestsGoOn

-------------------------------------------------------------------------------
(***************************************************************************)
(* The bearer token that the requests of a discovery carry (CloudToken),   *)
(* for any number of requests, lives of tokens and delays.                 *)
(***************************************************************************)
TokenRecord == [expiry : Nat, recorded : Nat]
HeldRecord == [expiry : Nat, looked : 0..MaxTime]

(* The recorded expiry is never later than the real one.                   *)
RecordedInv == token # Nil => token.recorded <= token.expiry

(* A request about to send has a token that was good for the whole delay   *)
(* when the request looked at it, and the delay has not passed.            *)
HeldInv ==
  \A r \in Sender : stage[r] = "send" =>
    /\ held[r] \in HeldRecord
    /\ now <= held[r].looked + MaxDelay
    /\ held[r].looked + MaxDelay < held[r].expiry

CloudInv == TokenTypeOK /\ RecordedInv /\ HeldInv /\ NeverSendsExpired

(* A request that looks at a token which outlives the delay holds it so.   *)
LEMMA HoldsLasting ==
  ASSUME CloudInv, NEW r \in Sender, NEW t,
         t.expiry \in Nat, t.expiry > now + MaxDelay, Holds(r, t),
         stage' = [stage EXCEPT ![r] = "send"], now' = now
  PROVE  HeldInv' /\ held' \in [Sender -> HeldRecord \cup {Nil}]
<1> DEFINE h == [expiry |-> t.expiry, looked |-> now]
<1>1. now \in Nat /\ MaxDelay \in Nat /\ now \in 0..MaxTime
  BY TimeAssumption DEF CloudInv, TokenTypeOK
<1>2. h \in HeldRecord /\ h.looked = now /\ h.expiry = t.expiry
  BY <1>1 DEF HeldRecord
<1>3. /\ held \in [Sender -> HeldRecord \cup {Nil}]
      /\ stage \in [Sender -> {"idle", "lock", "get", "send", "sent", "failed"}]
  BY DEF CloudInv, TokenTypeOK, HeldRecord
<1>4. held' = [held EXCEPT ![r] = h]
  BY DEF Holds
<1> HIDE DEF h
<1>5. held' \in [Sender -> HeldRecord \cup {Nil}]
  BY <1>2, <1>3, <1>4
<1>6. ASSUME NEW q \in Sender, stage'[q] = "send"
      PROVE  /\ held'[q] \in HeldRecord
             /\ now' <= held'[q].looked + MaxDelay
             /\ held'[q].looked + MaxDelay < held'[q].expiry
  <2>1. CASE q = r
    <3>1. held'[q] = h
      BY <2>1, <1>3, <1>4
    <3> QED
      BY <3>1, <1>1, <1>2
  <2>2. CASE q # r
    <3>1. held'[q] = held[q] /\ stage[q] = "send"
      BY <2>2, <1>3, <1>4, <1>6
    <3> QED
      BY <3>1 DEF CloudInv, HeldInv
  <2> QED
    BY <2>1, <2>2
<1> QED
  BY <1>5, <1>6 DEF HeldInv

LEMMA CloudInit == TokenInit => CloudInv
BY TimeAssumption, FreeAssumption
DEF TokenInit, CloudInv, TokenTypeOK, RecordedInv, HeldInv, NeverSendsExpired

LEMMA CloudNext ==
  ASSUME CloudInv, [TokenNext]_tokenVars
  PROVE  CloudInv'
<1> USE DEF CloudInv
<1>1. /\ now \in Nat /\ MaxDelay \in Nat /\ MarginTime \in Nat /\ MaxTime \in Nat
      /\ Slack \in Nat /\ MaxDelay <= MarginTime /\ now \in 0..MaxTime
  BY TimeAssumption DEF TokenTypeOK
<1>2. CASE Tick
  <2>1. now' \in 0..MaxTime /\ now' = now + 1
    BY <1>1, <1>2 DEF Tick
  <2>2. TokenTypeOK' /\ RecordedInv' /\ NeverSendsExpired'
    BY <1>2, <2>1 DEF Tick, TokenTypeOK, RecordedInv, NeverSendsExpired
  <2>3. ASSUME NEW r \in Sender, stage[r] = "send"
        PROVE  now + 1 <= held[r].looked + MaxDelay
    <3>1. held[r].looked \in Nat /\ now < held[r].looked + MaxDelay
      BY <1>2, <2>3 DEF Tick, HeldInv, HeldRecord
    <3> QED
      BY <3>1, <1>1
  <2>4. HeldInv'
    BY <1>2, <2>1, <2>3 DEF Tick, HeldInv
  <2> QED
    BY <2>2, <2>4
<1>3. ASSUME NEW r \in Sender, RoundTrip(r)
      PROVE  CloudInv'
  BY <1>3 DEF RoundTrip, TokenTypeOK, RecordedInv, HeldInv, NeverSendsExpired
<1>4. ASSUME NEW r \in Sender, Reuse(r)
      PROVE  CloudInv'
  <2>1. token \in TokenRecord
    BY <1>4 DEF Reuse, Good, TokenTypeOK, TokenRecord
  <2>2. token.recorded > now + MarginTime /\ token.recorded <= token.expiry
    BY <1>4 DEF Reuse, Good, RecordedInv
  <2>3. token.expiry \in Nat /\ token.recorded \in Nat
    BY <2>1 DEF TokenRecord
  <2>4. token.expiry > now + MaxDelay
    BY <1>1, <2>2, <2>3
  <2>5. HeldInv' /\ held' \in [Sender -> HeldRecord \cup {Nil}]
    BY <1>4, <2>3, <2>4, HoldsLasting DEF Reuse, Moves
  <2>6. RecordedInv' /\ NeverSendsExpired'
    BY <1>4 DEF Reuse, RecordedInv, NeverSendsExpired
  <2>7. TokenTypeOK'
    BY <1>4, <2>5 DEF Reuse, Moves, TokenTypeOK, HeldRecord
  <2> QED
    BY <2>5, <2>6, <2>7
<1>5. ASSUME NEW r \in Sender, Fetch(r)
      PROVE  CloudInv'
  BY <1>5, FreeAssumption DEF Fetch, Moves, TokenTypeOK, RecordedInv,
              HeldInv, NeverSendsExpired
<1>6. ASSUME NEW r \in Sender, NEW life \in Lives, Fetched(r, life)
      PROVE  CloudInv'
  <2>1. life \in Nat /\ life > MaxDelay /\ life >= Slack
    BY TimeAssumption
  <2>2. now + life \in Nat /\ now + life - Slack \in Nat
        /\ now + life - Slack <= now + life /\ now + life > now + MaxDelay
    BY <1>1, <2>1
  <2>3. token' = [expiry |-> now + life, recorded |-> now + life - Slack]
    BY <1>6 DEF Fetched
  <2>4. token'.expiry = now + life /\ token'.recorded = now + life - Slack
    BY <2>3
  <2>5. RecordedInv' /\ token' \in TokenRecord
    BY <2>2, <2>3, <2>4 DEF RecordedInv, TokenRecord
  <2>6. token'.expiry \in Nat /\ token'.expiry > now + MaxDelay
    BY <2>2, <2>4
  <2>7. stage' = [stage EXCEPT ![r] = "send"] /\ now' = now /\ Holds(r, token')
    BY <1>6 DEF Fetched, Moves
  <2>8. HeldInv' /\ held' \in [Sender -> HeldRecord \cup {Nil}]
    BY <2>6, <2>7, HoldsLasting
  <2>9. NeverSendsExpired'
    BY <1>6 DEF Fetched, NeverSendsExpired
  <2>10. TokenTypeOK'
    <3>1. \A q \in Sender : stage'[q] = "get" <=> mu' = q
      BY <1>6, FreeAssumption DEF Fetched, Moves, TokenTypeOK
    <3>2. stage' \in [Sender -> {"idle", "lock", "get", "send", "sent", "failed"}]
      BY <2>7 DEF TokenTypeOK
    <3> QED
      BY <1>6, <2>5, <2>8, <3>1, <3>2
      DEF Fetched, TokenTypeOK, HeldRecord, TokenRecord
  <2> QED
    BY <2>5, <2>8, <2>9, <2>10
<1>7. ASSUME NEW r \in Sender, FetchFails(r)
      PROVE  CloudInv'
  BY <1>7, FreeAssumption DEF FetchFails, Moves, TokenTypeOK, RecordedInv,
              HeldInv, NeverSendsExpired
<1>8. ASSUME NEW r \in Sender, Send(r)
      PROVE  CloudInv'
  <2>1. /\ held[r] \in HeldRecord /\ now <= held[r].looked + MaxDelay
        /\ held[r].looked + MaxDelay < held[r].expiry
    BY <1>8 DEF Send, Moves, HeldInv
  <2>2. held[r].looked \in Nat /\ held[r].expiry \in Nat
    BY <2>1 DEF HeldRecord
  <2>3. held[r].expiry > now /\ held[r].expiry - now \in Nat /\ held[r].expiry - now > 0
    BY <1>1, <2>1, <2>2
  <2>4. left' = [left EXCEPT ![r] = held[r].expiry - now]
    BY <1>8, <2>3 DEF Send
  <2>5. NeverSendsExpired' /\ left' \in [Sender -> Nat]
    BY <2>3, <2>4 DEF NeverSendsExpired, TokenTypeOK
  <2>6. TokenTypeOK'
    BY <1>8, <2>5 DEF Send, Moves, TokenTypeOK
  <2>7. RecordedInv' /\ HeldInv'
    BY <1>8 DEF Send, Moves, RecordedInv, HeldInv, TokenTypeOK
  <2> QED
    BY <2>5, <2>6, <2>7
<1>9. ASSUME NEW r \in Sender, Done(r)
      PROVE  CloudInv'
  BY <1>9 DEF Done, Moves, TokenTypeOK, RecordedInv, HeldInv,
              NeverSendsExpired
<1>10. CASE UNCHANGED tokenVars
  BY <1>10 DEF tokenVars, TokenTypeOK, RecordedInv, HeldInv, NeverSendsExpired
<1> QED
  BY <1>2, <1>3, <1>4, <1>5, <1>6, <1>7, <1>8, <1>9, <1>10
  DEF TokenNext, Lock, FetchEnds

(* The invariant, of which each of the two results below is a part.        *)
LEMMA CloudInvariance == TokenSpec => []CloudInv
<1>1. TokenInit => CloudInv
  BY CloudInit
<1>2. CloudInv /\ [TokenNext]_tokenVars => CloudInv'
  BY CloudNext
<1> QED
  BY <1>1, <1>2, PTL DEF TokenSpec

(* The mutex that guards a cloud's token is held by the request that       *)
(* fetches one, and by no other (cloudauth.go:125-139).                    *)
THEOREM CloudTypeHolds == TokenSpec => []TokenTypeOK
<1>1. CloudInv => TokenTypeOK
  BY DEF CloudInv
<1> QED
  BY <1>1, CloudInvariance, PTL

(* No request is sent with an expired token: one that was good when the    *)
(* request looked at it outlives the delay to sending it, whichever        *)
(* requests fetch in between (cloudauth.go:126-130).                       *)
THEOREM NeverSendsExpiredHolds == TokenSpec => []NeverSendsExpired
<1>1. CloudInv => NeverSendsExpired
  BY DEF CloudInv
<1> QED
  BY <1>1, CloudInvariance, PTL
===============================================================================
