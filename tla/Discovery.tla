------------------------------ MODULE Discovery ------------------------------
(***************************************************************************)
(* internal/discovery: one cluster is read again and again while it        *)
(* changes.  Its sources are listed one after the other, some in pages;    *)
(* each request may fail, which is recorded and ends its source only.      *)
(* What was read is evidence for components, named by the catalog and the  *)
(* landscape (internal/catalog, internal/landscape); the landscape may be  *)
(* replaced at any moment.  Each component is given the version of its     *)
(* most trustworthy evidence.                                              *)
(***************************************************************************)
EXTENDS Versions, FiniteSets

CONSTANTS
  Name,        \* names of components
  Ref,         \* what the catalog matches: images, charts, packages, groups
  Object,      \* what may be in the cluster
  Is,          \* Is[o]: the list an object is in, what it refers to, ...
  Start,       \* what is in it at first
  Layers,      \* built-in definitions, the components directory, resources
  Before,      \* Before[n]: the names that sort before n
  OwnName,     \* what an unclassified chart or package is called
  Landscapes,  \* what the landscape may be: names of charts
  PackageAPI,  \* the object that says that the cluster has Crossplane packages
  HideUnclassified, \* policy: charts nobody knows are left out
  MaxChanges,  \* bound on the changes of the cluster
  NoInventory  \* the cluster could not be reached

Workloads == {"deployments", "statefulsets", "daemonsets"}
Packages == {"providers", "functions", "configurations"}
Lists == {"server", "groups", "secrets"} \cup Workloads \cup Packages

(* An object of a list: the image, chart, package or group it refers to,   *)
(* the version that says, whether it is in an ignored namespace, and       *)
(* whether it can be decoded (a Helm secret, a package without a name).    *)
ASSUME ObjectAssumption ==
  /\ IsFiniteSet(Object)
  /\ \A o \in Object : /\ Is[o].list \in Lists /\ Is[o].ref \in Ref /\ Is[o].version \in Version
                       /\ Is[o].ignored \in BOOLEAN /\ Is[o].readable \in BOOLEAN
  /\ PackageAPI \in Object /\ Is[PackageAPI].list = "groups"
  /\ Start \subseteq Object
  /\ PackageAPI \in Start \/ \A o \in Start : Is[o].list \notin Packages

(* A definition is the set of what it matches; a layer has definitions.    *)
ASSUME CatalogAssumption ==
  /\ \A i \in 1..3 : DOMAIN Layers[i] \subseteq Name /\ Layers[i] \in [DOMAIN Layers[i] -> SUBSET Ref]
  /\ Before \in [Name -> SUBSET Name]
  /\ OwnName \in [Ref -> Name]
  /\ \A l \in Landscapes : DOMAIN l \subseteq Ref /\ l \in [DOMAIN l -> Name]
ASSUME BoundAssumption == HideUnclassified \in BOOLEAN /\ MaxChanges \in Nat

VARIABLES
  cluster,   \* the objects in the cluster
  landscape, \* the landscape in use
  pc,        \* the request that comes next
  rest,      \* the objects of the list that later pages will bring
  found,     \* the evidence so far: objects and the component each speaks for
  packages,  \* the cluster has Crossplane packages
  errors,    \* Inventory.Errors: the sources that failed
  inventory, \* the versions of the components found, or NoInventory
  stable,    \* history: the objects there since the discovery began
  seen,      \* history: the objects there at some time since then
  changed    \* the number of changes so far

vars == <<cluster, landscape, pc, rest, found, packages, errors, inventory,
          stable, seen, changed>>

-------------------------------------------------------------------------------
(* The catalog: a definition of a later layer replaces one of its name.    *)
Definitions ==
  [n \in UNION {DOMAIN Layers[i] : i \in 1..3} |->
     IF n \in DOMAIN Layers[3] THEN Layers[3][n]
     ELSE IF n \in DOMAIN Layers[2] THEN Layers[2][n] ELSE Layers[1][n]]

Claimants(ref) == {n \in DOMAIN Definitions : ref \in Definitions[n]}

(* landscape.Match: the project a chart is called after, if there is one.   *)
Project(chart, projects) == IF chart \in DOMAIN projects THEN {projects[chart]} ELSE {}

(* A group speaks for every component that declares it; anything else for  *)
(* the first by name.  A chart that nobody declares may be a project of    *)
(* the landscape; then it, like a package, is reported under its own name. *)
Names(o, projects) ==
  IF Is[o].list = "groups" THEN Claimants(Is[o].ref)
  ELSE IF Claimants(Is[o].ref) # {}
    THEN {n \in Claimants(Is[o].ref) : Before[n] \cap Claimants(Is[o].ref) = {}}
  ELSE IF Is[o].list \in Packages THEN {OwnName[Is[o].ref]}
  ELSE IF Is[o].list # "secrets" THEN {}
  ELSE IF Project(Is[o].ref, projects) # {} THEN Project(Is[o].ref, projects)
  ELSE IF HideUnclassified THEN {} ELSE {OwnName[Is[o].ref]}

Skipped(o) == Is[o].ignored \/ ~Is[o].readable

(* What reading the objects S adds to the evidence.                        *)
Evidence(S) ==
  UNION {{<<o, n>> : n \in Names(o, landscape)} : o \in {p \in S : ~Skipped(p)}}

InList(l) == {o \in cluster : Is[o].list = l}

-------------------------------------------------------------------------------
(* ResolveVersion.  Groups say nothing of a version; of the other sources, *)
(* the most trustworthy one with a version decides, by the version most of *)
(* its objects have; among those, the highest.  The versions are visited   *)
(* in the random order of a Go map: one that no other beats is chosen, and *)
(* any of them may be.                                                     *)
Rank(l) ==
  IF l = "server" THEN 0 ELSE IF l \in Packages THEN 1
  ELSE IF l \in Workloads THEN 2 ELSE 3

Telling(S) == {o \in S : Is[o].list # "groups" /\ Parsed(Is[o].version)}

(* Mutant: the least trustworthy source decides. *)
DecidingWorst(S) ==
  LET T == Telling(S)
  IN {o \in T : \A p \in T : Rank(Is[p].list) <= Rank(Is[o].list)}

Deciding(S) ==
  LET T == Telling(S)
  IN {o \in T : \A p \in T : Rank(Is[o].list) <= Rank(Is[p].list)}

Choices(S) ==
  LET D == Deciding(S)
      shown == {Display(Is[o].version) : o \in D}
      count == [v \in shown |-> Cardinality({o \in D : Display(Is[o].version) = v})]
      Beats(v, w) == count[v] > count[w] \/ (count[v] = count[w] /\ Newer(v, w))
  IN IF D = {} THEN {Empty} ELSE {v \in shown : \A w \in shown : ~Beats(w, v)}

Of(n) == {o \in Object : <<o, n>> \in found}
Found == {e[2] : e \in found}

-------------------------------------------------------------------------------
Init ==
  /\ cluster = Start
  /\ landscape \in Landscapes
  /\ pc = "server"
  /\ rest = {}
  /\ found = {}
  /\ packages = FALSE
  /\ errors = {}
  /\ inventory = NoInventory
  /\ stable = Start
  /\ seen = Start
  /\ changed = 0

Packaged(S) == {o \in S : Is[o].list \in Packages}

(* Something is installed, removed or upgraded. There are no packages      *)
(* without their API.                                                      *)
Change(gone, new) ==
  /\ changed < MaxChanges
  /\ \A o \in gone, p \in new : Is[o].ref = Is[p].ref
  /\ PackageAPI \in gone \ new => Packaged((cluster \ gone) \cup new) = {}
  /\ Packaged(new) # {} => PackageAPI \in cluster
  /\ changed' = changed + 1
  /\ cluster' = (cluster \ gone) \cup new
  /\ stable' = stable \ gone
  /\ seen' = seen \cup new
  /\ UNCHANGED <<landscape, pc, rest, found, packages, errors, inventory>>

(* landscape.Refresh, in another goroutine.                                *)
Refresh ==
  /\ landscape' \in Landscapes \ {landscape}
  /\ UNCHANGED <<cluster, pc, rest, found, packages, errors, inventory, stable, seen, changed>>

(* The next discovery.                                                     *)
Discover ==
  /\ pc = "done"
  /\ pc' = "server"
  /\ found' = {}
  /\ packages' = FALSE
  /\ errors' = {}
  /\ inventory' = NoInventory
  /\ stable' = cluster
  /\ seen' = cluster
  /\ UNCHANGED <<cluster, landscape, rest, changed>>

(* The server's version: without it there is no inventory, only an error.  *)
Reach ==
  /\ pc = "server"
  /\ found' = Evidence(InList("server"))
  /\ pc' = "groups"
  /\ UNCHANGED <<cluster, landscape, rest, packages, errors, inventory, stable, seen, changed>>

Unreachable ==
  /\ pc = "server"
  /\ pc' = "done"
  /\ UNCHANGED <<cluster, landscape, rest, found, packages, errors, inventory, stable, seen, changed>>

Groups ==
  /\ pc = "groups"
  /\ found' = found \cup Evidence(InList("groups"))
  /\ packages' = (PackageAPI \in cluster)
  /\ pc' = "deployments"
  /\ UNCHANGED <<cluster, landscape, rest, errors, inventory, stable, seen, changed>>

(* Mutant: the failure is not recorded. *)
GroupsFailSilently ==
  /\ pc = "groups"
  /\ pc' = "deployments"
  /\ UNCHANGED <<cluster, landscape, rest, found, packages, errors, inventory, stable, seen, changed>>

(* Without the groups, nobody asks for packages.                           *)
GroupsFail ==
  /\ pc = "groups"
  /\ errors' = errors \cup {"api groups"}
  /\ pc' = "deployments"
  /\ UNCHANGED <<cluster, landscape, rest, found, packages, inventory, stable, seen, changed>>

PackagesOrEnd == IF packages THEN "providers" ELSE "collect"

After(l) ==
  IF l = "deployments" THEN "statefulsets"
  ELSE IF l = "statefulsets" THEN "daemonsets"
  ELSE IF l = "daemonsets" THEN "secrets"
  ELSE IF l = "secrets" THEN PackagesOrEnd
  ELSE IF l = "providers" THEN "functions"
  ELSE IF l = "functions" THEN "configurations"
  ELSE "collect"

(* Mutant: the first page is taken for all. *)
FirstPage(l) ==
  /\ pc = l
  /\ \E S \in SUBSET InList(l) :
       /\ InList(l) # {} => S # {}
       /\ found' = found \cup Evidence(S)
  /\ pc' = After(l)
  /\ UNCHANGED <<cluster, landscape, rest, packages, errors, inventory, stable, seen, changed>>

(* One page of a list: the first shows the list as it is now, the later    *)
(* ones go on with that.  Packages come in one page.                       *)
Page(l) ==
  /\ pc = l
  /\ LET all == IF rest = {} THEN InList(l) ELSE rest IN
     \E S \in SUBSET all :
       /\ all # {} => S # {}
       /\ l \in Packages => S = all
       /\ found' = found \cup Evidence(S)
       /\ rest' = all \ S
       /\ pc' = IF S = all THEN After(l) ELSE l
  /\ UNCHANGED <<cluster, landscape, packages, errors, inventory, stable, seen, changed>>

(* Functions have two API versions; when the first does not answer, the    *)
(* other is asked.                                                         *)
BetaFunctions ==
  /\ pc = "betaFunctions"
  /\ found' = found \cup Evidence(InList("functions"))
  /\ pc' = "configurations"
  /\ UNCHANGED <<cluster, landscape, rest, packages, errors, inventory, stable, seen, changed>>

(* Mutant: the next list goes on where the one that failed stopped. *)

(* A request fails: what the source has brought stays, what it would have  *)
(* brought is missing, and the other kinds of workload are not asked for.  *)
Fails(at, source, next) ==
  /\ pc = at
  /\ errors' = errors \cup source
  /\ rest' = {}
  /\ pc' = next
  /\ UNCHANGED <<cluster, landscape, found, packages, inventory, stable, seen, changed>>

WorkloadsFail == \E l \in Workloads : Fails(l, {"workloads"}, "secrets")
SecretsFail == Fails("secrets", {"helm releases"}, PackagesOrEnd)
FunctionsFail == Fails("functions", {}, "betaFunctions")

(* Mutant: the two versions of the functions are tried in turn. *)
PackagesFailRetrying ==
  \/ Fails("providers", {"crossplane packages"}, "functions")
  \/ Fails("betaFunctions", {"crossplane packages"}, "functions")
  \/ Fails("configurations", {"crossplane packages"}, "collect")

PackagesFail ==
  \/ Fails("providers", {"crossplane packages"}, "functions")
  \/ Fails("betaFunctions", {"crossplane packages"}, "configurations")
  \/ Fails("configurations", {"crossplane packages"}, "collect")

(* Discover returns; where several versions may be chosen, any of them is. *)
Collect ==
  /\ pc = "collect"
  /\ pc' = "done"
  /\ \E choices \in {[n \in Found |-> Choices(Of(n))]} :
     LET Tied == {n \in Found : Cardinality(choices[n]) > 1} IN
     \E chosen \in [Tied -> UNION {choices[n] : n \in Found}] :
       /\ \A n \in Tied : chosen[n] \in choices[n]
       /\ inventory' = [n \in Found |-> IF n \in Tied THEN chosen[n]
                                       ELSE CHOOSE v \in choices[n] : TRUE]
  /\ UNCHANGED <<cluster, landscape, rest, found, packages, errors, stable, seen, changed>>

Lister == Workloads \cup {"secrets"} \cup Packages

Request ==
  \/ Reach \/ Unreachable \/ Groups \/ GroupsFail
  \/ \E l \in Lister : Page(l)
  \/ BetaFunctions
  \/ WorkloadsFail \/ SecretsFail \/ FunctionsFail \/ PackagesFail
  \/ Collect

Next ==
  \/ Request
  \/ Discover
  \/ Refresh
  \/ \E gone, new \in {{}} \cup {{o} : o \in Object} : Change(gone, new)

Spec == Init /\ [][Next]_vars

(* Every request ends: the client has a timeout of 30 seconds, unless its  *)
(* token comes of a function that ignores it (CutOff in CloudToken).       *)
(* Nobody has to change the cluster or to ask for another discovery.       *)
FairSpec == Spec /\ WF_vars(Request)
-------------------------------------------------------------------------------
(* Type correctness; the pages still to come are of the list being read.   *)
TypeOK ==
  /\ cluster \subseteq Object /\ stable \subseteq cluster /\ cluster \subseteq seen
  /\ seen \subseteq Object
  /\ landscape \in Landscapes
  /\ pc \in Lister \cup {"server", "groups", "betaFunctions", "collect", "done"}
  /\ rest \subseteq {o \in Object : Is[o].list = pc /\ pc \in Lister}
  /\ \A e \in found : e[1] \in Object /\ e[2] \in Name
  /\ packages \in BOOLEAN
  /\ errors \subseteq {"api groups", "workloads", "helm releases", "crossplane packages"}
  /\ inventory = NoInventory \/ DOMAIN inventory \subseteq Name
  /\ changed \in 0..MaxChanges

Discovered == pc = "done" /\ inventory # NoInventory

(* The errors that tell that objects of a list may be missing.             *)
Tells(l) ==
  IF l = "groups" THEN {"api groups"}
  ELSE IF l \in Workloads THEN {"workloads"}
  ELSE IF l = "secrets" THEN {"helm releases"}
  ELSE IF l \in Packages THEN {"crossplane packages", "api groups"} ELSE {}

Named(o) == IF Skipped(o) THEN {} ELSE {n \in Name : \A l \in Landscapes : n \in Names(o, l)}

(* What was in the cluster throughout a discovery and speaks for some      *)
(* component is evidence for it in the inventory, or the errors name the   *)
(* source that failed - also for packages, which are not even asked for    *)
(* when the groups cannot be listed.                                       *)
MissingIsTold ==
  Discovered =>
    \A o \in stable : \A n \in Named(o) :
      (<<o, n>> \in found /\ n \in DOMAIN inventory) \/ errors \cap Tells(Is[o].list) # {}

(* The version of a component is told by something in the cluster that is  *)
(* at least as trustworthy as everything that was there throughout and     *)
(* speaks for the component, the sources the errors name left out.         *)
TrustedVersion ==
  Discovered =>
    \A n \in DOMAIN inventory :
      \A o \in Telling({p \in stable : n \in Named(p) /\ errors \cap Tells(Is[p].list) = {}}) :
        \E p \in Telling(seen) :
          Display(Is[p].version) = inventory[n] /\ Rank(Is[p].list) <= Rank(Is[o].list)

(* When nothing has changed or failed, the inventory is what the cluster   *)
(* runs: all components that something speaks for under any landscape, and *)
(* in the versions that all of the evidence tells.                         *)
QuietIsExact ==
  Discovered /\ errors = {} /\ stable = seen =>
    \A n \in Name :
      LET sure == {o \in cluster : n \in Named(o)} IN
      (\A o \in cluster, l \in Landscapes : ~Skipped(o) /\ n \in Names(o, l) => o \in sure) =>
        IF sure = {} THEN n \notin DOMAIN inventory
        ELSE n \in DOMAIN inventory /\ inventory[n] \in Choices(sure)

(* Every discovery ends, whatever is installed meanwhile.                  *)
EveryDiscoveryEnds == pc = "server" ~> pc = "done"
===============================================================================
