------------------------------ MODULE Analysis ------------------------------
(* The pure part of platform-bom: what internal/analysis, internal/release   *)
(* and internal/draft compute from inventories, release documents and        *)
(* upstream releases. An inventory, and the components of a release, is a    *)
(* function from component names to versions; an inventory maps a component  *)
(* without a known version to Empty. Release names are versions too, since   *)
(* releases are ordered, and named, by them.                                 *)
EXTENDS Versions, Sequences, FiniteSets

CONSTANTS Components,       \* names of components
          Files,            \* release names, in the order a directory lists them
          FirstRelease,     \* the name of a drafted first release, "1.0.0"
          Order,            \* the platform's environments, as they are listed
          Production,       \* those of tier production, or with "prod" in the name
          SupportedMinors,  \* per component: minors upstream supports, or 0
          MaxNewer          \* cap on the newer releases listed with an update

Names == {Files[i] : i \in DOMAIN Files}
Environments == {Order[i] : i \in DOMAIN Order}

IsBill(f) == DOMAIN f \subseteq Components /\ f \in [DOMAIN f -> Version]
IsRelease(r) ==
  r = [version |-> r.version, components |-> r.components] /\ r.version \in Version /\ IsBill(r.components)

ASSUME NamesAssumption ==
  /\ Files \in Seq(Version \ {Empty})
  /\ FirstRelease \in Names
  /\ \A i, j \in DOMAIN Files : Files[i] = Files[j] => i = j

ASSUME EnvironmentsAssumption ==
  /\ Order \in Seq(Environments)
  /\ \A i, j \in DOMAIN Order : Order[i] = Order[j] => i = j

ASSUME ComponentsAssumption ==
  IsFiniteSet(Components) /\ SupportedMinors \in [Components -> Nat] /\ MaxNewer \in Nat \ {0}

Place(seq, x) == CHOOSE i \in DOMAIN seq : seq[i] = x

-----------------------------------------------------------------------------
(* Releases are listed newest first; among equals the sort is stable.        *)

Precedes(rels, m, n) ==
  \/ Newer(rels[m].version, rels[n].version)
  \/ /\ CompareStrings(rels[m].version, rels[n].version) = 0
     /\ Place(Files, m) < Place(Files, n)

First(rels, S) == CHOOSE n \in S : \A m \in S \ {n} : Precedes(rels, n, m)

Satisfies(bill, actual) ==
  \A c \in DOMAIN bill : c \in DOMAIN actual /\ Matches(bill[c], actual[c])

(* Mutant: pre-releases are pinned as the versions they precede.             *)
FromInventoryFinal(n, found) ==
  [version    |-> Normalize(n),
   components |-> [c \in {d \in DOMAIN found : found[d] # Empty} |-> Normalize(found[c])]]

(* The release cut from what was discovered: version-less components cannot  *)
(* be pinned.                                                                *)
FromInventory(n, found) ==
  [version    |-> Normalize(n),
   components |-> [c \in {d \in DOMAIN found : found[d] # Empty} |-> found[c]]]

(* How a release diff describes a component.                                 *)
Change(from, to, c) ==
  IF c \notin DOMAIN from THEN "added"
  ELSE IF c \notin DOMAIN to THEN "removed"
  ELSE IF CompareStrings(from[c], to[c]) < 0 THEN "upgraded"
  ELSE IF CompareStrings(from[c], to[c]) > 0 THEN "downgraded"
  ELSE "unchanged"

-----------------------------------------------------------------------------
(* What is left empty is drafted from the inventories: a first release from  *)
(* one environment, and the newest release as the target of those without.   *)

Sources(invs) == {e \in Environments : DOMAIN invs[e] # {}}

SourceEnvironment(invs) ==
  LET candidates == IF Sources(invs) \cap Production # {}
                      THEN Sources(invs) \cap Production ELSE Sources(invs)
  IN CHOOSE e \in candidates : \A d \in candidates : Place(Order, e) <= Place(Order, d)

DraftReleases(rels, invs) ==
  IF DOMAIN rels = {} /\ Sources(invs) # {}
    THEN [n \in {FirstRelease} |-> FromInventory(n, invs[SourceEnvironment(invs)])]
    ELSE rels

(* Mutant: every environment is compared with the newest release.           *)
DraftTargetsAll(rels, targets) ==
  IF DOMAIN rels = {} THEN targets
  ELSE [e \in Environments |-> First(rels, DOMAIN rels)]

DraftTargets(rels, targets) ==
  IF DOMAIN rels = {} THEN targets
  ELSE [e \in Environments |-> IF targets[e] = Empty THEN First(rels, DOMAIN rels) ELSE targets[e]]

-----------------------------------------------------------------------------
(* The matrix: the cell of a component in an environment whose target is     *)
(* release n of rels, and what the environment's line adds up to.            *)

(* Mutant: a component that is declared but was not found is taken as absent. *)
StatusLenient(rels, n, actual, c) ==
  LET found    == c \in DOMAIN actual
      declared == n \in DOMAIN rels /\ c \in DOMAIN rels[n].components
  IN IF ~found THEN "absent"
     ELSE IF n \notin DOMAIN rels THEN "present"
     ELSE IF declared /\ Matches(rels[n].components[c], actual[c]) THEN "aligned"
     ELSE IF declared THEN "drift"
     ELSE IF actual[c] = Empty THEN "present"
     ELSE "untracked"

Status(rels, n, actual, c) ==
  LET found    == c \in DOMAIN actual
      declared == n \in DOMAIN rels /\ c \in DOMAIN rels[n].components
  IN IF n \notin DOMAIN rels THEN (IF found THEN "present" ELSE "absent")
     ELSE IF declared /\ ~found THEN "missing"
     ELSE IF declared /\ Matches(rels[n].components[c], actual[c]) THEN "aligned"
     ELSE IF declared THEN "drift"
     ELSE IF found /\ actual[c] = Empty THEN "present"
     ELSE IF found THEN "untracked"
     ELSE "absent"

Compliant(rels, n, actual) ==
  /\ n \in DOMAIN rels
  /\ \A c \in Components : Status(rels, n, actual, c) \notin {"drift", "missing"}

Satisfied(rels, actual) == {n \in DOMAIN rels : Satisfies(rels[n].components, actual)}

MatchedRelease(rels, actual) ==
  IF Satisfied(rels, actual) = {} THEN Empty ELSE First(rels, Satisfied(rels, actual))

-----------------------------------------------------------------------------
(* Freshness: how far a version is behind upstream's newest-first list.      *)

Rank == [unknown |-> 0, latest |-> 1, patch |-> 2, minor |-> 3, major |-> 4, unsupported |-> 5]

Assess(current, upstream, supported) ==
  IF ~Parsed(current) \/ upstream = <<>> THEN "unknown"
  ELSE LET newest == upstream[1]
           behind == newest.minor - current.minor
       IN IF ~Parsed(newest) THEN "unknown"
          ELSE IF Compare(current, newest) >= 0 THEN "latest"
          ELSE IF current.major < newest.major THEN "major"
          ELSE IF supported > 0 /\ behind >= supported THEN "unsupported"
          ELSE IF behind > 0 THEN "minor"
          ELSE "patch"

Worst(S) == CHOOSE f \in S \cup {"unknown"} : \A g \in S : Rank[g] <= Rank[f]

(* Mutant: the newest of the running versions is taken.                     *)
OldestNewest(S) == IF S = {} THEN Empty ELSE CHOOSE v \in S : \A w \in S : CompareStrings(v, w) >= 0

Oldest(S) == IF S = {} THEN Empty ELSE CHOOSE v \in S : \A w \in S : CompareStrings(v, w) <= 0

(* The upstream releases an update lists: the newer ones, at most MaxNewer.  *)
NewerThan(upstream, current) ==
  IF ~Parsed(current) THEN <<>>
  ELSE LET stops == {i \in DOMAIN upstream : ~Newer(upstream[i], current)} \cup {Len(upstream) + 1, MaxNewer + 1}
           stop  == CHOOSE i \in stops : \A j \in stops : i <= j
       IN SubSeq(upstream, 1, stop - 1)

Running(invs, c) == {e \in Environments : c \in DOMAIN invs[e]}

(* The freshness of a component's row in the matrix, the oldest version of   *)
(* it that runs, and the freshness of its entry among the updates.           *)
RowFreshness(invs, upstream, c) ==
  Worst({Assess(invs[e][c], upstream[c], SupportedMinors[c]) : e \in Running(invs, c)})

Current(invs, c) == Oldest({invs[e][c] : e \in Running(invs, c)} \ {Empty})

UpdateFreshness(invs, upstream, c) ==
  Assess(Current(invs, c), upstream[c], SupportedMinors[c])

=============================================================================
