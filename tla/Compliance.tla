----------------------------- MODULE Compliance -----------------------------
(* The life of a platform as its releases and matrix see it. Clusters are    *)
(* upgraded; discovery reads them, sometimes in part; releases are cut from  *)
(* what is discovered, written by hand and deleted; environments are given   *)
(* targets. The matrix, the diff, the drafts and the updates are computed    *)
(* from this state (module Analysis) at every request.                       *)
EXTENDS Analysis

CONSTANTS Deployable,   \* per component: versions a cluster may run; Empty if it does not tell
          Pins,         \* per component: versions written in releases by hand
          Start,        \* what the clusters run at first
          StartReleases,\* releases there may be at first, none among them
          Flaky,        \* environments whose discovery may be partial
          Lesser,       \* per component: versions that less trusted or rarer evidence tells
          Upstream,     \* per component: upstream's releases, newest first
          MaxEdits      \* bound on upgrades, edits and cuts

ASSUME ComplianceAssumption ==
  /\ \A c \in Components : /\ Deployable[c] \subseteq Version /\ Lesser[c] \subseteq Version
                           /\ Pins[c] \subseteq Version \ {Empty}
  /\ DOMAIN Start = Environments /\ \A e \in Environments : IsBill(Start[e])
  /\ \A rels \in StartReleases :
       DOMAIN rels \subseteq Names /\ \A n \in DOMAIN rels : IsRelease(rels[n])
  /\ Flaky \subseteq Environments
  /\ Upstream \in [Components -> Seq(Version)]
  /\ MaxEdits \in Nat

(* A discovery tells a version that parses, or none (discovery,              *)
(* ResolveVersion); an exported inventory is what a discovery found.         *)
ASSUME ToldAssumption ==
  /\ \A c \in Components : \A v \in Deployable[c] \cup Lesser[c] : v = Empty \/ Parsed(v)
  /\ \A e \in Environments : \A c \in DOMAIN Start[e] : Start[e][c] = Empty \/ Parsed(Start[e][c])

VARIABLES
  cluster,        \* what each environment runs
  invs,           \* the inventories of the latest discovery
  releases,       \* the release documents, by name
  targets,        \* each environment's targetRelease; Empty if it has none
  origin,         \* history: environment of a release that was cut, while neither changes
  exact,          \* history: those of them cut from all that the environment ran
  complete,       \* history: environments whose inventory is all of what they run
  edits           \* upgrades, edits and cuts so far

vars == <<cluster, invs, releases, targets, origin, exact, complete, edits>>

Put(f, k, v) == [x \in DOMAIN f \cup {k} |-> IF x = k THEN v ELSE f[x]]
Without(f, S) == [x \in DOMAIN f \ S |-> f[x]]

(* What may be found of a component of which a source has failed: what it    *)
(* runs, no version, or the version that the rest of the evidence tells.     *)
Told(e, c) ==
  IF cluster[e][c] = Empty THEN {Empty} ELSE {cluster[e][c], Empty} \cup Lesser[c]

(* What a discovery of e may find: all of it or, where sources fail, without *)
(* some components, their versions, or with others.                          *)
Observations(e) ==
  IF e \notin Flaky THEN {cluster[e]}
  ELSE UNION {{f \in [S -> UNION {Told(e, c) : c \in S}] : \A c \in S : f[c] \in Told(e, c)} :
                S \in SUBSET DOMAIN cluster[e]}

Init ==
  /\ cluster = Start
  /\ invs = Start
  /\ releases \in StartReleases
  /\ targets = [e \in Environments |-> Empty]
  /\ origin = [n \in {} |-> Empty]
  /\ exact = {}
  /\ complete = Environments
  /\ edits = 0

Edit == edits < MaxEdits /\ edits' = edits + 1

-----------------------------------------------------------------------------
(* Someone installs or upgrades a component.                                 *)
Upgrade(e, c, v) ==
  /\ Edit
  /\ cluster' = [cluster EXCEPT ![e] = Put(@, c, v)]
  /\ origin' = Without(origin, {n \in DOMAIN origin : origin[n] = e})
  /\ exact' = {n \in exact : origin[n] # e}
  /\ complete' = complete \ {e}
  /\ UNCHANGED <<invs, releases, targets>>

(* All environments are discovered again.                                    *)
Discover ==
  /\ \E found \in [Environments -> UNION {Observations(e) : e \in Environments}] :
       /\ \A e \in Environments : found[e] \in Observations(e)
       /\ invs' = found
  /\ complete' = {e \in Environments : invs'[e] = cluster[e]}
  /\ UNCHANGED <<cluster, releases, targets, origin, exact, edits>>

(* pbom release create: e is discovered, past the cache, and what was found  *)
(* is written as a release; an existing one only with --force. A partial     *)
(* inventory is cut like a complete one.                                     *)
Cut(n, e, force, found) ==
  /\ n \in DOMAIN releases => force
  /\ Edit
  /\ releases' = Put(releases, n, FromInventory(n, found))
  /\ origin' = Put(origin, n, e)
  /\ exact' = IF found = cluster[e] THEN exact \cup {n} ELSE exact \ {n}
  /\ UNCHANGED <<cluster, invs, targets, complete>>

(* Someone writes a release by hand, or changes a version in one. A release  *)
(* without a version of its own has its name's.                              *)
Pin(n, c, v) ==
  /\ Edit
  /\ releases' = Put(releases, n,
       IF n \in DOMAIN releases
         THEN [releases[n] EXCEPT !.components = Put(@, c, v)]
         ELSE [version |-> n, components |-> [d \in {c} |-> v]])
  /\ origin' = Without(origin, {n})
  /\ exact' = exact \ {n}
  /\ UNCHANGED <<cluster, invs, targets, complete>>

(* Someone deletes a release; nothing looks for what refers to it.           *)
Delete(n) ==
  /\ n \in DOMAIN releases
  /\ Edit
  /\ releases' = Without(releases, {n})
  /\ origin' = Without(origin, {n})
  /\ exact' = exact \ {n}
  /\ UNCHANGED <<cluster, invs, targets, complete>>

(* Someone sets an environment's targetRelease.                              *)
Target(e, n) ==
  /\ Edit
  /\ targets' = [targets EXCEPT ![e] = n]
  /\ UNCHANGED <<cluster, invs, releases, origin, exact, complete>>

Next ==
  \/ \E e \in Environments, c \in Components : \E v \in Deployable[c] : Upgrade(e, c, v)
  \/ Discover
  \/ \E n \in Names, e \in Environments, force \in BOOLEAN : \E found \in Observations(e) :
       Cut(n, e, force, found)
  \/ \E n \in Names, c \in Components : \E v \in Pins[c] : Pin(n, c, v)
  \/ \E n \in Names : Delete(n)
  \/ \E e \in Environments, n \in Names : Target(e, n)

Spec == Init /\ [][Next]_vars

-----------------------------------------------------------------------------
(* What the server shows: releases and targets with the drafts in place.     *)

Shown == DraftReleases(releases, invs)
ShownTarget(e) == DraftTargets(Shown, targets)[e]
ShownCompliant(e) == Compliant(Shown, ShownTarget(e), invs[e])

-----------------------------------------------------------------------------
(* Type correctness.                                                         *)
TypeOK ==
  /\ DOMAIN cluster = Environments /\ \A e \in Environments : IsBill(cluster[e])
  /\ DOMAIN invs = Environments /\ \A e \in Environments : IsBill(invs[e])
  /\ DOMAIN releases \subseteq Names /\ \A n \in DOMAIN releases : IsRelease(releases[n])
  /\ targets \in [Environments -> Names \cup {Empty}]
  /\ DOMAIN origin \subseteq DOMAIN releases /\ origin \in [DOMAIN origin -> Environments]
  /\ exact \subseteq DOMAIN origin
  /\ complete \subseteq Environments
  /\ edits \in 0..MaxEdits

(* An environment is shown as compliant, by the cells of its column (matrix, *)
(* BuildMatrix), exactly when its target exists and it fulfils it (matrix,   *)
(* Satisfies); the release it is said to run is then its target, or one that *)
(* is listed before it.                                                      *)
CompliantMeansSatisfied ==
  \A e \in Environments :
    LET n == ShownTarget(e)
        running == MatchedRelease(Shown, invs[e])
    IN /\ ShownCompliant(e) <=> n \in Satisfied(Shown, invs[e])
       /\ ShownCompliant(e) => running = n \/ Precedes(Shown, running, n)

(* A release that was cut from a complete discovery and not edited is        *)
(* fulfilled by its environment, once that is discovered completely again    *)
(* and until it is upgraded.                                                 *)
CutIsFulfilled ==
  \A n \in exact :
    origin[n] \in complete => Satisfies(releases[n].components, invs[origin[n]])

(* A platform without releases shows the environment its first release is    *)
(* drafted from as compliant with that, unless it names another target.      *)
DraftIsFulfilled ==
  DOMAIN releases = {} /\ Sources(invs) # {} =>
    LET e == SourceEnvironment(invs)
    IN targets[e] \in {Empty, FirstRelease} => ShownCompliant(e) /\ ShownTarget(e) = FirstRelease

(* When one environment fulfils two releases, their diff shows no upgrade    *)
(* and no downgrade of a component both pin to a full version.               *)
FulfilledTwiceUnchanged ==
  \A n, m \in DOMAIN releases, e \in Environments :
    LET from == releases[n].components
        to   == releases[m].components
    IN Satisfies(from, invs[e]) /\ Satisfies(to, invs[e]) =>
         \A c \in DOMAIN from \cap DOMAIN to :
           from[c].parts = 3 /\ to[c].parts = 3 => Change(from, to, c) = "unchanged"

(* Matrix and updates agree on every component: its row is up to date when   *)
(* its update entry is, an entry that is behind lists a newer release, and   *)
(* the row is never better than the entry, nor worse unless upstream drops   *)
(* minors of the current major.                                              *)
UpdatesAgree ==
  \A c \in Components :
    LET row   == RowFreshness(invs, Upstream, c)
        entry == UpdateFreshness(invs, Upstream, c)
        newer == NewerThan(Upstream[c], Current(invs, c))
    IN /\ row \in {"unknown", "latest"} <=> entry \in {"unknown", "latest"}
       /\ row \notin {"unknown", "latest"} <=> newer # <<>>
       /\ Rank[entry] <= Rank[row]
       /\ SupportedMinors[c] = 0 => entry = row

(* What becomes of one release does not change what is shown of an           *)
(* environment whose target is another one: compliance with a release that   *)
(* stays as it is changes only with the environment's inventory or target.   *)
ChangesCompliance(e) ==
  /\ targets[e] \in DOMAIN releases
  /\ targets'[e] = targets[e]
  /\ targets[e] \in DOMAIN releases'
  /\ releases'[targets[e]] = releases[targets[e]]
  /\ invs'[e] = invs[e]
  /\ ~(ShownCompliant(e)' <=> ShownCompliant(e))
OthersDoNotMatter == [][\A e \in Environments : ~ChangesCompliance(e)]_vars
=============================================================================
