------------------------------- MODULE Operator -------------------------------
(***************************************************************************)
(* internal/operator: one process follows the four kinds of PBOM custom    *)
(* resources in a namespace and rebuilds the served model when any of them *)
(* changes.                                                                *)
(*                                                                         *)
(* Four informers copy the API server into four local stores, each at its  *)
(* own pace.  After a store has changed, its event handler runs once per   *)
(* changed object, later, and leaves a token in a channel of capacity one. *)
(* The loop takes the token, reads the four stores one after the other,    *)
(* and either swaps in a new service or keeps the previous one.            *)
(*                                                                         *)
(* What a kind contains over time is its History, a sequence of sets of    *)
(* objects; the API server, a store and a build each are at some point of  *)
(* it.  Point 0 is a store before its first list.                          *)
(***************************************************************************)
EXTENDS Naturals, Sequences, FiniteSets

CONSTANTS
  Name,         \* names of objects
  History,      \* History[k][i]: the objects of kind k after i-1 edits
  PlatformName, \* Options.PlatformName, or AnyPlatform
  AnyPlatform,  \* --platform-name was not given
  NoService     \* nothing has been swapped in yet

(* The positions of the kinds in `resources', the order they are read in. *)
Platforms == 1
Kind == 1..4

(* wellFormed: the object decodes, and NewFromResources accepts it. *)
Object == [name : Name, wellFormed : BOOLEAN]

ASSUME HistoryAssumption ==
  /\ History \in [Kind -> Seq(SUBSET Object)]
  /\ \A k \in Kind : /\ Len(History[k]) > 0
                     /\ \A i \in 1..Len(History[k]) : IsFiniteSet(History[k][i])
ASSUME NoServiceAssumption == NoService \notin [Kind -> Nat]

VARIABLES
  cluster,     \* the point each kind has reached at the API server
  store,       \* the point each informer's store has reached
  undelivered, \* per informer, object events its handler has not seen
  changes,     \* tokens in the channel, whose capacity is one
  loop,        \* "sync", "build" or "wait"
  next,        \* the store the build reads next
  view,        \* the points the latest build read
  served,      \* what was last swapped in, or NoService
  reload       \* the metric config_last_reload_successful: none, ok, failed

vars == <<cluster, store, undelivered, changes, loop, next, view, served, reload>>

Content(k, i) == IF i = 0 THEN {} ELSE History[k][i]

Contents(v) == [k \in Kind |-> Content(k, v[k])]

(* The objects an informer reports when a store goes from a to b. *)
Changed(a, b) == {o.name : o \in (a \ b) \cup (b \ a)}

(* resourcesFromObjects and NewFromResources: one Platform, the one named  *)
(* or the only one, and every other object well formed.                    *)
Selected(platforms) ==
  {p \in platforms : PlatformName = AnyPlatform \/ p.name = PlatformName}

Valid(v) ==
  /\ \E p \in Selected(Content(Platforms, v[Platforms])) :
       p.wellFormed /\ Selected(Content(Platforms, v[Platforms])) = {p}
  /\ \A k \in Kind \ {Platforms} : \A o \in Content(k, v[k]) : o.wellFormed

-------------------------------------------------------------------------------
Init ==
  /\ cluster = [k \in Kind |-> 1]
  /\ store = [k \in Kind |-> 0]
  /\ undelivered = [k \in Kind |-> 0]
  /\ changes = 0
  /\ loop = "sync"
  /\ next = 1
  /\ view = [k \in Kind |-> 0]
  /\ served = NoService
  /\ reload = "none"

(* Somebody applies, edits or deletes a resource. *)
Edit(k) ==
  /\ cluster[k] < Len(History[k])
  /\ cluster' = [cluster EXCEPT ![k] = @ + 1]
  /\ UNCHANGED <<store, undelivered, changes, loop, next, view, served, reload>>

(* An informer catches up: its first list, one watch event, or a relist    *)
(* after a broken watch, which skips the points in between.                *)
Watch(k) ==
  /\ \E i \in (store[k] + 1)..cluster[k] :
       /\ store' = [store EXCEPT ![k] = i]
       /\ undelivered' = [undelivered EXCEPT
            ![k] = @ + Cardinality(Changed(Content(k, store[k]), Content(k, i)))]
  /\ UNCHANGED <<cluster, changes, loop, next, view, served, reload>>

(* changed: a full channel drops the token. *)

DeliverUnbuffered(k) == \* mutant: a channel without a slot
  /\ undelivered[k] > 0
  /\ undelivered' = [undelivered EXCEPT ![k] = @ - 1]
  /\ changes' = IF loop = "wait" THEN 1 ELSE changes
  /\ UNCHANGED <<cluster, store, loop, next, view, served, reload>>

Deliver(k) ==
  /\ undelivered[k] > 0
  /\ undelivered' = [undelivered EXCEPT ![k] = @ - 1]
  /\ changes' = 1
  /\ UNCHANGED <<cluster, store, loop, next, view, served, reload>>

(* WaitForCacheSync has returned; the first build starts. *)
Synced ==
  /\ loop = "sync"
  /\ \A k \in Kind : store[k] > 0
  /\ loop' = "build"
  /\ next' = 1
  /\ UNCHANGED <<cluster, store, undelivered, changes, view, served, reload>>

Wake ==
  /\ loop = "wait"
  /\ changes > 0
  /\ changes' = changes - 1
  /\ loop' = "build"
  /\ next' = 1
  /\ UNCHANGED <<cluster, store, undelivered, view, served, reload>>

ReadStore ==
  /\ loop = "build"
  /\ next \in Kind
  /\ view' = [view EXCEPT ![next] = store[next]]
  /\ next' = next + 1
  /\ UNCHANGED <<cluster, store, undelivered, changes, loop, served, reload>>

AllRead == loop = "build" /\ next \notin Kind

SwapUnchecked == \* mutant: what was read is put to use before it is checked
  /\ AllRead
  /\ served' = view
  /\ reload' = IF Valid(view) THEN "ok" ELSE "failed"
  /\ loop' = "wait"
  /\ UNCHANGED <<cluster, store, undelivered, changes, next, view>>
SwapAndDrain == \* mutant: drops the token that arrived during the build
  /\ AllRead
  /\ Valid(view)
  /\ served' = view
  /\ reload' = "ok"
  /\ loop' = "wait"
  /\ changes' = 0
  /\ UNCHANGED <<cluster, store, undelivered, next, view>>

Swap ==
  /\ AllRead
  /\ Valid(view)
  /\ served' = view
  /\ reload' = "ok"
  /\ loop' = "wait"
  /\ UNCHANGED <<cluster, store, undelivered, changes, next, view>>

RejectSilently == \* mutant: the failure is not recorded
  /\ AllRead
  /\ ~Valid(view)
  /\ loop' = "wait"
  /\ UNCHANGED <<cluster, store, undelivered, changes, next, view, served, reload>>


Reject ==
  /\ AllRead
  /\ ~Valid(view)
  /\ reload' = "failed"
  /\ loop' = "wait"
  /\ UNCHANGED <<cluster, store, undelivered, changes, next, view, served>>

Loop == Synced \/ Wake \/ ReadStore \/ Swap \/ Reject

Next ==
  \/ \E k \in Kind : Edit(k) \/ Watch(k) \/ Deliver(k)
  \/ Loop

Spec == Init /\ [][Next]_vars

(* Informers keep watching (client-go reconnects and relists), handlers    *)
(* run, and the loop goroutine is scheduled.  Nobody has to edit.          *)
Fairness ==
  /\ \A k \in Kind : WF_vars(Watch(k)) /\ WF_vars(Deliver(k))
  /\ WF_vars(Loop)

FairSpec == Spec /\ Fairness

-------------------------------------------------------------------------------
TypeOK ==
  /\ cluster \in [Kind -> Nat] /\ \A k \in Kind : cluster[k] \in 1..Len(History[k])
  /\ store \in [Kind -> Nat] /\ \A k \in Kind : store[k] <= cluster[k]
  /\ undelivered \in [Kind -> Nat]
  /\ changes \in 0..1
  /\ loop \in {"sync", "build", "wait"}
  /\ next \in 1..5
  /\ view \in [Kind -> Nat]
  /\ served \in [Kind -> Nat] \cup {NoService}
  /\ reload \in {"none", "ok", "failed"}

(* No event is on its way to the loop, and the loop is waiting for one. *)
Quiet ==
  /\ loop = "wait"
  /\ changes = 0
  /\ \A k \in Kind : undelivered[k] = 0

(* The wake-up is never lost: a change that reaches a store while a build  *)
(* is reading, or while the channel is full, is seen by a later build.     *)
(* When nothing is under way, what is served is what the stores hold, or   *)
(* the stores hold a configuration that was refused and reported.          *)
QuietMeansCurrent ==
  Quiet =>
    IF Valid(store)
    THEN served # NoService /\ Contents(served) = Contents(store)
    ELSE reload = "failed"

(* The gauge tells the truth between builds: ok when the latest build is   *)
(* the one being served, failed when the latest build was refused.         *)
GaugeTruthful ==
  loop = "wait" =>
    /\ reload = "ok" => served = view
    /\ reload = "failed" => ~Valid(view)
    /\ reload # "none"

(* An invalid change keeps the previous configuration, and no reload ever  *)
(* takes a kind back to an earlier point or stops serving.                 *)
Forward ==
  /\ served # NoService => served' # NoService
  /\ (served # NoService /\ served' # NoService) =>
       \A k \in Kind : served'[k] >= served[k]
  /\ served' # served => Valid(served')

ServedNeverBack == [][Forward]_vars

(* The promise, the same as the files' (ConfigWatch): a build that does    *)
(* not load takes nothing away, what is served has loaded and never goes   *)
(* back, although the stores it is read from lag behind the cluster and    *)
(* each other, and change while it reads them (operator/source.go).        *)
Source ==
  INSTANCE ConfigSource WITH
    Input <- Kind,
    latest <- cluster,
    errors <- 0,
    Acceptable <- {points \in [Kind -> Nat] : Valid(points)}

SourceSpec == Source!Spec

(* Once the edits stop at a valid configuration, it is served: "PBOM picks *)
(* up the change within seconds, without a restart".                       *)
FollowsCluster ==
  <>[](Valid(cluster) => /\ served # NoService
                         /\ Contents(served) = Contents(cluster))

===============================================================================
