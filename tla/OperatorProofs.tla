---------------------------- MODULE OperatorProofs ----------------------------
(***************************************************************************)
(* Proofs about Operator, for any history of edits and any platform name,  *)
(* and at the end about Serve, which the operator's builds are swapped     *)
(* into.                                                                   *)
(***************************************************************************)
EXTENDS Operator, Serve, FiniteSetTheorems, TLAPS

(* A store that differs from what the build read has left something that   *)
(* will make the loop read it: an undelivered event, a token, or the build *)
(* under way, which has still to come to it.                               *)
NoLostUpdate ==
  loop # "sync" =>
    \A k \in Kind :
      Content(k, store[k]) # Content(k, view[k]) =>
        \/ undelivered[k] > 0
        \/ changes > 0
        \/ loop = "build" /\ next <= k

(* Between builds the outcome of the latest one is on record. *)
OutcomeInv ==
  loop = "wait" => \/ reload = "ok" /\ served = view
                   \/ reload = "failed" /\ ~Valid(view)

(* A build never reads ahead of a store, and what is served was read.      *)
OrderInv ==
  /\ \A k \in Kind : view[k] <= store[k]
  /\ served # NoService => Valid(served) /\ \A k \in Kind : served[k] <= view[k]

IInv == TypeOK /\ NoLostUpdate /\ OutcomeInv /\ OrderInv

-------------------------------------------------------------------------------
LEMMA ContentFinite ==
  ASSUME NEW k \in Kind, NEW i \in 0..Len(History[k])
  PROVE  IsFiniteSet(Content(k, i))
BY HistoryAssumption, FS_EmptySet DEF Content, Kind

(* An informer that moves to a different set of objects reports something. *)
LEMMA ChangeReported ==
  ASSUME NEW k \in Kind, NEW i \in 0..Len(History[k]), NEW j \in 0..Len(History[k])
  PROVE  LET n == Cardinality(Changed(Content(k, i), Content(k, j))) IN
           /\ n \in Nat
           /\ Content(k, i) # Content(k, j) => n > 0
<1> DEFINE a == Content(k, i)
           b == Content(k, j)
           D == (a \ b) \cup (b \ a)
<1>1. IsFiniteSet(D)
  BY ContentFinite, FS_Union, FS_Difference
<1>2. Changed(a, b) = {o.name : o \in D}
  BY DEF Changed
<1>3. IsFiniteSet(Changed(a, b))
  <2> DEFINE f == [o \in D |-> o.name]
  <2>1. f \in Surjection(D, Changed(a, b))
    BY <1>2 DEF Surjection
  <2>2. QED
    BY <1>1, <2>1, FS_Surjection
<1>4. a # b => Changed(a, b) # {}
  BY <1>2
<1>5. QED
  BY <1>3, <1>4, FS_CardinalityType, FS_EmptySet

(* Validity is a matter of contents. *)
LEMMA ValidContents ==
  ASSUME NEW v, NEW w, Contents(v) = Contents(w)
  PROVE  Valid(v) <=> Valid(w)
<1>1. \A k \in Kind : Content(k, v[k]) = Content(k, w[k])
  BY DEF Contents
<1>2. Platforms \in Kind
  BY DEF Platforms, Kind
<1>3. QED
  BY <1>1, <1>2 DEF Valid

-------------------------------------------------------------------------------
LEMMA InitIInv == Init => IInv
BY HistoryAssumption, NoServiceAssumption
   DEF Init, IInv, TypeOK, NoLostUpdate, OutcomeInv, OrderInv, Kind

LEMMA TypeStep == TypeOK /\ [Next]_vars => TypeOK'
<1> SUFFICES ASSUME TypeOK, [Next]_vars PROVE TypeOK'
  OBVIOUS
<1> USE DEF TypeOK
<1>1. ASSUME NEW k \in Kind, Edit(k) PROVE TypeOK'
  BY <1>1 DEF Edit
<1>2. ASSUME NEW k \in Kind, Watch(k) PROVE TypeOK'
  <2>1. PICK i \in (store[k] + 1)..cluster[k] :
          /\ store' = [store EXCEPT ![k] = i]
          /\ undelivered' = [undelivered EXCEPT
               ![k] = @ + Cardinality(Changed(Content(k, store[k]), Content(k, i)))]
    BY <1>2 DEF Watch
  <2>2. store[k] \in 0..Len(History[k]) /\ i \in 0..Len(History[k])
    BY <2>1
  <2>3. Cardinality(Changed(Content(k, store[k]), Content(k, i))) \in Nat
    BY <2>2, ChangeReported
  <2>4. QED
    BY <1>2, <2>1, <2>3 DEF Watch
<1>3. ASSUME NEW k \in Kind, Deliver(k) PROVE TypeOK'
  BY <1>3 DEF Deliver
<1>4. CASE Synced
  BY <1>4 DEF Synced
<1>5. CASE Wake
  BY <1>5 DEF Wake
<1>6. CASE ReadStore
  <2>1. next' \in 1..5
    BY <1>6 DEF ReadStore, Kind
  <2>2. view' \in [Kind -> Nat]
    BY <1>6 DEF ReadStore
  <2>3. QED
    BY <1>6, <2>1, <2>2 DEF ReadStore
<1>7. CASE Swap
  BY <1>7 DEF Swap
<1>8. CASE Reject
  BY <1>8 DEF Reject
<1>9. CASE UNCHANGED vars
  BY <1>9 DEF vars
<1>10. QED
  BY <1>1, <1>2, <1>3, <1>4, <1>5, <1>6, <1>7, <1>8, <1>9 DEF Next, Loop

(* Every state of the operator has the declared types. *)
THEOREM TypeCorrect == Spec => []TypeOK
<1>1. Init => TypeOK
  BY InitIInv DEF IInv
<1>2. QED
  BY <1>1, TypeStep, PTL DEF Spec

LEMMA UpdateStep == TypeOK /\ NoLostUpdate /\ [Next]_vars => NoLostUpdate'
<1> SUFFICES ASSUME TypeOK, NoLostUpdate, [Next]_vars PROVE NoLostUpdate'
  OBVIOUS
<1> USE DEF TypeOK, NoLostUpdate
<1>1. ASSUME NEW k \in Kind, Edit(k) PROVE NoLostUpdate'
  BY <1>1 DEF Edit
<1>2. ASSUME NEW k \in Kind, Watch(k) PROVE NoLostUpdate'
  <2>1. PICK i \in (store[k] + 1)..cluster[k] :
          /\ store' = [store EXCEPT ![k] = i]
          /\ undelivered' = [undelivered EXCEPT
               ![k] = @ + Cardinality(Changed(Content(k, store[k]), Content(k, i)))]
    BY <1>2 DEF Watch
  <2>2. store[k] \in 0..Len(History[k]) /\ i \in 0..Len(History[k])
    BY <2>1
  <2> DEFINE n == Cardinality(Changed(Content(k, store[k]), Content(k, i)))
  <2>3. n \in Nat /\ (Content(k, store[k]) # Content(k, i) => n > 0)
    BY <2>2, ChangeReported
  <2>4. /\ undelivered'[k] = undelivered[k] + n
        /\ store'[k] = i
        /\ \A j \in Kind \ {k} : store'[j] = store[j] /\ undelivered'[j] = undelivered[j]
        /\ UNCHANGED <<changes, loop, next, view>>
    BY <1>2, <2>1 DEF Watch
  <2> HIDE DEF n
  <2>5. SUFFICES ASSUME loop # "sync", NEW j \in Kind,
                        Content(j, store'[j]) # Content(j, view[j])
                 PROVE  \/ undelivered'[j] > 0
                        \/ changes > 0
                        \/ loop = "build" /\ next <= j
    BY <2>4
  <2>6. CASE j = k
    <3>1. undelivered[k] \in Nat /\ undelivered'[j] = undelivered[k] + n
      BY <2>4, <2>6
    <3>2. CASE Content(k, store[k]) # Content(k, view[k])
      <4>1. undelivered[k] > 0 \/ changes > 0 \/ (loop = "build" /\ next <= k)
        BY <2>5, <3>2
      <4>2. QED
        BY <2>3, <2>6, <3>1, <4>1
    <3>3. CASE Content(k, store[k]) = Content(k, view[k])
      BY <2>3, <2>4, <2>5, <2>6, <3>1, <3>3
    <3>4. QED
      BY <3>2, <3>3
  <2>7. CASE j # k
    BY <2>4, <2>5, <2>7
  <2>8. QED
    BY <2>6, <2>7
<1>3. ASSUME NEW k \in Kind, Deliver(k) PROVE NoLostUpdate'
  BY <1>3 DEF Deliver
<1>4. CASE Synced
  BY <1>4 DEF Synced, Kind
<1>5. CASE Wake
  BY <1>5 DEF Wake, Kind
<1>6. CASE ReadStore
  <2>1. next \in Kind /\ next' = next + 1 /\ view'[next] = store[next]
    BY <1>6 DEF ReadStore
  <2>2. \A k \in Kind \ {next} : view'[k] = view[k]
    BY <1>6 DEF ReadStore
  <2>3. /\ loop = "build" /\ loop' = loop
        /\ store' = store /\ undelivered' = undelivered /\ changes' = changes
    BY <1>6 DEF ReadStore
  <2>4. \A k \in Kind \ {next} : next <= k => next' <= k
    BY <2>1 DEF Kind
  <2>5. QED
    BY <2>1, <2>2, <2>3, <2>4
<1>7. CASE Swap
  <2>1. \A k \in Kind : ~(next <= k)
    BY <1>7 DEF Swap, AllRead, Kind
  <2>2. QED
    BY <1>7, <2>1 DEF Swap, AllRead
<1>8. CASE Reject
  <2>1. \A k \in Kind : ~(next <= k)
    BY <1>8 DEF Reject, AllRead, Kind
  <2>2. QED
    BY <1>8, <2>1 DEF Reject, AllRead
<1>9. CASE UNCHANGED vars
  BY <1>9 DEF vars
<1>10. QED
  BY <1>1, <1>2, <1>3, <1>4, <1>5, <1>6, <1>7, <1>8, <1>9 DEF Next, Loop

LEMMA OutcomeStep ==
  TypeOK /\ OutcomeInv /\ OrderInv /\ [Next]_vars => OutcomeInv' /\ OrderInv'
<1> SUFFICES ASSUME TypeOK, OutcomeInv, OrderInv, [Next]_vars
             PROVE  OutcomeInv' /\ OrderInv'
  OBVIOUS
<1> USE DEF TypeOK, OutcomeInv, OrderInv
<1>1. ASSUME NEW k \in Kind, Edit(k) PROVE OutcomeInv' /\ OrderInv'
  BY <1>1 DEF Edit, Valid
<1>2. ASSUME NEW k \in Kind, Watch(k) PROVE OutcomeInv' /\ OrderInv'
  <2>1. \A j \in Kind : view[j] <= store'[j]
    BY <1>2 DEF Watch
  <2>2. UNCHANGED <<loop, next, view, served, reload>>
    BY <1>2 DEF Watch
  <2>3. OutcomeInv'
    BY <2>2 DEF Valid
  <2>4. OrderInv'
    BY <2>1, <2>2 DEF Valid
  <2>5. QED
    BY <2>3, <2>4
<1>3. ASSUME NEW k \in Kind, Deliver(k) PROVE OutcomeInv' /\ OrderInv'
  BY <1>3 DEF Deliver, Valid
<1>4. CASE Synced
  BY <1>4 DEF Synced
<1>5. CASE Wake
  BY <1>5 DEF Wake
<1>6. CASE ReadStore
  BY <1>6, NoServiceAssumption DEF ReadStore
<1>7. CASE Swap
  BY <1>7, NoServiceAssumption DEF Swap
<1>8. CASE Reject
  BY <1>8 DEF Reject, Valid
<1>9. CASE UNCHANGED vars
  BY <1>9 DEF vars, Valid
<1>10. QED
  BY <1>1, <1>2, <1>3, <1>4, <1>5, <1>6, <1>7, <1>8, <1>9 DEF Next, Loop

LEMMA Inductive == Spec => []IInv
<1>1. IInv /\ [Next]_vars => IInv'
  BY TypeStep, UpdateStep, OutcomeStep DEF IInv
<1>2. QED
  BY InitIInv, <1>1, PTL DEF Spec

-------------------------------------------------------------------------------
(* No wake-up is lost: at rest, the service is what the stores hold, or    *)
(* what they hold was refused.                                             *)
THEOREM QuietMeansCurrentHolds == Spec => []QuietMeansCurrent
<1>1. IInv => QuietMeansCurrent
  <2> SUFFICES ASSUME IInv, Quiet
               PROVE  IF Valid(store)
                      THEN served # NoService /\ Contents(served) = Contents(store)
                      ELSE reload = "failed"
    BY DEF QuietMeansCurrent
  <2>1. \A k \in Kind : Content(k, store[k]) = Content(k, view[k])
    BY DEF IInv, NoLostUpdate, Quiet
  <2>2. Contents(view) = Contents(store)
    BY <2>1 DEF Contents
  <2>3. Valid(view) <=> Valid(store)
    BY <2>2, ValidContents
  <2>4. CASE Valid(store)
    <3>1. served = view
      BY <2>3, <2>4 DEF IInv, OutcomeInv, Quiet
    <3>2. served # NoService
      BY <3>1, NoServiceAssumption DEF IInv, TypeOK
    <3>3. QED
      BY <2>2, <2>4, <3>1, <3>2
  <2>5. CASE ~Valid(store)
    <3>1. ~Valid(view)
      BY <2>3, <2>5
    <3>2. served = view => Valid(view)
      BY NoServiceAssumption DEF IInv, TypeOK, OrderInv
    <3>3. reload = "failed"
      BY <3>1, <3>2 DEF IInv, OutcomeInv, Quiet
    <3>4. QED
      BY <2>5, <3>3
  <2>6. QED
    BY <2>4, <2>5
<1>2. QED
  BY <1>1, Inductive, PTL

(* Between builds the gauge reports the latest build. *)
THEOREM GaugeTruthfulHolds == Spec => []GaugeTruthful
<1>1. IInv => GaugeTruthful
  <2> SUFFICES ASSUME IInv, loop = "wait"
               PROVE  /\ reload = "ok" => served = view
                      /\ reload = "failed" => ~Valid(view)
                      /\ reload # "none"
    BY DEF GaugeTruthful
  <2>1. \/ reload = "ok" /\ served = view
        \/ reload = "failed" /\ ~Valid(view)
    BY DEF IInv, OutcomeInv
  <2>2. QED
    BY <2>1
<1>2. QED
  BY <1>1, Inductive, PTL

(* No step takes the service back, makes it invalid, or takes it away.     *)
THEOREM ServedNeverBackHolds == Spec => ServedNeverBack
<1>1. IInv /\ [Next]_vars => [Forward]_vars
  <2> SUFFICES ASSUME IInv, [Next]_vars PROVE Forward
    OBVIOUS
  <2>1. CASE Swap
    BY <2>1, NoServiceAssumption DEF Swap, Forward, IInv, TypeOK, OrderInv
  <2>2. CASE ~Swap
    <3>1. served' = served
      BY <2>2 DEF Next, Loop, Edit, Watch, Deliver, Synced, Wake, ReadStore,
                  Reject, vars
    <3>2. served # NoService => \A k \in Kind : served[k] \in Nat
      BY DEF IInv, TypeOK
    <3>3. QED
      BY <3>1, <3>2 DEF Forward
  <2>3. QED
    BY <2>1, <2>2
<1>2. QED
  BY <1>1, Inductive, PTL DEF ServedNeverBack, Spec

-------------------------------------------------------------------------------
(* What a build has read is something that a load may read.                *)
LEMMA ViewLoads ==
  ASSUME IInv
  PROVE  view \in Source!Loads
<1>1. \A k \in Kind : view[k] \in Source!Readable(k)
  <2> SUFFICES ASSUME NEW k \in Kind PROVE view[k] \in Source!Readable(k)
    OBVIOUS
  <2>1. view[k] \in Nat /\ store[k] \in Nat /\ cluster[k] \in Nat
    BY DEF IInv, TypeOK
  <2>2. view[k] <= cluster[k]
    BY <2>1 DEF IInv, TypeOK, OrderInv
  <2>3. CASE served = NoService
    BY <2>1, <2>2, <2>3 DEF Source!Readable
  <2>4. CASE served # NoService
    <3>1. served[k] \in Nat /\ served[k] <= view[k]
      BY <2>4 DEF IInv, TypeOK, OrderInv
    <3> QED
      BY <2>1, <2>2, <2>4, <3>1 DEF Source!Readable
  <2> QED
    BY <2>3, <2>4
<1>2. view \in [Kind -> UNION {Source!Readable(k) : k \in Kind}]
  BY <1>1 DEF IInv, TypeOK
<1> QED
  BY <1>1, <1>2 DEF Source!Loads

LEMMA SourceStep == IInv /\ [Next]_vars => [Source!Next]_(Source!vars)
<1> SUFFICES ASSUME IInv, [Next]_vars
             PROVE  Source!Next \/ UNCHANGED Source!vars
  OBVIOUS
<1>1. ASSUME NEW k \in Kind, Edit(k) PROVE Source!Change(k)
  BY <1>1 DEF Edit, Source!Change
<1>2. ASSUME Swap PROVE Source!Adopt
  <2>1. view \in {points \in [Kind -> Nat] : Valid(points)}
    BY <1>2 DEF Swap, IInv, TypeOK
  <2> QED
    BY <1>2, <2>1, ViewLoads DEF Swap, Source!Adopt
<1>3. ASSUME Reject PROVE Source!Refuse
  <2>1. view \notin {points \in [Kind -> Nat] : Valid(points)}
    BY <1>3 DEF Reject
  <2> QED
    BY <1>3, <2>1, ViewLoads DEF Reject, Source!Refuse
<1>4. ASSUME NEW k \in Kind, Watch(k) \/ Deliver(k) PROVE UNCHANGED Source!vars
  BY <1>4 DEF Watch, Deliver, Source!vars
<1>5. CASE Synced \/ Wake \/ ReadStore \/ UNCHANGED vars
  BY <1>5 DEF Synced, Wake, ReadStore, vars, Source!vars
<1> QED
  BY <1>1, <1>2, <1>3, <1>4, <1>5 DEF Next, Loop, Source!Next

(* The builds of the operator are a source of configurations: an invalid   *)
(* resource takes nothing away and is reported, and what is swapped in is  *)
(* valid, of the cluster, and behind the service it replaces in no kind    *)
(* (operator/source.go).                                                   *)
THEOREM ImplementsSource == Spec => SourceSpec
<1>1. Init => Source!Init
  BY DEF Init, Source!Init
<1> QED
  BY <1>1, SourceStep, Inductive, PTL DEF Spec, SourceSpec, Source!Spec

-------------------------------------------------------------------------------
(***************************************************************************)
(* What the operator's builds are swapped into: the two pointers and the   *)
(* goroutines of pbom serve, for any number of requests, loads and edits.  *)
(***************************************************************************)
(* The newest service is the current one, and the goroutine of a service   *)
(* that has no handler yet has not begun.                                  *)
NewestInv ==
  /\ loads = current
  /\ \A s \in Service : s > handler => pc[s] = "idle"

(* Only a goroutine with a service gets to the service's mutex, and one    *)
(* that discovers holds it.                                                *)
HolderInv ==
  /\ \A g \in Goroutine : pc[g] \in {"lock", "discover"} => call[g].svc \in Service
  /\ \A g \in Goroutine : pc[g] = "discover" => mu[call[g].svc] = g

ServeInv == ServeTypeOK /\ NeverAhead /\ NewestInv /\ HolderInv

Place == {"idle", "download", "load", "check", "lock", "discover"}
Mode == {"cached", "read", "refresh", "inventory"}
Called == [svc : 0..MaxLoads, mode : Mode, source : {"snapshot", "url"}]

LEMMA ServeTypes ==
  ASSUME ServeInv
  PROVE  /\ MaxLoads \in Nat /\ MaxEdits \in Nat /\ Modes \subseteq Mode
         /\ loads \in Nat /\ current \in Nat /\ handler \in Nat
         /\ loads <= MaxLoads /\ loads = current
         /\ handler = current \/ handler = current - 1
         /\ pc \in [Goroutine -> Place] /\ call \in [Goroutine -> Called]
         /\ invs \in [Service -> Inventories \cup {Nil}]
         /\ mu \in [Service -> Goroutine \cup {Free}]
BY BoundAssumption, ModeAssumption
DEF ServeInv, ServeTypeOK, NeverAhead, NewestInv, Place, Mode, Called

LEMMA NoCallTypes ==
  NoCall \in Called /\ NoCall.svc = 0
BY BoundAssumption DEF NoCall, Called, Mode

(* What is left to show of a step that leaves the pointers and the caches. *)
LEMMA CallStep ==
  ASSUME ServeInv,
         UNCHANGED <<loads, current, handler, invs, mu, up>>,
         readable' \in BOOLEAN, edits' \in 0..MaxEdits, source' \in {"snapshot", "url"},
         NEW g \in Goroutine, NEW place \in Place, NEW c \in Called,
         pc' = [pc EXCEPT ![g] = place], call' = [call EXCEPT ![g] = c],
         c.svc <= current,
         place = "check" /\ c.svc = 0 => g \in Request,
         place = "lock" => c.svc \in Service,
         place # "discover",
         g \in Service => place = "idle" \/ g <= handler
  PROVE  ServeInv'
<1>1. /\ pc \in [Goroutine -> Place] /\ call \in [Goroutine -> Called]
      /\ pc' \in [Goroutine -> Place] /\ call' \in [Goroutine -> Called]
  BY ServeTypes
<1>2. /\ pc'[g] = place /\ call'[g] = c
      /\ \A q \in Goroutine \ {g} : pc'[q] = pc[q] /\ call'[q] = call[q]
  BY <1>1
<1>3. ServeTypeOK'
  <2>1. \A q \in Goroutine : pc'[q] = "check" /\ call'[q].svc = 0 => q \in Request
    BY <1>2 DEF ServeInv, ServeTypeOK
  <2> QED
    BY <1>1, <2>1 DEF ServeInv, ServeTypeOK, Place, Mode, Called
<1>4. NeverAhead'
  BY <1>2 DEF ServeInv, NeverAhead
<1>5. NewestInv'
  <2>1. ASSUME NEW s \in Service, s > handler
        PROVE  pc'[s] = "idle"
    <3>1. s \in Goroutine /\ pc[s] = "idle"
      BY <2>1 DEF ServeInv, NewestInv, Goroutine
    <3>2. s \in Nat /\ handler \in Nat
      BY ServeTypes DEF Service
    <3>3. CASE s = g
      BY <3>2, <3>3, <2>1, <1>2
    <3>4. CASE s # g
      BY <3>1, <3>4, <1>2
    <3> QED
      BY <3>3, <3>4
  <2> QED
    BY <2>1 DEF ServeInv, NewestInv
<1>6. HolderInv'
  BY <1>2 DEF ServeInv, HolderInv
<1> QED
  BY <1>3, <1>4, <1>5, <1>6 DEF ServeInv

LEMMA ServeInvInit ==
  ASSUME ServeInit
  PROVE  ServeInv
<1>1. MaxLoads \in Nat /\ MaxEdits \in Nat /\ 0 \in 0..MaxEdits
  BY BoundAssumption
<1>2. NoCall \in Called /\ NoCall.svc = 0
  BY NoCallTypes
<1>3. Download \notin Service
  BY GoroutineAssumption
<1>4. \A s \in Service : s \in Goroutine
  BY DEF Goroutine
<1>5. /\ pc \in [Goroutine -> Place]
      /\ \A g \in Goroutine : pc[g] \in {"idle", "download"}
      /\ \A s \in Service : pc[s] = "idle"
  BY <1>3, <1>4 DEF ServeInit, Place
<1>6. /\ call \in [Goroutine -> Called]
      /\ \A g \in Goroutine : call[g].svc = 0
  BY <1>2 DEF ServeInit
<1>7. ServeTypeOK
  <2>1. loads \in 0..MaxLoads /\ current \in 0..loads /\ handler \in 0..loads
    BY <1>1 DEF ServeInit
  <2>2. \A g \in Goroutine : pc[g] # "check"
    BY <1>5
  <2> QED
    BY <1>1, <1>5, <1>6, <2>1, <2>2 DEF ServeInit, ServeTypeOK, Place, Mode, Called
<1>8. NeverAhead
  BY <1>6 DEF ServeInit, NeverAhead
<1>9. NewestInv /\ HolderInv
  BY <1>5 DEF ServeInit, NewestInv, HolderInv
<1> QED
  BY <1>7, <1>8, <1>9 DEF ServeInv

(* What is left to show of a step that leaves the calls and the mutexes.   *)
LEMMA CacheStep ==
  ASSUME ServeInv, UNCHANGED <<loads, current, handler, mu, pc, call, up>>,
         readable' \in BOOLEAN, edits' \in 0..MaxEdits, source' \in {"snapshot", "url"},
         invs' \in [Service -> Inventories \cup {Nil}]
  PROVE  ServeInv'
BY DEF ServeInv, ServeTypeOK, NeverAhead, NewestInv, HolderInv

LEMMA ElapseStep ==
  ASSUME ServeInv, NEW s \in Service, Elapse(s)
  PROVE  ServeInv'
<1>1. invs[s] \in Inventories
  BY ServeTypes DEF Elapse
<1>2. [invs[s] EXCEPT !.recent = FALSE] \in Inventories
  BY <1>1 DEF Inventories
<1>3. invs' \in [Service -> Inventories \cup {Nil}]
  BY <1>2, ServeTypes DEF Elapse
<1>4. /\ UNCHANGED <<loads, current, handler, mu, pc, call, up>>
      /\ readable' \in BOOLEAN /\ edits' \in 0..MaxEdits /\ source' \in {"snapshot", "url"}
  BY DEF Elapse, files, pointers, ServeInv, ServeTypeOK
<1> QED
  BY <1>3, <1>4, CacheStep

LEMMA StoreCurrentStep ==
  ASSUME ServeInv, StoreCurrent
  PROVE  ServeInv'
<1>1. /\ loads \in Nat /\ MaxLoads \in Nat /\ current = loads /\ handler = loads
      /\ loads' = loads + 1 /\ current' = loads + 1 /\ handler' = loads /\ loads < MaxLoads
  BY ServeTypes DEF StoreCurrent
<1>2. /\ loads' \in 0..MaxLoads /\ current' \in 0..loads' /\ handler' \in 0..loads'
      /\ handler' = current' - 1 /\ loads' = current'
  BY <1>1
<1>3. UNCHANGED <<readable, edits, source, invs, mu, pc, call, up>>
  BY DEF StoreCurrent, files, caches
<1>4. ServeTypeOK' /\ NewestInv' /\ HolderInv'
  BY <1>1, <1>2, <1>3 DEF ServeInv, ServeTypeOK, NewestInv, HolderInv
<1>5. ASSUME NEW g \in Goroutine
      PROVE  call'[g].svc <= current'
  <2>1. call[g].svc \in Nat /\ call[g].svc <= current
    BY ServeTypes DEF Called, ServeInv, NeverAhead
  <2> QED
    BY <2>1, <1>1, <1>3
<1>6. NeverAhead'
  BY <1>2, <1>5 DEF NeverAhead
<1> QED
  BY <1>4, <1>6 DEF ServeInv

LEMMA StoreHandlerStep ==
  ASSUME ServeInv, StoreHandler
  PROVE  ServeInv'
<1>1. /\ current \in Service /\ current # 0 /\ handler = current - 1
      /\ current \in Nat /\ handler \in Nat /\ MaxLoads \in Nat
  BY ServeTypes DEF StoreHandler, Service
<1> DEFINE c == [svc |-> current, mode |-> "read", source |-> "snapshot"]
<1>2. c \in Called /\ c.svc = current
  BY <1>1 DEF Called, Mode, Service
<1>3. /\ UNCHANGED <<readable, edits, source, loads, current, invs, mu, up>>
      /\ handler' = current
      /\ pc' = [pc EXCEPT ![current] = "check"] /\ call' = [call EXCEPT ![current] = c]
  BY DEF StoreHandler, Start, files, caches
<1> HIDE DEF c
<1>4. current \in Goroutine /\ pc \in [Goroutine -> Place]
      /\ call \in [Goroutine -> Called]
  BY <1>1, ServeTypes DEF Goroutine
<1>5. /\ pc'[current] = "check" /\ call'[current] = c
      /\ \A q \in Goroutine \ {current} : pc'[q] = pc[q] /\ call'[q] = call[q]
      /\ pc' \in [Goroutine -> Place] /\ call' \in [Goroutine -> Called]
  BY <1>2, <1>3, <1>4 DEF Place
<1>6. ServeTypeOK'
  <2>1. handler' \in 0..loads'
    BY <1>3 DEF ServeInv, ServeTypeOK
  <2>2. \A q \in Goroutine : pc'[q] = "check" /\ call'[q].svc = 0 => q \in Request
    BY <1>1, <1>2, <1>5 DEF ServeInv, ServeTypeOK
  <2> QED
    BY <1>3, <1>5, <2>1, <2>2 DEF ServeInv, ServeTypeOK, Place, Mode, Called
<1>7. NeverAhead'
  <2>1. current <= current
    BY <1>1
  <2> QED
    BY <1>2, <1>3, <1>5, <2>1 DEF ServeInv, NeverAhead
<1>8. NewestInv'
  <2>1. ASSUME NEW s \in Service, s > handler'
        PROVE  pc'[s] = "idle"
    <3>1. s \in Nat /\ s > current
      BY <1>3, <2>1 DEF Service
    <3>2. s > handler /\ s # current
      BY <1>1, <3>1
    <3> QED
      BY <1>5, <3>2 DEF ServeInv, NewestInv, Goroutine
  <2> QED
    BY <1>3, <2>1 DEF ServeInv, NewestInv
<1>9. HolderInv'
  BY <1>3, <1>5 DEF ServeInv, HolderInv
<1> QED
  BY <1>6, <1>7, <1>8, <1>9 DEF ServeInv

(* The calls that a goroutine begins with the service it has loaded.       *)
LEMMA StartStep ==
  ASSUME ServeInv, NEW g \in Goroutine \ Service,
         NEW s, s = current \/ s = handler, s = 0 => g \in Request, NEW mode \in Mode,
         Start(g, s, mode),
         UNCHANGED <<readable, edits, source, loads, current, handler, invs, mu, up>>
  PROVE  ServeInv'
<1> DEFINE c == [svc |-> s, mode |-> mode, source |-> "snapshot"]
<1>1. s \in 0..MaxLoads /\ s <= current
  BY ServeTypes
<1>2. c \in Called /\ c.svc = s
  BY <1>1 DEF Called
<1>3. pc' = [pc EXCEPT ![g] = "check"] /\ call' = [call EXCEPT ![g] = c]
  BY DEF Start
<1> HIDE DEF c
<1>4. readable' \in BOOLEAN /\ edits' \in 0..MaxEdits /\ source' \in {"snapshot", "url"}
  BY DEF ServeInv, ServeTypeOK
<1>5. "check" \in Place
  BY DEF Place
<1> QED
  BY <1>1, <1>2, <1>3, <1>4, <1>5, CallStep

(* A goroutine whose call ends has let go of everything.                   *)
LEMMA EndStep ==
  ASSUME ServeInv, NEW g \in Goroutine, NEW place \in Place,
         Ends(g, place), UNCHANGED <<invs, mu>>
  PROVE  ServeInv'
<1>1. UNCHANGED <<readable, edits, source, loads, current, handler, up>>
  BY DEF Ends, Moves, files, pointers
<1>2. /\ pc' = [pc EXCEPT ![g] = "idle"]
      /\ call' = [call EXCEPT ![g] = NoCall]
  BY DEF Ends, Moves
<1>3. NoCall \in Called /\ NoCall.svc = 0 /\ 0 <= current
  BY NoCallTypes, ServeTypes
<1>4. readable' \in BOOLEAN /\ edits' \in 0..MaxEdits /\ source' \in {"snapshot", "url"}
  BY <1>1 DEF ServeInv, ServeTypeOK
<1>5. "idle" \in Place
  BY DEF Place
<1> QED
  BY <1>1, <1>2, <1>3, <1>4, <1>5, CallStep

(* A goroutine that goes on with a call has a service, and that service a  *)
(* handler if the goroutine is named after it.                             *)
LEMMA GoingOn ==
  ASSUME ServeInv, NEW g \in Goroutine, pc[g] = "check", call[g].svc # 0
  PROVE  /\ call[g] \in Called /\ call[g].svc \in Service /\ call[g].svc <= current
         /\ g \in Service => g <= handler
<1>1. call \in [Goroutine -> Called] /\ current \in Nat /\ handler \in Nat
  BY ServeTypes
<1>2. call[g] \in Called /\ call[g].svc \in 0..MaxLoads /\ call[g].svc <= current
  BY <1>1 DEF Called, ServeInv, NeverAhead
<1>3. call[g].svc \in Service
  BY <1>2, ServeTypes DEF Service
<1>4. g \in Service => g <= handler
  <2>1. ASSUME g \in Service, g > handler
        PROVE  FALSE
    BY <2>1 DEF ServeInv, NewestInv
  <2>2. g \in Service => g \in Nat
    BY DEF Service
  <2> QED
    BY <1>1, <2>1, <2>2
<1> QED
  BY <1>2, <1>3, <1>4

LEMMA CachedMissStep ==
  ASSUME ServeInv, NEW g \in Goroutine, CachedMiss(g)
  PROVE  ServeInv'
<1> DEFINE c == [call[g] EXCEPT !.mode = "inventory"]
<1>1. /\ UNCHANGED <<readable, edits, source, loads, current, handler, invs, mu, up>>
      /\ pc[g] = "check" /\ pc' = [pc EXCEPT ![g] = "check"] /\ call[g].svc # 0
      /\ call' = [call EXCEPT ![g] = c]
  BY DEF CachedMiss, Moves, files, pointers, caches
<1>2. /\ call[g] \in Called /\ call[g].svc \in Service /\ call[g].svc <= current
      /\ g \in Service => g <= handler
  BY <1>1, GoingOn
<1>3. c \in Called /\ c.svc = call[g].svc
  BY <1>2 DEF Called, Mode
<1> HIDE DEF c
<1>4. readable' \in BOOLEAN /\ edits' \in 0..MaxEdits /\ source' \in {"snapshot", "url"}
  BY <1>1 DEF ServeInv, ServeTypeOK
<1>5. "check" \in Place
  BY DEF Place
<1> QED
  BY <1>1, <1>2, <1>3, <1>4, <1>5, CallStep

LEMMA QueueStep ==
  ASSUME ServeInv, NEW g \in Goroutine, Queue(g)
  PROVE  ServeInv'
<1>1. /\ UNCHANGED <<readable, edits, source, loads, current, handler, invs, mu, up>>
      /\ pc[g] = "check" /\ pc' = [pc EXCEPT ![g] = "lock"] /\ call' = call /\ call[g].svc # 0
  BY DEF Queue, Moves, files, pointers, caches
<1>2. /\ call[g] \in Called /\ call[g].svc \in Service /\ call[g].svc <= current
      /\ g \in Service => g <= handler
  BY <1>1, GoingOn
<1>3. call' = [call EXCEPT ![g] = call[g]]
  BY <1>1, ServeTypes
<1>4. readable' \in BOOLEAN /\ edits' \in 0..MaxEdits /\ source' \in {"snapshot", "url"}
  BY <1>1 DEF ServeInv, ServeTypeOK
<1>5. "lock" \in Place
  BY DEF Place
<1> QED
  BY <1>1, <1>2, <1>3, <1>4, <1>5, CallStep

LEMMA DiscoverStep ==
  ASSUME ServeInv, NEW g \in Goroutine, Discover(g)
  PROVE  ServeInv'
<1> DEFINE s == call[g].svc
           c == [call[g] EXCEPT !.source = source]
<1>1. /\ call \in [Goroutine -> Called] /\ pc \in [Goroutine -> Place]
      /\ mu \in [Service -> Goroutine \cup {Free}]
  BY ServeTypes
<1>2. /\ UNCHANGED <<readable, edits, source, loads, current, handler, invs, up>>
      /\ pc[g] = "lock" /\ pc' = [pc EXCEPT ![g] = "discover"]
      /\ call' = [call EXCEPT ![g].source = source]
      /\ mu[s] = Free /\ mu' = [mu EXCEPT ![s] = g]
  BY DEF Discover, Moves, Mutex, files, pointers
<1>3. s \in Service
  BY <1>2 DEF ServeInv, HolderInv
<1>4. call' = [call EXCEPT ![g] = c]
  BY <1>2
<1>5. c \in Called /\ c.svc = s
  BY <1>1 DEF Called, ServeInv, ServeTypeOK
<1> HIDE DEF c
<1>6. /\ pc'[g] = "discover" /\ call'[g].svc = s
      /\ \A q \in Goroutine \ {g} : pc'[q] = pc[q] /\ call'[q] = call[q]
      /\ pc' \in [Goroutine -> Place] /\ call' \in [Goroutine -> Called]
  BY <1>1, <1>2, <1>4, <1>5 DEF Place
<1>7. mu' \in [Service -> Goroutine \cup {Free}]
  BY <1>1, <1>2
<1>8. ServeTypeOK'
  <2>1. \A q \in Goroutine : pc'[q] = "check" /\ call'[q].svc = 0 => q \in Request
    BY <1>6 DEF ServeInv, ServeTypeOK
  <2> QED
    BY <1>2, <1>6, <1>7, <2>1 DEF ServeInv, ServeTypeOK, Place, Mode, Called
<1>9. NeverAhead'
  BY <1>2, <1>6 DEF ServeInv, NeverAhead
<1>10. NewestInv'
  <2>1. \A q \in Service : q > handler => q # g /\ q \in Goroutine
    BY <1>2 DEF ServeInv, NewestInv, Goroutine
  <2> QED
    BY <1>2, <1>6, <2>1 DEF ServeInv, NewestInv
<1>11. HolderInv'
  <2>1. \A q \in Goroutine : pc'[q] \in {"lock", "discover"} =>
          call'[q].svc \in Service
    BY <1>3, <1>6 DEF ServeInv, HolderInv
  <2>2. ASSUME NEW q \in Goroutine, pc'[q] = "discover"
        PROVE  mu'[call'[q].svc] = q
    <3>1. CASE q = g
      BY <3>1, <1>1, <1>2, <1>3, <1>6
    <3>2. CASE q # g
      <4>1. /\ call'[q].svc = call[q].svc /\ mu[call[q].svc] = q
            /\ call[q].svc \in Service
        BY <3>2, <2>2, <1>6 DEF ServeInv, HolderInv
      <4>2. call[q].svc # s
        BY <4>1, <1>2, GoroutineAssumption
      <4> QED
        BY <4>1, <4>2, <1>1, <1>2
    <3> QED
      BY <3>1, <3>2
  <2> QED
    BY <2>1, <2>2 DEF HolderInv
<1> QED
  BY <1>8, <1>9, <1>10, <1>11 DEF ServeInv

LEMMA PublishStep ==
  ASSUME ServeInv, NEW g \in Goroutine, Publish(g)
  PROVE  ServeInv'
<1> DEFINE s == call[g].svc
<1>1. /\ call \in [Goroutine -> Called] /\ pc \in [Goroutine -> Place]
      /\ mu \in [Service -> Goroutine \cup {Free}]
      /\ invs \in [Service -> Inventories \cup {Nil}]
  BY ServeTypes
<1>2. /\ UNCHANGED <<readable, edits, source, loads, current, handler, up>>
      /\ pc[g] = "discover" /\ pc' = [pc EXCEPT ![g] = "idle"]
      /\ call' = [call EXCEPT ![g] = NoCall]
      /\ mu' = [mu EXCEPT ![s] = Free]
  BY DEF Publish, Ends, Moves, files, pointers
<1>3. NoCall \in Called /\ NoCall.svc = 0 /\ 0 <= current
  BY NoCallTypes, ServeTypes
<1>4. /\ pc'[g] = "idle" /\ call'[g].svc = 0
      /\ \A q \in Goroutine \ {g} : pc'[q] = pc[q] /\ call'[q] = call[q]
      /\ pc' \in [Goroutine -> Place] /\ call' \in [Goroutine -> Called]
  BY <1>1, <1>2, <1>3 DEF Place
<1>5. invs' \in [Service -> Inventories \cup {Nil}]
  <2>1. PICK matched \in {call[g].source, source} :
          invs' = [invs EXCEPT ![s] = [source |-> matched, recent |-> TRUE]]
    BY DEF Publish
  <2>2. matched \in {"snapshot", "url"}
    BY <1>1 DEF Called, ServeInv, ServeTypeOK
  <2>3. [source |-> matched, recent |-> TRUE] \in Inventories
    BY <2>2 DEF Inventories
  <2> QED
    BY <1>1, <2>1, <2>3
<1>6. mu' \in [Service -> Goroutine \cup {Free}]
  BY <1>1, <1>2
<1>7. ServeTypeOK'
  <2>1. \A q \in Goroutine : pc'[q] = "check" /\ call'[q].svc = 0 => q \in Request
    BY <1>4 DEF ServeInv, ServeTypeOK
  <2> QED
    BY <1>2, <1>4, <1>5, <1>6, <2>1 DEF ServeInv, ServeTypeOK, Place, Mode, Called
<1>8. NeverAhead'
  BY <1>2, <1>3, <1>4 DEF ServeInv, NeverAhead
<1>9. NewestInv'
  <2>1. \A q \in Service : q \in Goroutine
    BY DEF Goroutine
  <2> QED
    BY <1>2, <1>4, <2>1 DEF ServeInv, NewestInv
<1>10. HolderInv'
  <2>1. \A q \in Goroutine : pc'[q] \in {"lock", "discover"} =>
          call'[q].svc \in Service
    BY <1>4 DEF ServeInv, HolderInv
  <2>2. ASSUME NEW q \in Goroutine, pc'[q] = "discover"
        PROVE  mu'[call'[q].svc] = q
    <3>1. /\ q # g /\ call'[q].svc = call[q].svc /\ mu[call[q].svc] = q
          /\ call[q].svc \in Service /\ mu[s] = g
      BY <2>2, <1>2, <1>4 DEF ServeInv, HolderInv
    <3>2. call[q].svc # s
      BY <3>1
    <3> QED
      BY <3>1, <3>2, <1>1, <1>2
  <2> QED
    BY <2>1, <2>2 DEF HolderInv
<1> QED
  BY <1>7, <1>8, <1>9, <1>10 DEF ServeInv

LEMMA ExitStep ==
  ASSUME ServeInv, Exit
  PROVE  ServeInv'
<1>1. MaxLoads \in Nat /\ MaxEdits \in Nat
  BY ServeTypes
<1>2. NoCall \in Called /\ NoCall.svc = 0
  BY NoCallTypes
<1>3. \A q \in Goroutine : pc'[q] = "idle" /\ call'[q].svc = 0
  BY <1>2 DEF Exit
<1>4. loads' = 0 /\ current' = 0 /\ handler' = 0
  BY DEF Exit
<1>5. ServeTypeOK'
  <2>1. loads' \in 0..MaxLoads /\ current' \in 0..loads' /\ handler' \in 0..loads'
    BY <1>1, <1>4
  <2>2. pc' \in [Goroutine -> Place] /\ call' \in [Goroutine -> Called]
    BY <1>2 DEF Exit, Place
  <2>3. readable' \in BOOLEAN /\ edits' \in 0..MaxEdits /\ source' \in {"snapshot", "url"}
        /\ up' \in BOOLEAN
    BY DEF Exit, files, ServeInv, ServeTypeOK
  <2>4. /\ invs' \in [Service -> Inventories \cup {Nil}]
        /\ mu' \in [Service -> Goroutine \cup {Free}]
    BY DEF Exit
  <2>5. \A q \in Goroutine : pc'[q] # "check"
    BY <1>3
  <2> QED
    BY <2>1, <2>2, <2>3, <2>4, <2>5 DEF ServeTypeOK, Place, Mode, Called
<1>6. NeverAhead'
  BY <1>3, <1>4 DEF NeverAhead
<1>7. NewestInv' /\ HolderInv'
  BY <1>3, <1>4 DEF NewestInv, HolderInv, Goroutine
<1> QED
  BY <1>5, <1>6, <1>7 DEF ServeInv

(* A download that ends hands its goroutine to what follows it.            *)
LEMMA LandscapeStep ==
  ASSUME ServeInv, Landscape
  PROVE  ServeInv'
<1>1. /\ call \in [Goroutine -> Called] /\ current \in Nat
      /\ Download \in Goroutine \ Service
  BY ServeTypes, GoroutineAssumption DEF Goroutine
<1>2. call[Download] \in Called /\ call[Download].svc <= current
  BY <1>1 DEF ServeInv, NeverAhead
<1>3. ASSUME NEW place \in {"load", "idle"}, pc' = [pc EXCEPT ![Download] = place],
             UNCHANGED <<readable, edits, loads, current, handler, invs, mu, call, up>>,
             source' \in {"snapshot", "url"}
      PROVE  ServeInv'
  <2>1. place \in Place /\ place \notin {"check", "lock", "discover"}
    BY DEF Place
  <2>2. call' = [call EXCEPT ![Download] = call[Download]]
    BY <1>1, <1>3
  <2>3. readable' \in BOOLEAN /\ edits' \in 0..MaxEdits
    BY <1>3 DEF ServeInv, ServeTypeOK
  <2> QED
    BY <1>1, <1>2, <1>3, <2>1, <2>2, <2>3, CallStep
<1>4. source \in {"snapshot", "url"}
  BY DEF ServeInv, ServeTypeOK
<1>5. CASE Downloaded
  BY <1>3, <1>5 DEF Downloaded, files, pointers, caches
<1>6. CASE DownloadFails
  BY <1>3, <1>4, <1>6 DEF DownloadFails, files, pointers, caches
<1>7. CASE Rediscover
  <2>1. CASE pc' = [pc EXCEPT ![Download] = "idle"] /\ UNCHANGED call
    BY <1>3, <1>4, <1>7, <2>1 DEF Rediscover, files, pointers, caches
  <2>2. CASE current # 0 /\ Start(Download, current, "refresh")
    <3>1. "refresh" \in Mode
      BY DEF Mode
    <3>2. UNCHANGED <<readable, edits, source, loads, current, handler, invs, mu, up>>
      BY <1>7 DEF Rediscover, files, pointers, caches
    <3> QED
      BY <1>1, <2>2, <3>1, <3>2, StartStep
  <2> QED
    BY <1>7, <2>1, <2>2 DEF Rediscover
<1> QED
  BY <1>5, <1>6, <1>7 DEF Landscape

LEMMA ServeInvNext ==
  ASSUME ServeInv, [ServeNext]_serveVars
  PROVE  ServeInv'
<1>1. CASE EditReleases
  <2>1. edits' \in 0..MaxEdits /\ readable' \in BOOLEAN
    <3>1. edits \in Nat /\ edits < MaxEdits /\ edits' = edits + 1 /\ MaxEdits \in Nat
      BY <1>1, ServeTypes DEF EditReleases, ServeInv, ServeTypeOK
    <3>2. readable' \in BOOLEAN
      BY <1>1 DEF EditReleases
    <3> QED
      BY <3>1, <3>2
  <2> QED
    BY <1>1, <2>1, CacheStep
    DEF EditReleases, pointers, caches, ServeInv, ServeTypeOK
<1>2. ASSUME NEW s \in Service, Elapse(s)
      PROVE  ServeInv'
  BY <1>2, ElapseStep
<1>3. CASE StoreCurrent
  BY <1>3, StoreCurrentStep
<1>4. CASE StoreHandler
  BY <1>4, StoreHandlerStep
<1>5. CASE Tick
  <2>1. Ticker \in Goroutine \ Service
    BY GoroutineAssumption DEF Goroutine
  <2>2. "refresh" \in Mode
    BY DEF Mode
  <2> QED
    BY <1>5, <2>1, <2>2, StartStep
    DEF Tick, files, pointers, caches
<1>6. CASE Landscape
  BY <1>6, LandscapeStep
<1>7. ASSUME NEW r \in Request, NEW mode \in Modes, Accept(r, mode)
      PROVE  ServeInv'
  <2>1. r \in Goroutine \ Service
    BY GoroutineAssumption DEF Goroutine
  <2>2. mode \in Mode
    BY ServeTypes
  <2> QED
    BY <1>7, <2>1, <2>2, StartStep
    DEF Accept, files, pointers, caches
<1>8. ASSUME NEW g \in Goroutine, Coalesce(g)
      PROVE  ServeInv'
  <2>1. "lock" \in Place
    BY DEF Place
  <2> QED
    BY <1>8, <2>1, EndStep DEF Coalesce, caches
<1>9. ASSUME NEW g \in Goroutine, Discover(g)
      PROVE  ServeInv'
  BY <1>9, DiscoverStep
<1>10. ASSUME NEW g \in Goroutine, Answer(g)
       PROVE  ServeInv'
  <2>1. "check" \in Place
    BY DEF Place
  <2> QED
    BY <1>10, <2>1, EndStep DEF Answer, caches
<1>11. ASSUME NEW g \in Goroutine, Queue(g)
       PROVE  ServeInv'
  BY <1>11, QueueStep
<1>12. ASSUME NEW g \in Goroutine, Publish(g)
       PROVE  ServeInv'
  BY <1>12, PublishStep
<1>13. ASSUME NEW g \in Goroutine, CachedMiss(g)
       PROVE  ServeInv'
  BY <1>13, CachedMissStep
<1>14. CASE Exit
  BY <1>14, ExitStep
<1>15. CASE UNCHANGED serveVars
  BY <1>15, CacheStep
  DEF serveVars, files, pointers, caches, ServeInv, ServeTypeOK
<1> QED
  BY <1>1, <1>2, <1>3, <1>4, <1>5, <1>6, <1>7, <1>8, <1>9, <1>10, <1>11, <1>12, <1>13, <1>14, <1>15
  DEF ServeNext, Lock, Step

LEMMA ServeInvariance == ServeSpec => []ServeInv
<1>1. ServeInit => ServeInv
  BY ServeInvInit
<1>2. ServeInv /\ [ServeNext]_serveVars => ServeInv'
  BY ServeInvNext
<1> QED
  BY <1>1, <1>2, PTL DEF ServeSpec

(* A goroutine that calls a service has one: of those that are started     *)
(* with whatever pointer they find, only a request finds none              *)
(* (serve.go:115-123, 133-135, 145-147).                                   *)
THEOREM ServeTypeHolds == ServeSpec => []ServeTypeOK
<1>1. ServeInv => ServeTypeOK
  BY DEF ServeInv
<1> QED
  BY <1>1, ServeInvariance, PTL

(* A request is never served by a configuration newer than the one the     *)
(* metrics describe, and the handler is at most one configuration behind,  *)
(* whatever loads, requests and refreshes do in between                    *)
(* (serve.go:145-163).                                                     *)
THEOREM NeverAheadHolds == ServeSpec => []NeverAhead
<1>1. ServeInv => NeverAhead
  BY DEF ServeInv
<1> QED
  BY <1>1, ServeInvariance, PTL

(* However many goroutines ask one service at once, the warm-up of its     *)
(* load among them, at most one of them discovers (service.go:354-392).    *)
OneDiscovers ==
  \A g, h \in Goroutine :
    pc[g] = "discover" /\ pc[h] = "discover" /\ call[g].svc = call[h].svc => g = h

THEOREM OneDiscoversHolds == ServeSpec => []OneDiscovers
<1>1. ServeInv => OneDiscovers
  <2> SUFFICES ASSUME HolderInv PROVE OneDiscovers
    BY DEF ServeInv
  <2> QED
    BY DEF HolderInv, OneDiscovers
<1> QED
  BY <1>1, ServeInvariance, PTL

-------------------------------------------------------------------------------
(* A configuration is not taken back, and a call goes on with the service  *)
(* it began with while others are swapped in.                              *)
StaysWithService ==
  /\ current <= current' /\ handler <= handler'
  /\ \A g \in Goroutine :
       pc[g] \in {"check", "lock", "discover"} /\ pc'[g] # "idle" =>
         call'[g].svc = call[g].svc

CallsKeepService == [][up' => StaysWithService]_serveVars

LEMMA OtherCallsStay ==
  ASSUME ServeInv, UNCHANGED <<current, handler>>, NEW g \in Goroutine, NEW place, NEW c,
         pc' = [pc EXCEPT ![g] = place], call' = [call EXCEPT ![g] = c],
         pc[g] \in {"check", "lock", "discover"} /\ place # "idle" => c.svc = call[g].svc
  PROVE  StaysWithService
<1>1. pc \in [Goroutine -> Place] /\ call \in [Goroutine -> Called] /\ current \in Nat /\ handler \in Nat
  BY ServeTypes
<1>2. /\ pc'[g] = place /\ call'[g] = c
      /\ \A q \in Goroutine \ {g} : pc'[q] = pc[q] /\ call'[q] = call[q]
  BY <1>1
<1>3. current <= current' /\ handler <= handler'
  BY <1>1
<1> QED
  BY <1>2, <1>3 DEF StaysWithService

LEMMA KeptCallsStay ==
  ASSUME ServeInv, UNCHANGED call, current <= current', handler <= handler'
  PROVE  StaysWithService
BY DEF StaysWithService

LEMMA ServiceStep == ASSUME ServeInv, ServeNext, up' PROVE StaysWithService
<1>0. /\ pc \in [Goroutine -> Place] /\ call \in [Goroutine -> Called]
      /\ current \in Nat /\ handler \in Nat /\ loads \in Nat
      /\ current <= current /\ handler <= handler
  BY ServeTypes
<1>1. CASE EditReleases
  BY <1>0, <1>1, KeptCallsStay DEF EditReleases, pointers
<1>2. ASSUME NEW s \in Service, Elapse(s) PROVE StaysWithService
  BY <1>0, <1>2, KeptCallsStay DEF Elapse, pointers
<1>3. CASE StoreCurrent
  <2>1. current' = loads + 1 /\ loads = current /\ handler' = handler /\ call' = call
    BY <1>3 DEF StoreCurrent, ServeInv, NewestInv
  <2>2. current <= current'
    BY <1>0, <2>1
  <2> QED
    BY <1>0, <2>1, <2>2, KeptCallsStay
<1>4. CASE StoreHandler
  <2> DEFINE c == [svc |-> current, mode |-> "read", source |-> "snapshot"]
  <2>1. /\ current \in Service /\ current \in Goroutine /\ handler = current - 1
    BY <1>4, ServeTypes DEF StoreHandler, Service, Goroutine
  <2>2. /\ handler' = current /\ current' = current
        /\ pc' = [pc EXCEPT ![current] = "check"] /\ call' = [call EXCEPT ![current] = c]
    BY <1>4 DEF StoreHandler, Start
  <2>3. current > handler /\ handler <= handler' /\ current <= current'
    BY <1>0, <2>1, <2>2
  <2>4. pc[current] = "idle"
    BY <2>1, <2>3 DEF ServeInv, NewestInv
  <2>5. \A q \in Goroutine \ {current} : call'[q] = call[q]
    BY <1>0, <2>2
  <2> QED
    BY <2>3, <2>4, <2>5 DEF StaysWithService
<1>5. CASE Tick
  BY <1>5, OtherCallsStay, GoroutineAssumption DEF Tick, Start, pointers, Goroutine
<1>6. CASE Downloaded \/ DownloadFails
  BY <1>0, <1>6, KeptCallsStay DEF Downloaded, DownloadFails, pointers
<1>7. CASE Rediscover
  <2>1. CASE call' = call
    BY <1>0, <1>7, <2>1, KeptCallsStay DEF Rediscover, pointers
  <2>2. CASE Start(Download, current, "refresh")
    BY <1>7, <2>2, OtherCallsStay DEF Rediscover, Start, pointers, Goroutine
  <2> QED
    BY <1>7, <2>1, <2>2 DEF Rediscover
<1>8. ASSUME NEW r \in Request, NEW mode \in Modes, Accept(r, mode) PROVE StaysWithService
  BY <1>8, OtherCallsStay DEF Accept, Start, pointers, Goroutine
<1>9. ASSUME NEW g \in Goroutine, Answer(g) \/ Coalesce(g) \/ Publish(g) PROVE StaysWithService
  BY <1>9, OtherCallsStay DEF Answer, Coalesce, Publish, Ends, Moves, pointers
<1>10. ASSUME NEW g \in Goroutine, Queue(g) PROVE StaysWithService
  BY <1>0, <1>10, KeptCallsStay DEF Queue, Moves, pointers
<1>11. ASSUME NEW g \in Goroutine, CachedMiss(g) PROVE StaysWithService
  <2> DEFINE c == [call[g] EXCEPT !.mode = "inventory"]
  <2>1. call[g] \in Called
    BY <1>0
  <2>2. c.svc = call[g].svc
    BY <2>1 DEF Called
  <2>3. /\ UNCHANGED <<current, handler>> /\ pc' = [pc EXCEPT ![g] = "check"]
        /\ call' = [call EXCEPT ![g] = c]
    BY <1>11 DEF CachedMiss, Moves, pointers
  <2> HIDE DEF c
  <2> QED
    BY <2>2, <2>3, OtherCallsStay
<1>12. ASSUME NEW g \in Goroutine, Discover(g) PROVE StaysWithService
  <2> DEFINE c == [call[g] EXCEPT !.source = source]
  <2>1. call[g] \in Called
    BY <1>0
  <2>2. c.svc = call[g].svc
    BY <2>1 DEF Called
  <2>3. /\ UNCHANGED <<current, handler>> /\ pc' = [pc EXCEPT ![g] = "discover"]
        /\ call' = [call EXCEPT ![g] = c]
    BY <1>12 DEF Discover, Moves, pointers
  <2> HIDE DEF c
  <2> QED
    BY <2>2, <2>3, OtherCallsStay
<1>13. CASE Exit
  BY <1>13 DEF Exit
<1> QED
  BY <1>1, <1>2, <1>3, <1>4, <1>5, <1>6, <1>7, <1>8, <1>9, <1>10, <1>11, <1>12, <1>13
  DEF ServeNext, Landscape, Lock, Step

(* While the process runs, neither pointer goes back to an earlier         *)
(* configuration, and a request, a tick or a warm-up that is under way     *)
(* when another configuration is swapped in ends with the service it began *)
(* with (serve.go:83-88, 115-148).                                         *)
THEOREM CallsKeepServiceHolds == ServeSpec => CallsKeepService
<1>1. ServeInv /\ [ServeNext]_serveVars => [up' => StaysWithService]_serveVars
  BY ServiceStep
<1> QED
  BY <1>1, ServeInvariance, PTL DEF ServeSpec, CallsKeepService
===============================================================================
