------------------------- MODULE InventoryCacheProofs -------------------------
(***************************************************************************)
(* Proofs about InventoryCache, for any environments, callers, TTL and     *)
(* clock bound; at the end, that Serve abstracts from it soundly.          *)
(***************************************************************************)
EXTENDS InventoryCache, TLAPS

(* The mutex is held by exactly the caller whose program counter says so,  *)
(* and only the holder has discovery goroutines.                           *)
LockInv ==
  /\ \A c \in Caller : pc[c] \in Holding <=> refreshMu = c
  /\ \A c \in Caller, e \in Env : work[c][e] # "none" => pc[c] = "discover"

(* Clocks: nothing is stamped in the future, invsAt is the time of invs,   *)
(* and a discovery under way began after the snapshot it will replace.     *)
ClockInv ==
  /\ invsAt <= now
  /\ invs # NoSnapshot => invs.at = invsAt
  /\ \A c \in Caller : call[c].at <= now /\ call[c].seen <= Published
  /\ \A c \in Caller :
       pc[c] = "discover" /\ invs # NoSnapshot => invsAt < now
  /\ \A c \in Caller :
       pc[c] = "reread" => invs # NoSnapshot /\ invs.at >= call[c].at
  /\ \A c \in Caller : pc[c] = "cachedCheck" => call[c].mode = "cached"
  /\ \A c \in Caller, e \in Env :
       work[c][e] \in {"running", "done"} =>
         out[c][e].collectedAt >= invsAt /\ out[c][e].collectedAt <= now

(* The inductive invariant. *)
IInv ==
  /\ TypeOK
  /\ LockInv
  /\ ClockInv
  /\ AnswerInCall
  /\ BoundedStaleness

-------------------------------------------------------------------------------
LEMMA InitIInv == Init => IInv
<1> SUFFICES ASSUME Init PROVE IInv
  OBVIOUS
<1> USE CallerAssumption, ModeAssumption, ClockAssumption, SnapshotAssumption
<1>1. TypeOK
  BY DEF Init, TypeOK, NoCall, NoInventory, Inventory
<1>2. LockInv
  BY DEF Init, LockInv, Holding
<1>3. ClockInv
  BY DEF Init, ClockInv, NoCall, Published, Number
<1>4. AnswerInCall /\ BoundedStaleness
  BY DEF Init, AnswerInCall, BoundedStaleness
<1>5. QED
  BY <1>1, <1>2, <1>3, <1>4 DEF IInv

LEMMA TypeStep == TypeOK /\ [Next]_vars => TypeOK'
<1> SUFFICES ASSUME TypeOK, [Next]_vars PROVE TypeOK'
  OBVIOUS
<1> USE CallerAssumption, ModeAssumption, ClockAssumption, SnapshotAssumption
    DEF TypeOK
<1>1. CASE Tick
  BY <1>1 DEF Tick
<1>2. ASSUME NEW c \in Caller, NEW m \in Modes, Invoke(c, m) PROVE TypeOK'
  <2>1. Published \in Nat
    BY DEF Published, Number, Snapshot
  <2>2. QED
    BY <1>2, <2>1 DEF Invoke
<1>3. ASSUME NEW c \in Caller, Cancel(c) PROVE TypeOK'
  BY <1>3 DEF Cancel
<1>4. ASSUME NEW c \in Caller, CachedHit(c) PROVE TypeOK'
  BY <1>4 DEF CachedHit
<1>5. ASSUME NEW c \in Caller, CachedMiss(c) PROVE TypeOK'
  BY <1>5 DEF CachedMiss
<1>6. ASSUME NEW c \in Caller, FastPath(c) PROVE TypeOK'
  BY <1>6 DEF FastPath
<1>7. ASSUME NEW c \in Caller, SlowPath(c) PROVE TypeOK'
  BY <1>7 DEF SlowPath
<1>8. ASSUME NEW c \in Caller, Lock(c) PROVE TypeOK'
  BY <1>8 DEF Lock
<1>9. ASSUME NEW c \in Caller, Coalesce(c) PROVE TypeOK'
  BY <1>9 DEF Coalesce
<1>10. ASSUME NEW c \in Caller, Spawn(c) PROVE TypeOK'
  BY <1>10 DEF Spawn
<1>11. ASSUME NEW c \in Caller, Reread(c) PROVE TypeOK'
  BY <1>11 DEF Reread
<1>12. ASSUME NEW c \in Caller, Publish(c) PROVE TypeOK'
  <2>1. invs' \in Snapshot
    BY <1>12 DEF Publish, Published, Number, Snapshot
  <2>2. out' \in [Caller -> [Env -> Inventory]]
    BY <1>12 DEF Publish, NoInventory, Inventory
  <2>3. QED
    BY <1>12, <2>1, <2>2 DEF Publish
<1>13. ASSUME NEW c \in Caller, Unlock(c) PROVE TypeOK'
  BY <1>13 DEF Unlock
<1>14. ASSUME NEW c \in Caller, Return(c) PROVE TypeOK'
  BY <1>14 DEF Return, NoCall
<1>15. ASSUME NEW c \in Caller, NEW e \in Env, Collect(c, e) PROVE TypeOK'
  BY <1>15 DEF Collect, Inventory
<1>16. ASSUME NEW c \in Caller, NEW e \in Env, Finish(c, e) PROVE TypeOK'
  <2>1. PICK k \in Outcomes(c, e) :
          out' = [out EXCEPT ![c][e] =
                    [kind |-> k,
                     collectedAt |-> IF k = "failed" THEN now ELSE @.collectedAt]]
    BY <1>16 DEF Finish
  <2>2. k \in {"full", "partial", "failed"}
    BY DEF Outcomes
  <2>3. out' \in [Caller -> [Env -> Inventory]]
    BY <2>1, <2>2 DEF Inventory
  <2>4. QED
    BY <1>16, <2>3 DEF Finish
<1>17. CASE UNCHANGED vars
  BY <1>17 DEF vars
<1>18. QED
  BY <1>1, <1>2, <1>3, <1>4, <1>5, <1>6, <1>7, <1>8, <1>9, <1>10, <1>11, <1>12, <1>13, <1>14, <1>15, <1>16, <1>17
     DEF Next, Step, Goroutine

(* Every state of the cache has the declared types. *)
THEOREM TypeCorrect == Spec => []TypeOK
<1>1. Init => TypeOK
  BY InitIInv DEF IInv
<1>2. TypeOK /\ [Next]_vars => TypeOK'
  BY TypeStep
<1>3. QED
  BY <1>1, <1>2, PTL DEF Spec

LEMMA LockStep == TypeOK /\ LockInv /\ [Next]_vars => LockInv'
<1> SUFFICES ASSUME TypeOK, LockInv, [Next]_vars PROVE LockInv'
  OBVIOUS
<1> USE CallerAssumption DEF TypeOK, LockInv, Holding
<1>1. CASE Tick
  BY <1>1 DEF Tick
<1>2. ASSUME NEW c \in Caller, NEW m \in Modes, Invoke(c, m) PROVE LockInv'
  BY <1>2 DEF Invoke
<1>3. ASSUME NEW c \in Caller, Cancel(c) PROVE LockInv'
  BY <1>3 DEF Cancel
<1>4. ASSUME NEW c \in Caller, CachedHit(c) PROVE LockInv'
  BY <1>4 DEF CachedHit
<1>5. ASSUME NEW c \in Caller, CachedMiss(c) PROVE LockInv'
  BY <1>5 DEF CachedMiss
<1>6. ASSUME NEW c \in Caller, FastPath(c) PROVE LockInv'
  BY <1>6 DEF FastPath
<1>7. ASSUME NEW c \in Caller, SlowPath(c) PROVE LockInv'
  BY <1>7 DEF SlowPath
<1>8. ASSUME NEW c \in Caller, Lock(c) PROVE LockInv'
  BY <1>8 DEF Lock
<1>9. ASSUME NEW c \in Caller, Coalesce(c) PROVE LockInv'
  BY <1>9 DEF Coalesce
<1>10. ASSUME NEW c \in Caller, Spawn(c) PROVE LockInv'
  BY <1>10 DEF Spawn
<1>11. ASSUME NEW c \in Caller, Reread(c) PROVE LockInv'
  BY <1>11 DEF Reread
<1>12. ASSUME NEW c \in Caller, Publish(c) PROVE LockInv'
  BY <1>12 DEF Publish
<1>13. ASSUME NEW c \in Caller, Unlock(c) PROVE LockInv'
  BY <1>13 DEF Unlock
<1>14. ASSUME NEW c \in Caller, Return(c) PROVE LockInv'
  BY <1>14 DEF Return
<1>15. ASSUME NEW c \in Caller, NEW e \in Env, Collect(c, e) PROVE LockInv'
  BY <1>15 DEF Collect
<1>16. ASSUME NEW c \in Caller, NEW e \in Env, Finish(c, e) PROVE LockInv'
  BY <1>16 DEF Finish
<1>17. CASE UNCHANGED vars
  BY <1>17 DEF vars
<1>18. QED
  BY <1>1, <1>2, <1>3, <1>4, <1>5, <1>6, <1>7, <1>8, <1>9,
     <1>10, <1>11, <1>12, <1>13, <1>14, <1>15, <1>16, <1>17
     DEF Next, Step, Goroutine

LEMMA ClockStep == TypeOK /\ LockInv /\ ClockInv /\ [Next]_vars => ClockInv'
<1> SUFFICES ASSUME TypeOK, LockInv, ClockInv, [Next]_vars PROVE ClockInv'
  OBVIOUS
<1> USE CallerAssumption, SnapshotAssumption
    DEF TypeOK, LockInv, ClockInv, Holding, Published, Number, Snapshot
<1>1. CASE Tick
  BY <1>1 DEF Tick, Inventory
<1>2. ASSUME NEW c \in Caller, NEW m \in Modes, Invoke(c, m) PROVE ClockInv'
  BY <1>2 DEF Invoke
<1>3. ASSUME NEW c \in Caller, Cancel(c) PROVE ClockInv'
  BY <1>3 DEF Cancel
<1>4. ASSUME NEW c \in Caller, CachedHit(c) PROVE ClockInv'
  BY <1>4 DEF CachedHit
<1>5. ASSUME NEW c \in Caller, CachedMiss(c) PROVE ClockInv'
  BY <1>5 DEF CachedMiss
<1>6. ASSUME NEW c \in Caller, FastPath(c) PROVE ClockInv'
  BY <1>6 DEF FastPath
<1>7. ASSUME NEW c \in Caller, SlowPath(c) PROVE ClockInv'
  BY <1>7 DEF SlowPath
<1>8. ASSUME NEW c \in Caller, Lock(c) PROVE ClockInv'
  BY <1>8 DEF Lock
<1>9. ASSUME NEW c \in Caller, Coalesce(c) PROVE ClockInv'
  BY <1>9 DEF Coalesce, Fresh, Age
<1>10. ASSUME NEW c \in Caller, Spawn(c) PROVE ClockInv'
  BY <1>10 DEF Spawn, Fresh, Age
<1>11. ASSUME NEW c \in Caller, Reread(c) PROVE ClockInv'
  BY <1>11 DEF Reread
<1>12. ASSUME NEW c \in Caller, Publish(c) PROVE ClockInv'
  BY <1>12 DEF Publish, AllDone
<1>13. ASSUME NEW c \in Caller, Unlock(c) PROVE ClockInv'
  BY <1>13 DEF Unlock
<1>14. ASSUME NEW c \in Caller, Return(c) PROVE ClockInv'
  BY <1>14 DEF Return, NoCall
<1>15. ASSUME NEW c \in Caller, NEW e \in Env, Collect(c, e) PROVE ClockInv'
  BY <1>15 DEF Collect
<1>16. ASSUME NEW c \in Caller, NEW e \in Env, Finish(c, e) PROVE ClockInv'
  BY <1>16 DEF Finish
<1>17. CASE UNCHANGED vars
  BY <1>17 DEF vars
<1>18. QED
  BY <1>1, <1>2, <1>3, <1>4, <1>5, <1>6, <1>7, <1>8, <1>9,
     <1>10, <1>11, <1>12, <1>13, <1>14, <1>15, <1>16, <1>17
     DEF Next, Step, Goroutine

LEMMA AnswerStep ==
  IInv /\ [Next]_vars => AnswerInCall' /\ BoundedStaleness'
<1> SUFFICES ASSUME IInv, [Next]_vars PROVE AnswerInCall' /\ BoundedStaleness'
  OBVIOUS
<1> USE CallerAssumption, SnapshotAssumption, ClockAssumption
    DEF IInv, TypeOK, LockInv, ClockInv, Holding, Published, Number, Snapshot,
        AnswerInCall, BoundedStaleness
<1>1. CASE Tick
  BY <1>1 DEF Tick
<1>2. ASSUME NEW c \in Caller, NEW m \in Modes, Invoke(c, m) PROVE AnswerInCall' /\ BoundedStaleness'
  BY <1>2 DEF Invoke
<1>3. ASSUME NEW c \in Caller, Cancel(c) PROVE AnswerInCall' /\ BoundedStaleness'
  BY <1>3 DEF Cancel
<1>4. ASSUME NEW c \in Caller, CachedHit(c) PROVE AnswerInCall' /\ BoundedStaleness'
  BY <1>4 DEF CachedHit
<1>5. ASSUME NEW c \in Caller, CachedMiss(c) PROVE AnswerInCall' /\ BoundedStaleness'
  BY <1>5 DEF CachedMiss
<1>6. ASSUME NEW c \in Caller, FastPath(c) PROVE AnswerInCall' /\ BoundedStaleness'
  BY <1>6 DEF FastPath, Usable, Age
<1>7. ASSUME NEW c \in Caller, SlowPath(c) PROVE AnswerInCall' /\ BoundedStaleness'
  BY <1>7 DEF SlowPath
<1>8. ASSUME NEW c \in Caller, Lock(c) PROVE AnswerInCall' /\ BoundedStaleness'
  BY <1>8 DEF Lock
<1>9. ASSUME NEW c \in Caller, Coalesce(c) PROVE AnswerInCall' /\ BoundedStaleness'
  BY <1>9 DEF Coalesce
<1>10. ASSUME NEW c \in Caller, Spawn(c) PROVE AnswerInCall' /\ BoundedStaleness'
  BY <1>10 DEF Spawn
<1>11. ASSUME NEW c \in Caller, Reread(c) PROVE AnswerInCall' /\ BoundedStaleness'
  BY <1>11 DEF Reread
<1>12. ASSUME NEW c \in Caller, Publish(c) PROVE AnswerInCall' /\ BoundedStaleness'
  BY <1>12 DEF Publish
<1>13. ASSUME NEW c \in Caller, Unlock(c) PROVE AnswerInCall' /\ BoundedStaleness'
  BY <1>13 DEF Unlock
<1>14. ASSUME NEW c \in Caller, Return(c) PROVE AnswerInCall' /\ BoundedStaleness'
  BY <1>14 DEF Return
<1>15. ASSUME NEW c \in Caller, NEW e \in Env, Collect(c, e) PROVE AnswerInCall' /\ BoundedStaleness'
  BY <1>15 DEF Collect
<1>16. ASSUME NEW c \in Caller, NEW e \in Env, Finish(c, e) PROVE AnswerInCall' /\ BoundedStaleness'
  BY <1>16 DEF Finish
<1>17. CASE UNCHANGED vars
  BY <1>17 DEF vars
<1>18. QED
  BY <1>1, <1>2, <1>3, <1>4, <1>5, <1>6, <1>7, <1>8, <1>9,
     <1>10, <1>11, <1>12, <1>13, <1>14, <1>15, <1>16, <1>17
     DEF Next, Step, Goroutine

(* IInv is inductive. *)
LEMMA IInvStep == IInv /\ [Next]_vars => IInv'
BY TypeStep, LockStep, ClockStep, AnswerStep DEF IInv

LEMMA Inductive == Spec => []IInv
BY InitIInv, IInvStep, PTL DEF Spec

-------------------------------------------------------------------------------
(* refreshMu makes discovery single-flight. *)
THEOREM SingleFlightHolds == Spec => []SingleFlight
<1>1. IInv => SingleFlight
  BY CallerAssumption DEF IInv, TypeOK, LockInv, Holding, SingleFlight
<1>2. QED
  BY <1>1, Inductive, PTL

(* The unlocked read of s.invs sees the snapshot that was tested. *)
THEOREM UnlockedReadSafeHolds == Spec => []UnlockedReadSafe
<1>1. IInv => UnlockedReadSafe
  BY CallerAssumption DEF IInv, TypeOK, LockInv, ClockInv, Holding, UnlockedReadSafe
<1>2. QED
  BY <1>1, Inductive, PTL

(* Every call returns a snapshot that was current during the call. *)
THEOREM AnswerInCallHolds == Spec => []AnswerInCall
<1>1. IInv => AnswerInCall
  BY DEF IInv
<1>2. QED
  BY <1>1, Inductive, PTL

(* No answer is older than the TTL, or than the second of a refresh. *)
THEOREM BoundedStalenessHolds == Spec => []BoundedStaleness
<1>1. IInv => BoundedStaleness
  BY DEF IInv
<1>2. QED
  BY <1>1, Inductive, PTL

(* Only Publish changes the snapshot. *)
LEMMA OnlyPublish ==
  ASSUME [Next]_vars, invs' # invs
  PROVE  \E c \in Caller : Publish(c)
BY DEF Next, Step, Goroutine, vars, Tick, Invoke, Cancel, CachedHit, CachedMiss,
       FastPath, SlowPath, Lock, Coalesce, Spawn, Reread, Unlock, Return,
       Collect, Finish

(* A published inventory is never replaced by one collected earlier. *)
THEOREM NeverOlderHolds == Spec => NeverOlder
<1>1. IInv /\ [Next]_vars => [Supersedes]_vars
  <2> SUFFICES ASSUME IInv, [Next]_vars, invs' # invs, invs # NoSnapshot,
                      NEW e \in Env
               PROVE  /\ invs'.inv[e].collectedAt >= invs.at
                      /\ invs'.inv[e].collectedAt <= invs'.at
    BY DEF Supersedes
  <2>1. PICK c \in Caller : Publish(c)
    BY OnlyPublish
  <2>2. work[c][e] = "done"
    BY <2>1 DEF Publish, AllDone
  <2>3. invs'.inv = out[c] /\ invs'.at = now
    BY <2>1 DEF Publish
  <2>4. QED
    BY <2>2, <2>3 DEF IInv, ClockInv
<1>2. QED
  BY <1>1, Inductive, PTL DEF NeverOlder, Spec

(* Two snapshots are published at least one second apart. *)
THEOREM ThrottledHolds == Spec => Throttled
<1>1. IInv /\ [Next]_vars => [Spaced]_vars
  <2> SUFFICES ASSUME IInv, [Next]_vars, invs' # invs, invs # NoSnapshot
               PROVE  invsAt' > invsAt
    BY DEF Spaced
  <2>1. PICK c \in Caller : Publish(c)
    BY OnlyPublish
  <2>2. QED
    BY <2>1 DEF Publish, IInv, TypeOK, ClockInv
<1>2. QED
  BY <1>1, Inductive, PTL DEF Throttled, Spec

-------------------------------------------------------------------------------
(* The cache implements the linearizable register. *)
LEMMA RegisterInit == Init => Register!Init
BY DEF Init, Register!Init, Published, Number, Phase

LEMMA Answered ==
  ASSUME TypeOK, NEW c \in Caller, NEW s \in Snapshot \cup {NoSnapshot},
         answer' = [answer EXCEPT ![c] = s]
  PROVE  [d \in Caller |-> Number(answer'[d])]
           = [[d \in Caller |-> Number(answer[d])] EXCEPT ![c] = Number(s)]
<1>1. \A d \in Caller : answer'[d] = IF d = c THEN s ELSE answer[d]
  BY DEF TypeOK
<1>2. \A d \in Caller :
        Number(answer'[d]) = IF d = c THEN Number(s) ELSE Number(answer[d])
  <2> TAKE d \in Caller
  <2>1. CASE d = c
    BY <1>1, <2>1
  <2>2. CASE d # c
    BY <1>1, <2>2
  <2>3. QED
    BY <2>1, <2>2
<1>3. QED
  BY <1>2

LEMMA RegisterStep ==
  IInv /\ [Next]_vars => [Register!Next]_(Register!vars)
<1> SUFFICES ASSUME IInv, [Next]_vars
             PROVE  Register!Next \/ UNCHANGED Register!vars
  OBVIOUS
<1> USE CallerAssumption, SnapshotAssumption
    DEF IInv, TypeOK, Published, Phase, Register!vars
<1>1. Tick => UNCHANGED Register!vars
  BY DEF Tick
<1>2. ASSUME NEW c \in Caller, NEW m \in Modes, Invoke(c, m) PROVE Register!Invoke(c)
  BY <1>2 DEF Invoke, Register!Invoke
<1>3. ASSUME NEW c \in Caller, Cancel(c) PROVE UNCHANGED Register!vars
  BY <1>3 DEF Cancel
<1>4. ASSUME NEW c \in Caller, CachedHit(c) PROVE Register!Read(c)
  <2>1. invs \in Snapshot /\ answer' = [answer EXCEPT ![c] = invs]
    BY <1>4 DEF CachedHit
  <2>2. Published' = Published /\ Published = invs.id /\ Number(invs) = invs.id /\ Published > 0
    BY <1>4, <2>1 DEF CachedHit, Number, Snapshot
  <2>3. QED
    BY <1>4, <2>1, <2>2, Answered DEF CachedHit, Register!Read
<1>5. ASSUME NEW c \in Caller, CachedMiss(c) PROVE UNCHANGED Register!vars
  BY <1>5 DEF CachedMiss
<1>6. ASSUME NEW c \in Caller, FastPath(c) PROVE Register!Read(c)
  <2>1. invs \in Snapshot /\ answer' = [answer EXCEPT ![c] = invs]
    BY <1>6 DEF FastPath, Usable
  <2>2. Published' = Published /\ Published = invs.id /\ Number(invs) = invs.id /\ Published > 0
    BY <1>6, <2>1 DEF FastPath, Number, Snapshot
  <2>3. QED
    BY <1>6, <2>1, <2>2, Answered DEF FastPath, Register!Read
<1>7. ASSUME NEW c \in Caller, SlowPath(c) PROVE UNCHANGED Register!vars
  BY <1>7 DEF SlowPath
<1>8. ASSUME NEW c \in Caller, Lock(c) PROVE UNCHANGED Register!vars
  BY <1>8 DEF Lock
<1>9. ASSUME NEW c \in Caller, Coalesce(c) PROVE UNCHANGED Register!vars
  BY <1>9 DEF Coalesce
<1>10. ASSUME NEW c \in Caller, Spawn(c) PROVE UNCHANGED Register!vars
  BY <1>10 DEF Spawn
<1>11. ASSUME NEW c \in Caller, Reread(c) PROVE Register!Read(c)
  <2>1. invs \in Snapshot /\ answer' = [answer EXCEPT ![c] = invs]
    BY <1>11 DEF Reread, ClockInv
  <2>2. Published' = Published /\ Published = invs.id /\ Number(invs) = invs.id /\ Published > 0
    BY <1>11, <2>1 DEF Reread, Number, Snapshot
  <2>3. QED
    BY <1>11, <2>1, <2>2, Answered DEF Reread, Register!Read
<1>12. ASSUME NEW c \in Caller, Publish(c) PROVE Register!Publish(c)
  <2>1. invs' \in Snapshot /\ answer' = [answer EXCEPT ![c] = invs']
    BY <1>12 DEF Publish, Number, Snapshot
  <2>2. Published' = Published + 1 /\ Published' = Number(invs')
    BY <1>12, <2>1 DEF Publish, Number
  <2>3. QED
    BY <1>12, <2>1, <2>2, Answered DEF Publish, Register!Publish
<1>13. ASSUME NEW c \in Caller, Unlock(c) PROVE UNCHANGED Register!vars
  BY <1>13 DEF Unlock
<1>14. ASSUME NEW c \in Caller, Return(c) PROVE Register!Return(c)
  <2>1. answer' = [answer EXCEPT ![c] = NoSnapshot] /\ Number(NoSnapshot) = 0
    BY <1>14 DEF Return, Number
  <2>2. QED
    BY <1>14, <2>1, Answered DEF Return, Register!Return
<1>15. ASSUME NEW c \in Caller, NEW e \in Env, Collect(c, e) PROVE UNCHANGED Register!vars
  BY <1>15 DEF Collect
<1>16. ASSUME NEW c \in Caller, NEW e \in Env, Finish(c, e) PROVE UNCHANGED Register!vars
  BY <1>16 DEF Finish
<1>17. UNCHANGED vars => UNCHANGED Register!vars
  BY DEF vars
<1>18. QED
  BY <1>1, <1>2, <1>3, <1>4, <1>5, <1>6, <1>7, <1>8, <1>9,
     <1>10, <1>11, <1>12, <1>13, <1>14, <1>15, <1>16, <1>17
     DEF Next, Step, Goroutine, Register!Next

THEOREM ImplementsRegister == Spec => Register!Spec
BY RegisterInit, RegisterStep, Inductive, PTL DEF Spec, Register!Spec

-------------------------------------------------------------------------------
(***************************************************************************)
(* What Serve leaves of this cache is what the cache does: seen through    *)
(* the mapping below, every step is one that Serve allows the requests of  *)
(* one service, whose handler is in place and whose releases can be read.  *)
(* What Serve assumes of its constants is a hypothesis here.               *)
(***************************************************************************)
CONSTANTS Ticker, Download \* the other goroutines of Serve, which rest

Everyone == {1} \cup Caller \cup {Ticker, Download}

PlaceOf(place) ==
  IF place \in {"cachedCheck", "check"} THEN "check"
  ELSE IF place \in {"lock", "recheck"} THEN "lock"
  ELSE IF place = "discover" THEN "discover"
  ELSE "idle"

(* A call that found nothing cached has become one of Inventories.         *)
ModeOf(place, mode) == IF place # "cachedCheck" /\ mode = "cached" THEN "inventory" ELSE mode

CallOf(place, mode) ==
  IF PlaceOf(place) = "idle" THEN [svc |-> 0, mode |-> "read", source |-> "snapshot"]
  ELSE [svc |-> 1, mode |-> ModeOf(place, mode), source |-> "snapshot"]

Places == [g \in Everyone |-> IF g \in Caller THEN PlaceOf(pc[g]) ELSE "idle"]
Calls == [g \in Everyone |-> IF g \in Caller THEN CallOf(pc[g], call[g].mode) ELSE CallOf("idle", "read")]
Seen == IF invs = NoSnapshot THEN NoSnapshot ELSE [source |-> "snapshot", recent |-> Age < 1]
Discoverer ==
  IF refreshMu \in Caller /\ pc[refreshMu] = "discover" THEN refreshMu ELSE NoCaller

View == INSTANCE Serve WITH
  Request <- Caller, MaxLoads <- 1, MaxEdits <- 0, Nil <- NoSnapshot, Free <- NoCaller,
  readable <- TRUE, edits <- 0, source <- "snapshot", loads <- 1, current <- 1, handler <- 1,
  invs <- [s \in {1} |-> Seen], mu <- [s \in {1} |-> Discoverer],
  pc <- Places, call <- Calls, up <- TRUE

ViewAssumption == View!GoroutineAssumption /\ View!NilAssumption

LEMMA ViewSets == View!Service = {1} /\ View!Goroutine = Everyone
BY DEF View!Service, View!Goroutine, Everyone

(* A step of one caller moves that caller alone.                           *)
LEMMA CallerMoves ==
  ASSUME TypeOK, NEW c \in Caller, NEW place, pc' = [pc EXCEPT ![c] = place],
         \A d \in Caller \ {c} : call'[d] = call[d]
  PROVE  /\ Places[c] = PlaceOf(pc[c]) /\ Calls[c] = CallOf(pc[c], call[c].mode)
         /\ Places' = [Places EXCEPT ![c] = PlaceOf(place)]
         /\ Calls' = [Calls EXCEPT ![c] = CallOf(place, call'[c].mode)]
<1>1. c \in Everyone /\ pc'[c] = place /\ \A d \in Caller \ {c} : pc'[d] = pc[d]
  BY DEF TypeOK, Everyone
<1>2. Places' = [Places EXCEPT ![c] = PlaceOf(place)]
  <2>1. \A g \in Everyone : Places'[g] = IF g = c THEN PlaceOf(place) ELSE Places[g]
    BY <1>1 DEF Places
  <2>2. /\ Places = [g \in Everyone |-> Places[g]]
        /\ Places' = [g \in Everyone |-> Places'[g]]
    BY DEF Places
  <2> QED
    BY <2>1, <2>2
<1>3. Calls' = [Calls EXCEPT ![c] = CallOf(place, call'[c].mode)]
  <2>1. \A g \in Everyone :
          Calls'[g] = IF g = c THEN CallOf(place, call'[c].mode) ELSE Calls[g]
    BY <1>1 DEF Calls
  <2>2. /\ Calls = [g \in Everyone |-> Calls[g]]
        /\ Calls' = [g \in Everyone |-> Calls'[g]]
    BY DEF Calls
  <2> QED
    BY <2>1, <2>2
<1> QED
  BY <1>1, <1>2, <1>3 DEF Places, Calls

(* The mutex that Serve sees is free unless somebody discovers.            *)
LEMMA DiscovererIs ==
  ASSUME TypeOK, LockInv
  PROVE  /\ \A c \in Caller : pc[c] = "discover" => Discoverer = c
         /\ \A c \in Caller : pc[c] \in Holding \ {"discover"} => Discoverer = NoCaller
         /\ (\A c \in Caller : pc[c] # "discover") => Discoverer = NoCaller
BY DEF LockInv, Holding, Discoverer

(* A step that moves nobody from one of Serve's places to another.         *)
LEMMA ViewStays ==
  ASSUME TypeOK, NEW c \in Caller, NEW place, pc' = [pc EXCEPT ![c] = place],
         \A d \in Caller \ {c} : call'[d] = call[d],
         PlaceOf(place) = PlaceOf(pc[c]),
         CallOf(place, call'[c].mode) = CallOf(pc[c], call[c].mode),
         UNCHANGED <<now, invs, invsAt>>, Discoverer' = Discoverer
  PROVE  UNCHANGED View!serveVars
<1>1. Places' = Places /\ Calls' = Calls
  <2>1. /\ Places[c] = PlaceOf(place) /\ Calls[c] = CallOf(place, call'[c].mode)
        /\ Places' = [Places EXCEPT ![c] = PlaceOf(place)]
        /\ Calls' = [Calls EXCEPT ![c] = CallOf(place, call'[c].mode)]
    BY CallerMoves
  <2>2. /\ Places = [g \in Everyone |-> Places[g]]
        /\ Calls = [g \in Everyone |-> Calls[g]]
    BY DEF Places, Calls
  <2> QED
    BY <2>1, <2>2
<1>2. Seen' = Seen
  BY DEF Seen, Age
<1> QED
  BY <1>1, <1>2 DEF View!serveVars, View!files, View!pointers, View!caches

LEMMA ViewUntouched ==
  UNCHANGED <<now, invs, invsAt, refreshMu, pc, call>> => UNCHANGED View!serveVars
BY DEF Places, Calls, Seen, Age, Discoverer, View!serveVars, View!files, View!pointers, View!caches

(* What Serve's guards read of the cache.                                  *)
LEMMA ViewReads ==
  ASSUME TypeOK, ViewAssumption, NEW c \in Caller, PlaceOf(pc[c]) # "idle"
  PROVE  /\ c \in View!Goroutine
         /\ Calls[c].svc = 1 /\ Calls[c].mode = ModeOf(pc[c], call[c].mode)
         /\ View!Own(c) = Seen /\ View!Mutex(c) = Discoverer
         /\ Seen = NoSnapshot <=> invs = NoSnapshot
         /\ View!Fresh(c) <=> invs # NoSnapshot /\ Age < 1
         /\ ~View!Refused(c)
<1>1. c \in Everyone /\ Calls[c] = CallOf(pc[c], call[c].mode)
  BY DEF Calls, Everyone
<1>2. Calls[c].svc = 1 /\ Calls[c].mode = ModeOf(pc[c], call[c].mode)
  BY <1>1 DEF CallOf
<1>3. View!Own(c) = Seen /\ View!Mutex(c) = Discoverer
  BY <1>2 DEF View!Own, View!Mutex
<1>4. Seen = NoSnapshot <=> invs = NoSnapshot
  <2>1. \A b \in BOOLEAN : [source |-> "snapshot", recent |-> b] # NoSnapshot
    BY DEF ViewAssumption, View!NilAssumption, View!Inventories
  <2>2. (Age < 1) \in BOOLEAN
    OBVIOUS
  <2> QED
    BY <2>1, <2>2 DEF Seen
<1>5. View!Fresh(c) <=> invs # NoSnapshot /\ Age < 1
  <2>1. CASE invs = NoSnapshot
    BY <2>1, <1>3, <1>4 DEF View!Fresh
  <2>2. CASE invs # NoSnapshot
    <3>1. Seen.recent <=> Age < 1
      BY <2>2 DEF Seen
    <3> QED
      BY <2>2, <3>1, <1>3, <1>4 DEF View!Fresh
  <2> QED
    BY <2>1, <2>2
<1> QED
  BY <1>1, <1>2, <1>3, <1>4, <1>5, ViewSets DEF View!Refused

(* A caller that returns has ended its call, as far as Serve sees it.      *)
LEMMA ViewEnds ==
  ASSUME TypeOK, ViewAssumption, NEW c \in Caller, NEW place, PlaceOf(place) = "idle",
         pc' = [pc EXCEPT ![c] = place], UNCHANGED call
  PROVE  View!Ends(c, PlaceOf(pc[c]))
<1>1. \A d \in Caller \ {c} : call'[d] = call[d]
  OBVIOUS
<1>2. /\ Places[c] = PlaceOf(pc[c])
      /\ Places' = [Places EXCEPT ![c] = PlaceOf(place)]
      /\ Calls' = [Calls EXCEPT ![c] = CallOf(place, call'[c].mode)]
  BY <1>1, CallerMoves
<1>3. CallOf(place, call'[c].mode) = View!NoCall
  BY DEF CallOf, View!NoCall
<1> QED
  BY <1>2, <1>3 DEF View!Ends, View!Moves, View!files, View!pointers

LEMMA TickAllowed ==
  ASSUME IInv, ViewAssumption, Tick
  PROVE  View!ServeNext \/ UNCHANGED View!serveVars
<1>1. Places' = Places /\ Calls' = Calls /\ Discoverer' = Discoverer
  BY DEF Tick, Places, Calls, Discoverer
<1>2. now \in Nat /\ invsAt \in Nat /\ invsAt <= now /\ now' = now + 1 /\ invs' = invs /\ invsAt' = invsAt
  BY DEF Tick, IInv, TypeOK, ClockInv
<1>3. CASE invs # NoSnapshot /\ Age < 1
  <2>1. Seen = [source |-> "snapshot", recent |-> TRUE]
    BY <1>3 DEF Seen
  <2>2. (Age' < 1) = FALSE
    BY <1>2 DEF Age
  <2>3. Seen' = [source |-> "snapshot", recent |-> FALSE]
    <3>1. Seen' = [source |-> "snapshot", recent |-> Age' < 1]
      BY <1>2, <1>3 DEF Seen
    <3> QED
      BY <2>2, <3>1
  <2>4. Seen # NoSnapshot
    <3>1. [source |-> "snapshot", recent |-> TRUE] \in View!Inventories
      BY DEF View!Inventories
    <3> QED
      BY <2>1, <3>1 DEF ViewAssumption, View!NilAssumption
  <2>5. Seen' = [Seen EXCEPT !.recent = FALSE]
    <3> DEFINE later == [Seen EXCEPT !.recent = FALSE]
    <3>1. Seen \in View!Inventories /\ Seen.source = "snapshot"
      BY <2>1 DEF View!Inventories
    <3>2. later \in View!Inventories /\ later.source = "snapshot" /\ later.recent = FALSE
      BY <3>1 DEF View!Inventories
    <3>3. \A i \in View!Inventories :
            i.source = "snapshot" /\ i.recent = FALSE => i = [source |-> "snapshot", recent |-> FALSE]
      BY DEF View!Inventories
    <3> HIDE DEF later
    <3>4. later = [source |-> "snapshot", recent |-> FALSE]
      BY <3>2, <3>3
    <3> QED
      BY <2>3, <3>4 DEF later
  <2>6. [s \in {1} |-> Seen]' = [[s \in {1} |-> Seen] EXCEPT ![1].recent = FALSE]
    BY <2>5
  <2>7. View!Elapse(1)
    BY <1>1, <2>1, <2>4, <2>6 DEF View!Elapse, View!files, View!pointers
  <2> QED
    BY <2>7, ViewSets DEF View!ServeNext
<1>4. CASE invs = NoSnapshot
  BY <1>1, <1>2, <1>4 DEF Seen, View!serveVars, View!files, View!pointers, View!caches
<1>5. CASE invs # NoSnapshot /\ ~(Age < 1)
  <2>1. ~(Age' < 1)
    BY <1>2, <1>5 DEF Age
  <2>2. Seen' = Seen
    BY <1>2, <1>5, <2>1 DEF Seen
  <2> QED
    BY <1>1, <2>2 DEF View!serveVars, View!files, View!pointers, View!caches
<1> QED
  BY <1>3, <1>4, <1>5

LEMMA InvokeAllowed ==
  ASSUME IInv, ViewAssumption, NEW c \in Caller, NEW m \in Modes, Invoke(c, m)
  PROVE  View!Accept(c, m)
<1> DEFINE place == IF m = "cached" THEN "cachedCheck" ELSE "check"
<1>1. /\ pc[c] = "idle" /\ pc' = [pc EXCEPT ![c] = place]
      /\ call' = [call EXCEPT ![c] = [mode |-> m, at |-> now, seen |-> Published]]
  BY DEF Invoke
<1>2. call \in [Caller -> [mode : {"cached", "read", "refresh"}, at : Nat, seen : Nat]]
  BY DEF IInv, TypeOK
<1>3. call'[c].mode = m /\ \A d \in Caller \ {c} : call'[d] = call[d]
  BY <1>1, <1>2
<1>4. PlaceOf(place) = "check" /\ ModeOf(place, m) = m
  BY DEF PlaceOf, ModeOf
<1> HIDE DEF place
<1>5. /\ Places[c] = PlaceOf(pc[c])
      /\ Places' = [Places EXCEPT ![c] = PlaceOf(place)]
      /\ Calls' = [Calls EXCEPT ![c] = CallOf(place, m)]
  <2>1. TypeOK
    BY DEF IInv
  <2>2. /\ Places[c] = PlaceOf(pc[c])
        /\ Places' = [Places EXCEPT ![c] = PlaceOf(place)]
        /\ Calls' = [Calls EXCEPT ![c] = CallOf(place, call'[c].mode)]
    BY <1>1, <1>3, <2>1, CallerMoves
  <2> QED
    BY <1>3, <2>2
<1>6. CallOf(place, m) = [svc |-> 1, mode |-> m, source |-> "snapshot"]
  BY <1>4 DEF CallOf
<1>7. Seen' = Seen
  BY DEF Invoke, Seen, Age
<1>8. Discoverer' = Discoverer
  <2>1. /\ refreshMu' = refreshMu /\ pc[c] # "discover" /\ pc'[c] # "discover"
        /\ \A d \in Caller \ {c} : pc'[d] = pc[d]
    BY <1>1 DEF Invoke, IInv, TypeOK, place
  <2> QED
    BY <2>1 DEF Discoverer
<1>9. Places[c] = "idle"
  BY <1>1, <1>5 DEF PlaceOf
<1> QED
  BY <1>4, <1>5, <1>6, <1>7, <1>8, <1>9
  DEF View!Accept, View!Start, View!files, View!pointers, View!caches

(* Steps of a call that leave the snapshots and the clock.                 *)
LEMMA ReadAllowed ==
  ASSUME IInv, ViewAssumption, NEW c \in Caller, CachedHit(c) \/ FastPath(c)
  PROVE  View!Answer(c)
<1>1. /\ pc[c] \in {"cachedCheck", "check"} /\ invs # NoSnapshot
      /\ pc' = [pc EXCEPT ![c] = "done"] /\ UNCHANGED <<now, invs, invsAt, refreshMu, call>>
  BY DEF CachedHit, FastPath, Usable
<1>2. PlaceOf(pc[c]) = "check" /\ PlaceOf("done") = "idle" /\ TypeOK
  BY <1>1 DEF PlaceOf, IInv
<1>3. ModeOf(pc[c], call[c].mode) # "refresh"
  <2>1. CASE CachedHit(c)
    <3>1. call[c].mode = "cached"
      BY <2>1 DEF CachedHit, IInv, ClockInv
    <3> QED
      BY <3>1 DEF ModeOf
  <2>2. CASE FastPath(c)
    BY <2>2 DEF FastPath, Usable, ModeOf
  <2> QED
    BY <2>1, <2>2
<1>4. Calls[c].svc = 1 /\ Calls[c].mode # "refresh" /\ View!Own(c) # NoSnapshot
      /\ ~View!Refused(c)
  BY <1>1, <1>2, <1>3, ViewReads
<1>5. View!Ends(c, "check")
  BY <1>1, <1>2, ViewEnds
<1>6. Seen' = Seen /\ Discoverer' = Discoverer
  <2>1. pc'[c] # "discover" /\ pc[c] # "discover" /\ \A d \in Caller \ {c} : pc'[d] = pc[d]
    BY <1>1, <1>2 DEF TypeOK
  <2> QED
    BY <1>1, <2>1 DEF Seen, Age, Discoverer
<1> QED
  BY <1>4, <1>5, <1>6 DEF View!Answer, View!caches

LEMMA MissAllowed ==
  ASSUME IInv, ViewAssumption, NEW c \in Caller, CachedMiss(c)
  PROVE  View!CachedMiss(c)
<1>1. /\ pc[c] = "cachedCheck" /\ call[c].mode = "cached" /\ invs = NoSnapshot
      /\ pc' = [pc EXCEPT ![c] = "check"] /\ UNCHANGED <<now, invs, invsAt, refreshMu, call>>
  BY DEF CachedMiss, IInv, ClockInv
<1>2. /\ PlaceOf(pc[c]) = "check" /\ PlaceOf("check") = "check" /\ TypeOK
      /\ ModeOf(pc[c], call[c].mode) = "cached" /\ ModeOf("check", call[c].mode) = "inventory"
  BY <1>1 DEF PlaceOf, ModeOf, IInv
<1>3. \A d \in Caller \ {c} : call'[d] = call[d]
  BY <1>1
<1>4. /\ Places[c] = "check" /\ Places' = [Places EXCEPT ![c] = "check"]
      /\ Calls[c] = CallOf(pc[c], call[c].mode)
      /\ Calls' = [Calls EXCEPT ![c] = CallOf("check", call[c].mode)]
  <2>1. /\ Places[c] = PlaceOf(pc[c]) /\ Places' = [Places EXCEPT ![c] = PlaceOf("check")]
        /\ Calls[c] = CallOf(pc[c], call[c].mode)
        /\ Calls' = [Calls EXCEPT ![c] = CallOf("check", call'[c].mode)]
    BY <1>1, <1>2, <1>3, CallerMoves
  <2> QED
    BY <1>1, <1>2, <2>1
<1>5. /\ Calls[c] = [svc |-> 1, mode |-> "cached", source |-> "snapshot"]
      /\ CallOf("check", call[c].mode) = [svc |-> 1, mode |-> "inventory", source |-> "snapshot"]
  BY <1>2, <1>4 DEF CallOf
<1>6. Calls' = [Calls EXCEPT ![c].mode = "inventory"]
  <2> DEFINE shapes == [svc : {1}, mode : {"cached", "inventory"}, source : {"snapshot"}]
             later == [Calls[c] EXCEPT !.mode = "inventory"]
  <2>1. Calls[c] \in shapes
    BY <1>5
  <2>2. later \in shapes /\ later.mode = "inventory"
    BY <2>1
  <2>3. \A s \in shapes :
          s.mode = "inventory" => s = [svc |-> 1, mode |-> "inventory", source |-> "snapshot"]
    OBVIOUS
  <2>4. Calls' = [Calls EXCEPT ![c] = later]
    <3> HIDE DEF later
    <3> QED
      BY <1>4, <1>5, <2>2, <2>3
  <2> QED
    BY <2>4
<1>7. /\ Calls[c].svc # 0 /\ Calls[c].mode = "cached" /\ View!Own(c) = NoSnapshot
      /\ ~View!Refused(c)
  BY <1>1, <1>2, ViewReads
<1>8. Seen' = Seen /\ Discoverer' = Discoverer
  <2>1. pc'[c] # "discover" /\ pc[c] # "discover" /\ \A d \in Caller \ {c} : pc'[d] = pc[d]
    BY <1>1, <1>2 DEF TypeOK
  <2> QED
    BY <1>1, <2>1 DEF Seen, Age, Discoverer
<1>9. View!Moves(c, "check", "check") /\ UNCHANGED View!caches
  BY <1>4, <1>8 DEF View!Moves, View!files, View!pointers, View!caches
<1> QED
  BY <1>6, <1>7, <1>9 DEF View!CachedMiss

LEMMA QueueAllowed ==
  ASSUME IInv, ViewAssumption, NEW c \in Caller, SlowPath(c)
  PROVE  View!Queue(c)
<1>1. /\ pc[c] = "check" /\ ~Usable(c)
      /\ pc' = [pc EXCEPT ![c] = "lock"] /\ UNCHANGED <<now, invs, invsAt, refreshMu, call>>
  BY DEF SlowPath
<1>2. /\ PlaceOf(pc[c]) = "check" /\ PlaceOf("lock") = "lock" /\ TypeOK
      /\ ModeOf("lock", call[c].mode) = ModeOf(pc[c], call[c].mode)
  BY <1>1 DEF PlaceOf, ModeOf, IInv
<1>3. \A d \in Caller \ {c} : call'[d] = call[d]
  BY <1>1
<1>4. /\ Places[c] = "check" /\ Places' = [Places EXCEPT ![c] = "lock"]
      /\ Calls[c] = CallOf(pc[c], call[c].mode)
      /\ Calls' = [Calls EXCEPT ![c] = CallOf("lock", call[c].mode)]
  <2>1. /\ Places[c] = PlaceOf(pc[c]) /\ Places' = [Places EXCEPT ![c] = PlaceOf("lock")]
        /\ Calls[c] = CallOf(pc[c], call[c].mode)
        /\ Calls' = [Calls EXCEPT ![c] = CallOf("lock", call'[c].mode)]
    BY <1>1, <1>2, <1>3, CallerMoves
  <2> QED
    BY <1>1, <1>2, <2>1
<1>5. Calls' = Calls
  <2>1. CallOf("lock", call[c].mode) = Calls[c]
    BY <1>2, <1>4 DEF CallOf
  <2>2. Calls = [g \in Everyone |-> Calls[g]]
    BY DEF Calls
  <2> QED
    BY <1>4, <2>1, <2>2
<1>6. Calls[c].mode # "cached"
  BY <1>1, <1>2, ViewReads DEF ModeOf
<1>7. Calls[c].mode = "refresh" \/ ~View!Fresh(c)
  <2>1. CASE call[c].mode = "refresh"
    <3>1. ModeOf(pc[c], call[c].mode) = "refresh"
      BY <2>1 DEF ModeOf
    <3> QED
      BY <3>1, <1>2, ViewReads
  <2>2. CASE call[c].mode # "refresh"
    <3>1. ~(invs # NoSnapshot /\ Age < TTL)
      BY <1>1, <2>2 DEF Usable
    <3>2. Age \in Nat
      BY DEF IInv, TypeOK, ClockInv, Age
    <3>3. ~(invs # NoSnapshot /\ Age < 1)
      BY <3>1, <3>2, ClockAssumption
    <3> QED
      BY <3>3, <1>2, ViewReads
  <2> QED
    BY <2>1, <2>2
<1>8. Calls[c].svc = 1 /\ ~View!Refused(c)
  BY <1>2, ViewReads
<1>9. Seen' = Seen /\ Discoverer' = Discoverer
  <2>1. pc'[c] # "discover" /\ pc[c] # "discover" /\ \A d \in Caller \ {c} : pc'[d] = pc[d]
    BY <1>1, <1>2 DEF TypeOK
  <2> QED
    BY <1>1, <2>1 DEF Seen, Age, Discoverer
<1> QED
  BY <1>4, <1>5, <1>6, <1>7, <1>8, <1>9
  DEF View!Queue, View!Moves, View!files, View!pointers, View!caches

(* Steps under the mutex. Serve sees it held by whoever discovers.         *)
LEMMA CoalesceAllowed ==
  ASSUME IInv, ViewAssumption, NEW c \in Caller, Coalesce(c)
  PROVE  View!Coalesce(c)
<1>1. /\ pc[c] = "recheck" /\ Fresh
      /\ pc' = [pc EXCEPT ![c] = "reread"] /\ UNCHANGED <<now, invs, invsAt, refreshMu, call>>
  BY DEF Coalesce
<1>2. PlaceOf(pc[c]) = "lock" /\ PlaceOf("reread") = "idle" /\ TypeOK /\ LockInv
  BY <1>1 DEF PlaceOf, IInv
<1>3. View!Ends(c, "lock")
  BY <1>1, <1>2, ViewEnds
<1>4. View!Fresh(c) /\ View!Mutex(c) = NoCaller
  <2>1. Discoverer = NoCaller
    BY <1>1, <1>2, DiscovererIs DEF Holding
  <2> QED
    BY <1>1, <1>2, <2>1, ViewReads DEF Fresh
<1>5. Seen' = Seen /\ Discoverer' = Discoverer
  <2>1. pc'[c] # "discover" /\ pc[c] # "discover" /\ \A d \in Caller \ {c} : pc'[d] = pc[d]
    BY <1>1, <1>2 DEF TypeOK
  <2> QED
    BY <1>1, <2>1 DEF Seen, Age, Discoverer
<1> QED
  BY <1>3, <1>4, <1>5 DEF View!Coalesce, View!caches

LEMMA SpawnAllowed ==
  ASSUME IInv, ViewAssumption, NEW c \in Caller, Spawn(c)
  PROVE  View!Discover(c)
<1>1. /\ pc[c] = "recheck" /\ ~Fresh
      /\ pc' = [pc EXCEPT ![c] = "discover"] /\ UNCHANGED <<now, invs, invsAt, refreshMu, call>>
  BY DEF Spawn
<1>2. /\ PlaceOf(pc[c]) = "lock" /\ PlaceOf("discover") = "discover" /\ TypeOK /\ LockInv
      /\ ModeOf("discover", call[c].mode) = ModeOf(pc[c], call[c].mode)
  BY <1>1 DEF PlaceOf, ModeOf, IInv
<1>3. \A d \in Caller \ {c} : call'[d] = call[d]
  BY <1>1
<1>4. /\ Places[c] = "lock" /\ Places' = [Places EXCEPT ![c] = "discover"]
      /\ Calls[c] = CallOf(pc[c], call[c].mode)
      /\ Calls' = [Calls EXCEPT ![c] = CallOf("discover", call[c].mode)]
  <2>1. /\ Places[c] = PlaceOf(pc[c]) /\ Places' = [Places EXCEPT ![c] = PlaceOf("discover")]
        /\ Calls[c] = CallOf(pc[c], call[c].mode)
        /\ Calls' = [Calls EXCEPT ![c] = CallOf("discover", call'[c].mode)]
    BY <1>1, <1>2, <1>3, CallerMoves
  <2> QED
    BY <1>1, <1>2, <2>1
<1>5. Calls' = [Calls EXCEPT ![c].source = "snapshot"]
  <2> DEFINE m == ModeOf(pc[c], call[c].mode)
             shapes == [svc : {1}, mode : {m}, source : {"snapshot"}]
             later == [Calls[c] EXCEPT !.source = "snapshot"]
  <2>1. Calls[c] = [svc |-> 1, mode |-> m, source |-> "snapshot"]
        /\ CallOf("discover", call[c].mode) = [svc |-> 1, mode |-> m, source |-> "snapshot"]
    BY <1>2, <1>4 DEF CallOf
  <2> HIDE DEF m
  <2>2. Calls[c] \in shapes
    BY <2>1
  <2>3. later \in shapes
    BY <2>2
  <2>4. \A s \in shapes : s = [svc |-> 1, mode |-> m, source |-> "snapshot"]
    OBVIOUS
  <2>5. Calls' = [Calls EXCEPT ![c] = later]
    <3> HIDE DEF later
    <3> QED
      BY <1>4, <2>1, <2>3, <2>4
  <2> QED
    BY <2>5
<1>6. ~View!Fresh(c) /\ View!Mutex(c) = NoCaller /\ Calls[c].svc = 1
  <2>1. Discoverer = NoCaller
    BY <1>1, <1>2, DiscovererIs DEF Holding
  <2> QED
    BY <1>1, <1>2, <2>1, ViewReads DEF Fresh
<1>7. Seen' = Seen
  BY <1>1 DEF Seen, Age
<1>8. Discoverer' = c
  <2>1. refreshMu = c /\ pc'[c] = "discover"
    BY <1>1, <1>2 DEF TypeOK, LockInv, Holding
  <2> QED
    BY <1>1, <2>1 DEF Discoverer
<1>9. [s \in {1} |-> Discoverer]' = [[s \in {1} |-> Discoverer] EXCEPT ![Calls[c].svc] = c]
  BY <1>6, <1>8
<1> QED
  BY <1>4, <1>5, <1>6, <1>7, <1>9 DEF View!Discover, View!Moves, View!files, View!pointers

LEMMA PublishAllowed ==
  ASSUME IInv, ViewAssumption, NEW c \in Caller, Publish(c)
  PROVE  View!Publish(c)
<1>1. /\ pc[c] = "discover" /\ pc' = [pc EXCEPT ![c] = "unlock"]
      /\ UNCHANGED <<now, refreshMu, call>>
      /\ invs' = [id |-> Published + 1, at |-> now, inv |-> out[c]] /\ invsAt' = now
  BY DEF Publish
<1>2. PlaceOf(pc[c]) = "discover" /\ PlaceOf("unlock") = "idle" /\ TypeOK /\ LockInv
  BY <1>1 DEF PlaceOf, IInv
<1>3. View!Ends(c, "discover")
  BY <1>1, <1>2, ViewEnds
<1>4. Calls[c].svc = 1 /\ Calls[c].source = "snapshot"
  <2>1. Calls[c] = CallOf(pc[c], call[c].mode)
    BY DEF Calls, Everyone
  <2> QED
    BY <1>2, <2>1 DEF CallOf
<1>5. Seen' = [source |-> "snapshot", recent |-> TRUE]
  <2>1. invs' # NoSnapshot
    <3>1. Published + 1 \in Nat \ {0} /\ now \in Nat /\ out[c] \in [Env -> Inventory]
      BY <1>2 DEF TypeOK, Published, Number, Snapshot
    <3>2. invs' \in Snapshot
      BY <1>1, <3>1 DEF Snapshot
    <3> QED
      BY <3>2, SnapshotAssumption
  <2>2. (Age' < 1) = TRUE
    BY <1>1, <1>2 DEF Age, TypeOK
  <2>3. Seen' = [source |-> "snapshot", recent |-> Age' < 1]
    BY <2>1 DEF Seen
  <2> QED
    BY <2>2, <2>3
<1>6. Discoverer' = NoCaller
  <2>1. refreshMu = c /\ pc'[c] = "unlock"
    BY <1>1, <1>2 DEF TypeOK, LockInv, Holding
  <2> QED
    BY <1>1, <2>1 DEF Discoverer
<1>7. /\ [s \in {1} |-> Seen]' =
           [[s \in {1} |-> Seen] EXCEPT ![Calls[c].svc] = [source |-> "snapshot", recent |-> TRUE]]
      /\ [s \in {1} |-> Discoverer]' = [[s \in {1} |-> Discoverer] EXCEPT ![Calls[c].svc] = NoCaller]
  BY <1>4, <1>5, <1>6
<1> QED
  BY <1>3, <1>4, <1>7 DEF View!Publish

(* Taking and releasing the mutex, and coming back, Serve does not see.    *)
LEMMA HiddenStep ==
  ASSUME IInv, ViewAssumption, NEW c \in Caller, Lock(c) \/ Reread(c) \/ Unlock(c) \/ Return(c)
  PROVE  UNCHANGED View!serveVars
<1>1. TypeOK /\ LockInv
  BY DEF IInv
<1>2. PICK place \in {"recheck", "done", "idle"} :
        /\ pc' = [pc EXCEPT ![c] = place]
        /\ PlaceOf(place) = PlaceOf(pc[c])
        /\ place = "recheck" => pc[c] = "lock"
        /\ pc[c] # "discover"
  BY DEF Lock, Reread, Unlock, Return, PlaceOf
<1>3. UNCHANGED <<now, invs, invsAt>> /\ \A d \in Caller \ {c} : call'[d] = call[d]
  BY <1>1 DEF Lock, Reread, Unlock, Return, TypeOK
<1>4. CallOf(place, call'[c].mode) = CallOf(pc[c], call[c].mode)
  <2>1. CASE PlaceOf(place) = "idle"
    BY <1>2, <2>1 DEF CallOf
  <2>2. CASE place = "recheck"
    <3>1. pc[c] = "lock" /\ call' = call
      BY <1>2, <2>2 DEF Lock, Reread, Unlock, Return
    <3> QED
      BY <1>2, <2>2, <3>1 DEF CallOf, ModeOf
  <2> QED
    BY <1>2, <2>1, <2>2 DEF PlaceOf
<1>5. Discoverer' = Discoverer
  <2>1. pc'[c] # "discover" /\ \A d \in Caller \ {c} : pc'[d] = pc[d]
    BY <1>1, <1>2 DEF TypeOK
  <2>2. CASE Lock(c)
    <3>1. refreshMu = NoCaller /\ refreshMu' = c
      BY <2>2 DEF Lock
    <3> QED
      BY <2>1, <3>1, CallerAssumption DEF Discoverer
  <2>3. CASE Reread(c) \/ Unlock(c)
    <3>1. refreshMu = c /\ refreshMu' = NoCaller
      BY <1>1, <2>3 DEF Reread, Unlock, LockInv, Holding
    <3> QED
      BY <1>2, <3>1, CallerAssumption DEF Discoverer
  <2>4. CASE Return(c)
    <3>1. refreshMu' = refreshMu
      BY <2>4 DEF Return
    <3> QED
      BY <1>2, <2>1, <3>1 DEF Discoverer
  <2> QED
    BY <2>2, <2>3, <2>4
<1> QED
  BY <1>1, <1>2, <1>3, <1>4, <1>5, ViewStays

LEMMA StepAllowed ==
  ASSUME ViewAssumption
  PROVE  IInv /\ [Next]_vars => [View!ServeNext]_(View!serveVars)
<1> SUFFICES ASSUME IInv, [Next]_vars
             PROVE  View!ServeNext \/ UNCHANGED View!serveVars
  OBVIOUS
<1>1. CASE Tick
  BY <1>1, TickAllowed
<1>2. ASSUME NEW c \in Caller, NEW m \in Modes, Invoke(c, m) PROVE View!ServeNext
  BY <1>2, InvokeAllowed DEF View!ServeNext
<1>3. ASSUME NEW c \in Caller, CachedHit(c) \/ FastPath(c) \/ CachedMiss(c) \/ SlowPath(c)
      PROVE  View!ServeNext
  <2>1. c \in View!Goroutine
    BY ViewSets DEF Everyone
  <2>2. View!Step(c)
    BY <1>3, ReadAllowed, MissAllowed, QueueAllowed DEF View!Step
  <2> QED
    BY <2>1, <2>2 DEF View!ServeNext
<1>4. ASSUME NEW c \in Caller, Coalesce(c) \/ Spawn(c) \/ Publish(c) PROVE View!ServeNext
  <2>1. c \in View!Goroutine
    BY ViewSets DEF Everyone
  <2>2. View!Lock(c) \/ View!Step(c)
    BY <1>4, CoalesceAllowed, SpawnAllowed, PublishAllowed DEF View!Lock, View!Step
  <2> QED
    BY <2>1, <2>2 DEF View!ServeNext
<1>5. ASSUME NEW c \in Caller, Lock(c) \/ Reread(c) \/ Unlock(c) \/ Return(c)
      PROVE  UNCHANGED View!serveVars
  BY <1>5, HiddenStep
<1>6. ASSUME NEW c \in Caller, Cancel(c) \/ \E e \in Env : Goroutine(c, e)
      PROVE  UNCHANGED View!serveVars
  <2>1. UNCHANGED <<now, invs, invsAt, refreshMu, pc, call>>
    BY <1>6 DEF Cancel, Goroutine, Collect, Finish
  <2> QED
    BY <2>1, ViewUntouched
<1>7. CASE UNCHANGED vars
  BY <1>7, ViewUntouched DEF vars
<1> QED
  BY <1>1, <1>2, <1>3, <1>4, <1>5, <1>6, <1>7 DEF Next, Step

(* Every step of the cache, with its clock, its discovery goroutines and   *)
(* its unlocked read, is a step that Serve allows or none at all           *)
(* (service.go:314-392), for any callers, environments and TTL.            *)
THEOREM ServeAllowsCache ==
  ASSUME ViewAssumption
  PROVE  Spec => [][View!ServeNext]_(View!serveVars)
BY Inductive, StepAllowed, PTL DEF Spec
===============================================================================
