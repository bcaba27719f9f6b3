------------------------- MODULE UpstreamCacheProofs -------------------------
(***************************************************************************)
(* Proofs about UpstreamCache, for any callers, components, environments,  *)
(* release files, failures and slots.                                      *)
(***************************************************************************)
EXTENDS UpstreamCache, FiniteSetTheorems, TLAPS

(* What one fetch found of a component is a list or an error.              *)
CacheInv == cache # NoFetch => cache.ups \cap cache.errs = {}

(* A fetch that runs has a goroutine for each name that has an upstream.   *)
FetchInv ==
  \A c \in Caller : pc[c] = "fetch" =>
    \A n \in Names(c) \cap Tracked : fetch[c][n] # "none"

IInv == TypeOK /\ CacheInv /\ FetchInv /\ AnswerDecides

-------------------------------------------------------------------------------
LEMMA InitIInv == Init => IInv
<1> SUFFICES ASSUME Init PROVE IInv
  OBVIOUS
<1> USE DEF Init
<1>1. Nothing \in Entry /\ NoCall \in [refresh : BOOLEAN, rels : SUBSET Component, invs : SUBSET Component]
  BY DEF Nothing, NoCall, Entry
<1>2. Idle \in [Component -> {"none", "queued", "asking", "list", "error"}]
  BY DEF Idle
<1>3. running \in SUBSET Component /\ released \in SUBSET Component
  BY NameAssumption
<1>4. changes \in 0..MaxChanges /\ failures \in 0..MaxFailures
  BY BoundAssumption
<1>5. pc \in [Caller -> {"idle", "inventories", "check", "fetch", "done", "refused"}]
  OBVIOUS
<1>6. TypeOK
  BY <1>1, <1>2, <1>3, <1>4, <1>5 DEF TypeOK
<1> QED
  BY <1>6 DEF IInv, CacheInv, FetchInv, AnswerDecides

(* What a fetch published is an entry, and no name is both in its lists    *)
(* and in its errors.                                                      *)
LEMMA ResultIsEntry ==
  ASSUME NEW c \in Caller
  PROVE  Result(c) \in Entry /\ Result(c).ups \cap Result(c).errs = {} /\ Result(c) # NoFetch
BY NilAssumption DEF Result, In, Entry

LEMMA TypeStep == TypeOK /\ [Next]_vars => TypeOK'
<1> SUFFICES ASSUME TypeOK, [Next]_vars PROVE TypeOK'
  OBVIOUS
<1> USE NameAssumption, BoundAssumption, CallerAssumption, NilAssumption DEF TypeOK, world
<1>1. CASE Deploy
  BY <1>1 DEF Deploy
<1>2. CASE EditReleases
  BY <1>2 DEF EditReleases
<1>3. CASE Expire
  BY <1>3 DEF Expire
<1>4. ASSUME NEW c \in Caller, Cancel(c) PROVE TypeOK'
  BY <1>4 DEF Cancel
<1>5. ASSUME NEW c \in Caller, Refuse(c) PROVE TypeOK'
  BY <1>5 DEF Refuse
<1>6. ASSUME NEW c \in Caller, NEW refresh \in BOOLEAN, Begin(c, refresh) PROVE TypeOK'
  BY <1>6 DEF Begin, NoCall
<1>7. ASSUME NEW c \in Caller, Collect(c) PROVE TypeOK'
  <2>1. invs' \in SUBSET Component
    BY <1>7 DEF Collect
  <2>2. call' \in [Caller -> [refresh : BOOLEAN, rels : SUBSET Component, invs : SUBSET Component]]
    <3> DEFINE Read == [refresh : BOOLEAN, rels : SUBSET Component, invs : SUBSET Component]
               read == [call[c] EXCEPT !.invs = invs']
    <3>1. call[c] \in Read
      OBVIOUS
    <3>2. read \in Read
      BY <2>1, <3>1
    <3>3. call' = [call EXCEPT ![c] = read]
      BY <1>7 DEF Collect
    <3>4. call \in [Caller -> Read]
      OBVIOUS
    <3> HIDE DEF Read, read, TypeOK
    <3>5. call' \in [Caller -> Read]
      BY <3>2, <3>3, <3>4
    <3> QED
      BY <3>5 DEF Read
  <2> QED
    BY <1>7, <2>1, <2>2 DEF Collect
<1>8. ASSUME NEW c \in Caller, Offline(c) PROVE TypeOK'
  BY <1>8 DEF Offline, Nothing, Entry
<1>9. ASSUME NEW c \in Caller, FastPath(c) PROVE TypeOK'
  BY <1>9 DEF FastPath, Usable
<1>10. ASSUME NEW c \in Caller, Spawn(c) PROVE TypeOK'
  BY <1>10 DEF Spawn
<1>11. ASSUME NEW c \in Caller, Publish(c) PROVE TypeOK'
  BY <1>11, ResultIsEntry DEF Publish, Idle
<1>12. ASSUME NEW c \in Caller, Return(c) PROVE TypeOK'
  BY <1>12 DEF Return, NoCall, Nothing, Entry
<1>13. ASSUME NEW c \in Caller, NEW n \in Component, Ask(c, n) PROVE TypeOK'
  BY <1>13 DEF Ask
<1>14. ASSUME NEW c \in Caller, NEW n \in Component, Answered(c, n) PROVE TypeOK'
  BY <1>14 DEF Answered
<1>15. ASSUME NEW c \in Caller, NEW n \in Component, Failed(c, n) PROVE TypeOK'
  BY <1>15 DEF Failed
<1>16. CASE UNCHANGED vars
  BY <1>16 DEF vars, world
<1> QED
  BY <1>1, <1>2, <1>3, <1>4, <1>5, <1>6, <1>7, <1>8, <1>9, <1>10, <1>11, <1>12, <1>13, <1>14, <1>15, <1>16
  DEF Next, Invoke, Step, Goroutine

-------------------------------------------------------------------------------
LEMMA CacheStep == TypeOK /\ CacheInv /\ [Next]_vars => CacheInv'
<1> SUFFICES ASSUME TypeOK, CacheInv, [Next]_vars PROVE CacheInv'
  OBVIOUS
<1> USE DEF CacheInv, world
<1>1. CASE Deploy
  BY <1>1 DEF Deploy
<1>2. CASE EditReleases
  BY <1>2 DEF EditReleases
<1>3. CASE Expire
  BY <1>3 DEF Expire
<1>4. ASSUME NEW c \in Caller, Cancel(c) PROVE CacheInv'
  BY <1>4 DEF Cancel
<1>5. ASSUME NEW c \in Caller, Refuse(c) PROVE CacheInv'
  BY <1>5 DEF Refuse
<1>6. ASSUME NEW c \in Caller, NEW refresh \in BOOLEAN, Begin(c, refresh) PROVE CacheInv'
  BY <1>6 DEF Begin
<1>7. ASSUME NEW c \in Caller, Collect(c) PROVE CacheInv'
  BY <1>7 DEF Collect
<1>8. ASSUME NEW c \in Caller, Offline(c) PROVE CacheInv'
  BY <1>8 DEF Offline
<1>9. ASSUME NEW c \in Caller, FastPath(c) PROVE CacheInv'
  BY <1>9 DEF FastPath
<1>10. ASSUME NEW c \in Caller, Spawn(c) PROVE CacheInv'
  BY <1>10 DEF Spawn
<1>11. ASSUME NEW c \in Caller, Publish(c) PROVE CacheInv'
  BY <1>11, ResultIsEntry DEF Publish
<1>12. ASSUME NEW c \in Caller, Return(c) PROVE CacheInv'
  BY <1>12 DEF Return
<1>13. ASSUME NEW c \in Caller, NEW n \in Component, Ask(c, n) PROVE CacheInv'
  BY <1>13 DEF Ask
<1>14. ASSUME NEW c \in Caller, NEW n \in Component, Answered(c, n) PROVE CacheInv'
  BY <1>14 DEF Answered
<1>15. ASSUME NEW c \in Caller, NEW n \in Component, Failed(c, n) PROVE CacheInv'
  BY <1>15 DEF Failed
<1>16. CASE UNCHANGED vars
  BY <1>16 DEF vars, world
<1> QED
  BY <1>1, <1>2, <1>3, <1>4, <1>5, <1>6, <1>7, <1>8, <1>9, <1>10, <1>11, <1>12, <1>13, <1>14, <1>15, <1>16
  DEF Next, Invoke, Step, Goroutine

LEMMA FetchStep == TypeOK /\ FetchInv /\ [Next]_vars => FetchInv'
<1> SUFFICES ASSUME TypeOK, FetchInv, [Next]_vars PROVE FetchInv'
  OBVIOUS
<1> USE NameAssumption DEF TypeOK, FetchInv, Names, world
<1>1. CASE Deploy
  BY <1>1 DEF Deploy
<1>2. CASE EditReleases
  BY <1>2 DEF EditReleases
<1>3. CASE Expire
  BY <1>3 DEF Expire
<1>4. ASSUME NEW c \in Caller, Cancel(c) PROVE FetchInv'
  BY <1>4 DEF Cancel
<1>5. ASSUME NEW c \in Caller, Refuse(c) PROVE FetchInv'
  BY <1>5 DEF Refuse
<1>6. ASSUME NEW c \in Caller, NEW refresh \in BOOLEAN, Begin(c, refresh) PROVE FetchInv'
  BY <1>6 DEF Begin
<1>7. ASSUME NEW c \in Caller, Collect(c) PROVE FetchInv'
  BY <1>7 DEF Collect
<1>8. ASSUME NEW c \in Caller, Offline(c) PROVE FetchInv'
  BY <1>8 DEF Offline
<1>9. ASSUME NEW c \in Caller, FastPath(c) PROVE FetchInv'
  BY <1>9 DEF FastPath
<1>10. ASSUME NEW c \in Caller, Spawn(c) PROVE FetchInv'
  BY <1>10 DEF Spawn
<1>11. ASSUME NEW c \in Caller, Publish(c) PROVE FetchInv'
  BY <1>11 DEF Publish
<1>12. ASSUME NEW c \in Caller, Return(c) PROVE FetchInv'
  BY <1>12 DEF Return
<1>13. ASSUME NEW c \in Caller, NEW n \in Component, Ask(c, n) PROVE FetchInv'
  BY <1>13 DEF Ask
<1>14. ASSUME NEW c \in Caller, NEW n \in Component, Answered(c, n) PROVE FetchInv'
  BY <1>14 DEF Answered
<1>15. ASSUME NEW c \in Caller, NEW n \in Component, Failed(c, n) PROVE FetchInv'
  BY <1>15 DEF Failed
<1>16. CASE UNCHANGED vars
  BY <1>16 DEF vars, world
<1> QED
  BY <1>1, <1>2, <1>3, <1>4, <1>5, <1>6, <1>7, <1>8, <1>9, <1>10, <1>11, <1>12, <1>13, <1>14, <1>15, <1>16
  DEF Next, Invoke, Step, Goroutine

-------------------------------------------------------------------------------
(* When no goroutine of a fetch waits or asks any more, each name it was   *)
(* started for has an answer.                                              *)
LEMMA PublishedCovers ==
  ASSUME TypeOK, FetchInv, NEW c \in Caller, pc[c] = "fetch",
         In(c, "queued") \cup In(c, "asking") = {}
  PROVE  Covers(Result(c), Names(c))
<1> SUFFICES ASSUME NEW n \in Names(c) \cap Tracked
             PROVE  n \in Result(c).ups \cup Result(c).errs
  BY DEF Covers
<1>1. n \in Component
  BY NameAssumption
<1>2. fetch[c][n] # "none"
  BY DEF FetchInv
<1>3. fetch[c][n] # "queued" /\ fetch[c][n] # "asking"
  BY <1>1 DEF In
<1>4. fetch[c][n] \in {"list", "error"}
  BY <1>1, <1>2, <1>3 DEF TypeOK
<1> QED
  BY <1>1, <1>4 DEF Result, In

LEMMA AnswerStep ==
  TypeOK /\ CacheInv /\ FetchInv /\ AnswerDecides /\ [Next]_vars => AnswerDecides'
<1> SUFFICES ASSUME TypeOK, CacheInv, FetchInv, AnswerDecides, [Next]_vars
             PROVE  AnswerDecides'
  OBVIOUS
<1> USE DEF TypeOK, AnswerDecides, Decided, Covers, Names, world
<1>1. CASE Deploy
  BY <1>1 DEF Deploy
<1>2. CASE EditReleases
  BY <1>2 DEF EditReleases
<1>3. CASE Expire
  BY <1>3 DEF Expire
<1>4. ASSUME NEW c \in Caller, Cancel(c) PROVE AnswerDecides'
  BY <1>4 DEF Cancel
<1>5. ASSUME NEW c \in Caller, Refuse(c) PROVE AnswerDecides'
  BY <1>5 DEF Refuse
<1>6. ASSUME NEW c \in Caller, NEW refresh \in BOOLEAN, Begin(c, refresh) PROVE AnswerDecides'
  BY <1>6 DEF Begin
<1>7. ASSUME NEW c \in Caller, Collect(c) PROVE AnswerDecides'
  BY <1>7 DEF Collect
<1>8. ASSUME NEW c \in Caller, Offline(c) PROVE AnswerDecides'
  BY <1>8 DEF Offline
<1>9. ASSUME NEW c \in Caller, FastPath(c) PROVE AnswerDecides'
  BY <1>9 DEF FastPath, Usable, CacheInv
<1>10. ASSUME NEW c \in Caller, Spawn(c) PROVE AnswerDecides'
  BY <1>10 DEF Spawn
<1>11. ASSUME NEW c \in Caller, Publish(c) PROVE AnswerDecides'
  <2>1. Covers(Result(c), Names(c)) /\ Result(c).ups \cap Result(c).errs = {}
    BY <1>11, PublishedCovers, ResultIsEntry DEF Publish
  <2> QED
    BY <1>11, <2>1 DEF Publish
<1>12. ASSUME NEW c \in Caller, Return(c) PROVE AnswerDecides'
  BY <1>12 DEF Return
<1>13. ASSUME NEW c \in Caller, NEW n \in Component, Ask(c, n) PROVE AnswerDecides'
  BY <1>13 DEF Ask
<1>14. ASSUME NEW c \in Caller, NEW n \in Component, Answered(c, n) PROVE AnswerDecides'
  BY <1>14 DEF Answered
<1>15. ASSUME NEW c \in Caller, NEW n \in Component, Failed(c, n) PROVE AnswerDecides'
  BY <1>15 DEF Failed
<1>16. CASE UNCHANGED vars
  BY <1>16 DEF vars, world
<1> QED
  BY <1>1, <1>2, <1>3, <1>4, <1>5, <1>6, <1>7, <1>8, <1>9, <1>10, <1>11, <1>12, <1>13, <1>14, <1>15, <1>16
  DEF Next, Invoke, Step, Goroutine

-------------------------------------------------------------------------------
LEMMA IInvStep == IInv /\ [Next]_vars => IInv'
BY TypeStep, CacheStep, FetchStep, AnswerStep DEF IInv

LEMMA IInvHolds == Spec => []IInv
BY InitIInv, IInvStep, PTL DEF Spec

(* The cache, the goroutines of every fetch and the answers keep the shape *)
(* service.go:402-490 gives them.                                          *)
THEOREM TypeCorrect == Spec => []TypeOK
<1>1. IInv => TypeOK
  BY DEF IInv
<1> QED
  BY <1>1, IInvHolds, PTL

(* However many calls fetch at once, fail or replace what another stored,  *)
(* the answer of each decides every component it asked for that has an     *)
(* upstream: releases or an error, never both (service.go:402-490).        *)
THEOREM AnswerDecidesHolds == Spec => []AnswerDecides
<1>1. IInv => AnswerDecides
  BY DEF IInv
<1> QED
  BY <1>1, IInvHolds, PTL

-------------------------------------------------------------------------------
(***************************************************************************)
(* The slots of a fetch, and where errors come from.                       *)
(***************************************************************************)
(* At most as many requests of a call are under way as there are slots,    *)
(* and while a goroutine waits for one, there is one or a request is under *)
(* way that will leave its own.                                            *)
SlotsFlow ==
  \A c \in Caller :
    /\ Cardinality(Holding(c)) <= Concurrency
    /\ In(c, "queued") # {} => In(c, "asking") # {} \/ Cardinality(Holding(c)) < Concurrency

LEMMA HoldingCounted ==
  ASSUME NEW c \in Caller
  PROVE  IsFiniteSet(Holding(c)) /\ Cardinality(Holding(c)) \in Nat
<1>1. Holding(c) \subseteq Component
  BY DEF Holding, In
<1>2. IsFiniteSet(Holding(c))
  BY <1>1, FS_Subset, NameAssumption
<1> QED
  BY <1>2, FS_CardinalityType

LEMMA HoldingFewer ==
  ASSUME NEW c \in Caller, Holding(c)' \subseteq Holding(c), Cardinality(Holding(c)) <= Concurrency
  PROVE  Cardinality(Holding(c)') <= Concurrency
<1>1. /\ IsFiniteSet(Holding(c)) /\ Cardinality(Holding(c)) \in Nat /\ Concurrency \in Nat
      /\ Cardinality(Holding(c)') <= Cardinality(Holding(c)) /\ IsFiniteSet(Holding(c)')
  BY HoldingCounted, FS_Subset, BoundAssumption
<1>2. Cardinality(Holding(c)') \in Nat
  BY <1>1, FS_CardinalityType
<1> QED
  BY <1>1, <1>2

Within == \A c \in Caller : Cardinality(Holding(c)) <= Concurrency

LEMMA WithinStep == TypeOK /\ Within /\ [Next]_vars => Within'
<1> SUFFICES ASSUME TypeOK, Within, [Next]_vars PROVE Within'
  OBVIOUS
<1>1. ASSUME NEW c \in Caller, NEW n \in Component, Ask(c, n) PROVE Within'
  <2>1. /\ fetch \in [Caller -> [Component -> {"none", "queued", "asking", "list", "error"}]]
        /\ fetch[c][n] = "queued" /\ fetch' = [fetch EXCEPT ![c][n] = "asking"]
        /\ Cardinality(Holding(c)) < Concurrency
    BY <1>1 DEF Ask, TypeOK
  <2>2. Holding(c)' = Holding(c) \cup {n} /\ n \notin Holding(c)
    BY <2>1 DEF Holding, In
  <2>3. /\ Cardinality(Holding(c)') = Cardinality(Holding(c)) + 1
        /\ Cardinality(Holding(c)) \in Nat /\ Concurrency \in Nat
    BY <2>2, HoldingCounted, FS_AddElement, BoundAssumption
  <2>4. Cardinality(Holding(c)') <= Concurrency
    BY <2>1, <2>3
  <2>5. \A d \in Caller \ {c} : Holding(d)' = Holding(d)
    BY <2>1 DEF Holding, In
  <2> QED
    BY <2>4, <2>5, HoldingFewer DEF Within
<1>2. ASSUME NEW c \in Caller, NEW n \in Component, Answered(c, n) \/ Failed(c, n) PROVE Within'
  <2>1. PICK outcome \in {"list", "error"} : fetch' = [fetch EXCEPT ![c][n] = outcome]
    BY <1>2 DEF Answered, Failed
  <2>2. \A d \in Caller : Holding(d)' \subseteq Holding(d)
    BY <2>1 DEF Holding, In, TypeOK
  <2> QED
    BY <2>2, HoldingFewer DEF Within
<1>3. ASSUME NEW c \in Caller, Spawn(c) PROVE Within'
  <2>1. \A d \in Caller : Holding(d)' \subseteq Holding(d)
    BY <1>3 DEF Spawn, Holding, In, TypeOK
  <2> QED
    BY <2>1, HoldingFewer DEF Within
<1>4. ASSUME NEW c \in Caller, Publish(c) PROVE Within'
  <2>1. \A d \in Caller : Holding(d)' \subseteq Holding(d)
    BY <1>4 DEF Publish, Idle, Holding, In, TypeOK
  <2> QED
    BY <2>1, HoldingFewer DEF Within
<1>5. CASE fetch' = fetch
  <2>1. \A d \in Caller : Holding(d)' = Holding(d)
    BY <1>5 DEF Holding, In
  <2> QED
    BY <2>1 DEF Within
<1> QED
  BY <1>1, <1>2, <1>3, <1>4, <1>5
  DEF Next, Deploy, EditReleases, Expire, Cancel, Invoke, Refuse, Begin, Step, Collect, Offline,
      FastPath, Return, Goroutine, vars

(* However the goroutines of any fetch are scheduled and however they end, *)
(* no more of them ask upstream than its semaphore admits, and it never    *)
(* comes to have no slot while nobody asks: a failed request gives its     *)
(* slot back (service.go:414-438).                                         *)
THEOREM SlotsFlowHolds == Spec => []SlotsFlow
<1>1. Init => Within
  <2> SUFFICES ASSUME Init, NEW c \in Caller PROVE Cardinality(Holding(c)) <= Concurrency
    BY DEF Within
  <2>1. Holding(c) = {}
    BY DEF Init, Idle, Holding, In
  <2> QED
    BY <2>1, FS_EmptySet, BoundAssumption
<1>2. Within => SlotsFlow
  <2> SUFFICES ASSUME NEW c \in Caller, In(c, "asking") = {}
               PROVE  Cardinality(Holding(c)) < Concurrency
    BY DEF Within, SlotsFlow
  <2>1. Cardinality(Holding(c)) = 0
    BY FS_EmptySet DEF Holding
  <2> QED
    BY <2>1, BoundAssumption
<1> QED
  BY <1>1, <1>2, WithinStep, TypeCorrect, PTL DEF Spec

-------------------------------------------------------------------------------
(* While nothing has failed there is no error: not in the cache, not in a  *)
(* fetch that is under way, and not in an answer.                          *)
ErrorsAreFailures ==
  failures = 0 =>
    /\ cache # NoFetch => cache.errs = {}
    /\ \A c \in Caller : In(c, "error") = {} /\ answer[c].errs = {}

NoFailure == failures = 0 => cancelled = {}

LEMMA ErrorsStep ==
  TypeOK /\ NoFailure /\ ErrorsAreFailures /\ [Next]_vars => NoFailure' /\ ErrorsAreFailures'
<1> SUFFICES ASSUME TypeOK, NoFailure, ErrorsAreFailures, [Next]_vars, failures' = 0
             PROVE  /\ cancelled' = {}
                    /\ cache' # NoFetch => cache'.errs = {}
                    /\ \A c \in Caller : In(c, "error")' = {} /\ answer'[c].errs = {}
  BY DEF NoFailure, ErrorsAreFailures
<1> DEFINE Clean == /\ cancelled' = {}
                    /\ cache' # NoFetch => cache'.errs = {}
                    /\ \A c \in Caller : In(c, "error")' = {} /\ answer'[c].errs = {}
<1>0. /\ failures \in Nat
      /\ fetch \in [Caller -> [Component -> {"none", "queued", "asking", "list", "error"}]]
      /\ answer \in [Caller -> Entry]
  BY BoundAssumption DEF TypeOK
<1>1. failures = 0
  <2>1. failures' = failures \/ failures' = failures + 1
    BY DEF Next, Deploy, EditReleases, Expire, Cancel, Invoke, Refuse, Begin, Step, Collect, Offline,
           FastPath, Spawn, Publish, Return, Goroutine, Ask, Answered, Failed, vars
  <2> QED
    BY <1>0, <2>1
<1>2. /\ cancelled = {}
      /\ cache # NoFetch => cache.errs = {}
      /\ \A c \in Caller : In(c, "error") = {} /\ answer[c].errs = {}
  BY <1>1 DEF NoFailure, ErrorsAreFailures
<1>3. \A c \in Caller : fetch' = fetch => In(c, "error")' = {}
  BY <1>2 DEF In
<1>4. CASE Deploy \/ EditReleases \/ Expire
  BY <1>2, <1>3, <1>4 DEF Deploy, EditReleases, Expire
<1>5. ASSUME NEW c \in Caller, Cancel(c) PROVE Clean
  BY <1>0, <1>1, <1>5 DEF Cancel
<1>6. ASSUME NEW c \in Caller, Invoke(c) \/ Collect(c) PROVE Clean
  BY <1>2, <1>3, <1>6 DEF Invoke, Refuse, Begin, Collect
<1>7. ASSUME NEW c \in Caller, Offline(c) \/ FastPath(c) \/ Return(c) PROVE Clean
  <2>1. /\ cancelled' \subseteq cancelled /\ cache' = cache /\ fetch' = fetch
        /\ \/ answer' = [answer EXCEPT ![c] = Nothing]
           \/ answer' = [answer EXCEPT ![c] = cache] /\ cache # NoFetch
    BY <1>7 DEF Offline, FastPath, Return, Usable
  <2>2. \A d \in Caller : answer'[d].errs = {}
    BY <1>0, <1>2, <2>1 DEF Nothing
  <2> QED
    BY <1>2, <1>3, <2>1, <2>2
<1>8. ASSUME NEW c \in Caller, Spawn(c) PROVE Clean
  <2>1. \A d \in Caller : In(d, "error")' \subseteq In(d, "error")
    BY <1>0, <1>8 DEF Spawn, In
  <2> QED
    BY <1>2, <1>8, <2>1 DEF Spawn
<1>9. ASSUME NEW c \in Caller, Publish(c) PROVE Clean
  <2>1. \A d \in Caller : In(d, "error")' \subseteq In(d, "error")
    BY <1>0, <1>9 DEF Publish, Idle, In
  <2>2. Result(c).errs = {}
    BY <1>2 DEF Result
  <2>3. /\ cache' = Result(c) /\ cancelled' = cancelled
        /\ answer' = [answer EXCEPT ![c] = Result(c)]
    BY <1>9 DEF Publish
  <2>4. \A d \in Caller : answer'[d].errs = {}
    BY <1>0, <1>2, <2>2, <2>3
  <2> QED
    BY <1>2, <2>1, <2>2, <2>3, <2>4
<1>10. ASSUME NEW c \in Caller, NEW n \in Component, Ask(c, n) \/ Answered(c, n) PROVE Clean
  <2>1. PICK state \in {"asking", "list"} : fetch' = [fetch EXCEPT ![c][n] = state]
    BY <1>10 DEF Ask, Answered
  <2>2. \A d \in Caller : In(d, "error")' \subseteq In(d, "error")
    BY <1>0, <2>1 DEF In
  <2> QED
    BY <1>2, <1>10, <2>2 DEF Ask, Answered
<1>11. ASSUME NEW c \in Caller, NEW n \in Component, Failed(c, n) PROVE Clean
  <2>1. failures' = failures + 1
    BY <1>2, <1>11 DEF Failed
  <2> QED
    BY <1>0, <2>1
<1>12. CASE UNCHANGED vars
  BY <1>2, <1>3, <1>12 DEF vars
<1> QED
  BY <1>4, <1>5, <1>6, <1>7, <1>8, <1>9, <1>10, <1>11, <1>12 DEF Next, Step, Goroutine

(* An error is kept and served as an answer until the TTL, but none comes  *)
(* from anything else than an upstream that failed or a client that went   *)
(* away: not from names that are asked for by others, and not from a fetch *)
(* that replaces another one's (service.go:402-444).                       *)
THEOREM ErrorsAreFailuresHolds == Spec => []ErrorsAreFailures
<1>1. Init => NoFailure /\ ErrorsAreFailures
  BY DEF Init, NoFailure, ErrorsAreFailures, Nothing, Idle, In
<1> QED
  BY <1>1, ErrorsStep, TypeCorrect, PTL DEF Spec
===============================================================================
