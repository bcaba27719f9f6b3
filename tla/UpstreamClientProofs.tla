------------------------- MODULE UpstreamClientProofs -------------------------
(***************************************************************************)
(* Proofs about UpstreamClient, for any processes, goroutines,             *)
(* repositories, time-to-live and rate limit window.                       *)
(***************************************************************************)
EXTENDS UpstreamClient, TLAPS

(* GitHub never announces a reset further away than one window.            *)
ClockInv == reset <= now + Window /\ \A w \in Worker : calledAt[w] <= now

(* What is about to be written is an entry. *)
WriteInv == \A w \in Worker : pc[w] \in {"truncate", "write"} => answer[w] \in Entry

(* A worker whose file has been whole all through the call has read what   *)
(* is still in it, and it has gone on to GitHub because that was too old.  *)
CleanInv ==
  \A w \in clean :
    /\ Home[w] \in CacheDir /\ pc[w] # "idle"
    /\ disk[slug[w]] \in Entry
    /\ pc[w] \in {"judge", "fetch", "api", "refused", "feed"} => read[w] = disk[slug[w]]
    /\ pc[w] \in {"fetch", "api", "refused", "feed", "store"} => disk[slug[w]].at + TTL <= now

(* A worker with an answer has an entry that was fresh at its call, or the *)
(* outcome of a fetch that failed.                                         *)
AnswerInv ==
  \A w \in Worker :
    /\ (pc[w] \in {"truncate", "write"} \/ (pc[w] = "done" /\ w \notin failed)) =>
         answer[w] \in Entry /\ answer[w].at + TTL > calledAt[w]
    /\ (pc[w] = "done" /\ answer[w] = Failed) => w \notin clean

(* In a window a worker is refused no more often than its process has lost *)
(* the limit, and once; that once only if its process knows the limit, or  *)
(* is about to learn it from this very refusal, and so does not ask again. *)
LimitInv ==
  \A w \in Worker :
    /\ header[w] <= reset
    /\ refusals[w] <= 1 + forgotten[Home[w]]
    /\ \/ refusals[w] <= forgotten[Home[w]]
       \/ limitedUntil[Home[w]] >= reset
       \/ pc[w] = "refused" /\ header[w] \in {0, reset}
    /\ (pc[w] = "api" /\ now < reset) => refusals[w] <= forgotten[Home[w]]

USE DEF limits

IInv == TypeOK /\ WriteInv /\ ClockInv /\ CleanInv /\ AnswerInv /\ LimitInv

-------------------------------------------------------------------------------
LEMMA InitIInv == Init => IInv
BY HomeAssumption, ClockAssumption
   DEF Init, IInv, TypeOK, WriteInv, ClockInv, CleanInv, AnswerInv, LimitInv

LEMMA WriteStep == TypeOK /\ WriteInv /\ [Next]_vars => WriteInv'
<1> SUFFICES ASSUME TypeOK, WriteInv, [Next]_vars PROVE WriteInv'
  OBVIOUS
<1> USE HomeAssumption, ClockAssumption, NilAssumption DEF TypeOK, WriteInv, Entry
<1>1. CASE Tick
  BY <1>1 DEF Tick
<1>2. CASE Exhaust
  BY <1>2 DEF Exhaust
<1>3. ASSUME NEW p \in Process, Restart(p) PROVE WriteInv'
  BY <1>3 DEF Restart
<1>4. ASSUME NEW w \in Worker, NEW s \in Slug, Call(w, s) PROVE WriteInv'
  BY <1>4 DEF Call
<1>5. ASSUME NEW w \in Worker, MemHit(w) PROVE WriteInv'
  BY <1>5 DEF MemHit, Fresh, Memory
<1>6. ASSUME NEW w \in Worker, MemMiss(w) PROVE WriteInv'
  BY <1>6 DEF MemMiss
<1>7. ASSUME NEW w \in Worker, ReadDisk(w) PROVE WriteInv'
  BY <1>7 DEF ReadDisk
<1>8. ASSUME NEW w \in Worker, DiskHit(w) PROVE WriteInv'
  BY <1>8 DEF DiskHit, Fresh
<1>9. ASSUME NEW w \in Worker, DiskMiss(w) PROVE WriteInv'
  BY <1>9 DEF DiskMiss, Fresh
<1>10. ASSUME NEW w \in Worker, AskAPI(w) PROVE WriteInv'
  BY <1>10 DEF AskAPI, Limited
<1>11. ASSUME NEW w \in Worker, AskFeed(w) PROVE WriteInv'
  BY <1>11 DEF AskFeed
<1>12. ASSUME NEW w \in Worker, Refused(w) PROVE WriteInv'
  BY <1>12 DEF Refused
<1>13. ASSUME NEW w \in Worker, NextPage(w) PROVE WriteInv'
  BY <1>13 DEF NextPage
<1>14. ASSUME NEW w \in Worker, APIAnswers(w) PROVE WriteInv'
  BY <1>14 DEF APIAnswers
<1>15. ASSUME NEW w \in Worker, FeedAnswers(w) PROVE WriteInv'
  BY <1>15 DEF FeedAnswers
<1>16. ASSUME NEW w \in Worker, FetchFails(w) PROVE WriteInv'
  BY <1>16 DEF FetchFails
<1>17. ASSUME NEW w \in Worker, Store(w) PROVE WriteInv'
  BY <1>17 DEF Store
<1>18. ASSUME NEW w \in Worker, Truncate(w) PROVE WriteInv'
  BY <1>18 DEF Truncate, Spoiled
<1>19. ASSUME NEW w \in Worker, Write(w) PROVE WriteInv'
  BY <1>19 DEF Write, Spoiled
<1>20. ASSUME NEW w \in Worker, Return(w) PROVE WriteInv'
  BY <1>20 DEF Return
<1>21. CASE UNCHANGED vars
  BY <1>21 DEF vars
<1>22. ASSUME NEW w \in Worker, Record(w) PROVE WriteInv'
  BY <1>22 DEF Record
<1> QED
  BY <1>1, <1>2, <1>3, <1>4, <1>5, <1>6, <1>7, <1>8, <1>9, <1>10,
     <1>11, <1>12, <1>13, <1>14, <1>15, <1>16, <1>17, <1>18, <1>19, <1>20,
     <1>21, <1>22 DEF Next, Step

LEMMA TypeStep == TypeOK /\ WriteInv /\ [Next]_vars => TypeOK'
<1> SUFFICES ASSUME TypeOK, WriteInv, [Next]_vars PROVE TypeOK'
  OBVIOUS
<1> USE HomeAssumption, ClockAssumption, NilAssumption DEF TypeOK, WriteInv, Entry
<1>1. CASE Tick
  BY <1>1 DEF Tick
<1>2. CASE Exhaust
  BY <1>2 DEF Exhaust
<1>3. ASSUME NEW p \in Process, Restart(p) PROVE TypeOK'
  BY <1>3 DEF Restart
<1>4. ASSUME NEW w \in Worker, NEW s \in Slug, Call(w, s) PROVE TypeOK'
  BY <1>4 DEF Call
<1>5. ASSUME NEW w \in Worker, MemHit(w) PROVE TypeOK'
  BY <1>5 DEF MemHit, Fresh, Memory
<1>6. ASSUME NEW w \in Worker, MemMiss(w) PROVE TypeOK'
  BY <1>6 DEF MemMiss
<1>7. ASSUME NEW w \in Worker, ReadDisk(w) PROVE TypeOK'
  BY <1>7 DEF ReadDisk
<1>8. ASSUME NEW w \in Worker, DiskHit(w) PROVE TypeOK'
  BY <1>8 DEF DiskHit, Fresh
<1>9. ASSUME NEW w \in Worker, DiskMiss(w) PROVE TypeOK'
  BY <1>9 DEF DiskMiss, Fresh
<1>10. ASSUME NEW w \in Worker, AskAPI(w) PROVE TypeOK'
  BY <1>10 DEF AskAPI, Limited
<1>11. ASSUME NEW w \in Worker, AskFeed(w) PROVE TypeOK'
  BY <1>11 DEF AskFeed
<1>12. ASSUME NEW w \in Worker, Refused(w) PROVE TypeOK'
  BY <1>12 DEF Refused
<1>13. ASSUME NEW w \in Worker, NextPage(w) PROVE TypeOK'
  BY <1>13 DEF NextPage
<1>14. ASSUME NEW w \in Worker, APIAnswers(w) PROVE TypeOK'
  BY <1>14 DEF APIAnswers
<1>15. ASSUME NEW w \in Worker, FeedAnswers(w) PROVE TypeOK'
  BY <1>15 DEF FeedAnswers
<1>16. ASSUME NEW w \in Worker, FetchFails(w) PROVE TypeOK'
  BY <1>16 DEF FetchFails
<1>17. ASSUME NEW w \in Worker, Store(w) PROVE TypeOK'
  BY <1>17 DEF Store
<1>18. ASSUME NEW w \in Worker, Truncate(w) PROVE TypeOK'
  BY <1>18 DEF Truncate, Spoiled
<1>19. ASSUME NEW w \in Worker, Write(w) PROVE TypeOK'
  BY <1>19 DEF Write, Spoiled
<1>20. ASSUME NEW w \in Worker, Return(w) PROVE TypeOK'
  BY <1>20 DEF Return
<1>21. CASE UNCHANGED vars
  BY <1>21 DEF vars
<1>22. ASSUME NEW w \in Worker, Record(w) PROVE TypeOK'
  BY <1>22 DEF Record
<1> QED
  BY <1>1, <1>2, <1>3, <1>4, <1>5, <1>6, <1>7, <1>8, <1>9, <1>10,
     <1>11, <1>12, <1>13, <1>14, <1>15, <1>16, <1>17, <1>18, <1>19, <1>20,
     <1>21, <1>22 DEF Next, Step

(* Every state of the client has the declared types: a torn file never     *)
(* gets any further than readDisk.                                         *)
THEOREM TypeCorrect == Spec => []TypeOK
<1>1. Init => TypeOK /\ WriteInv
  BY InitIInv DEF IInv
<1>2. TypeOK /\ WriteInv /\ [Next]_vars => (TypeOK /\ WriteInv)'
  BY TypeStep, WriteStep
<1>3. QED
  BY <1>1, <1>2, PTL DEF Spec

LEMMA ClockStep == TypeOK /\ ClockInv /\ [Next]_vars => ClockInv'
<1> SUFFICES ASSUME TypeOK, ClockInv, [Next]_vars PROVE ClockInv'
  OBVIOUS
<1> USE HomeAssumption, ClockAssumption, NilAssumption DEF TypeOK, ClockInv
<1>1. CASE Tick
  BY <1>1 DEF Tick
<1>2. CASE Exhaust
  BY <1>2 DEF Exhaust
<1>3. ASSUME NEW p \in Process, Restart(p) PROVE ClockInv'
  BY <1>3 DEF Restart
<1>4. ASSUME NEW w \in Worker, NEW s \in Slug, Call(w, s) PROVE ClockInv'
  BY <1>4 DEF Call
<1>5. ASSUME NEW w \in Worker, MemHit(w) PROVE ClockInv'
  BY <1>5 DEF MemHit, Fresh, Memory
<1>6. ASSUME NEW w \in Worker, MemMiss(w) PROVE ClockInv'
  BY <1>6 DEF MemMiss
<1>7. ASSUME NEW w \in Worker, ReadDisk(w) PROVE ClockInv'
  BY <1>7 DEF ReadDisk
<1>8. ASSUME NEW w \in Worker, DiskHit(w) PROVE ClockInv'
  BY <1>8 DEF DiskHit, Fresh
<1>9. ASSUME NEW w \in Worker, DiskMiss(w) PROVE ClockInv'
  BY <1>9 DEF DiskMiss, Fresh
<1>10. ASSUME NEW w \in Worker, AskAPI(w) PROVE ClockInv'
  BY <1>10 DEF AskAPI, Limited
<1>11. ASSUME NEW w \in Worker, AskFeed(w) PROVE ClockInv'
  BY <1>11 DEF AskFeed
<1>12. ASSUME NEW w \in Worker, Refused(w) PROVE ClockInv'
  BY <1>12 DEF Refused
<1>13. ASSUME NEW w \in Worker, NextPage(w) PROVE ClockInv'
  BY <1>13 DEF NextPage
<1>14. ASSUME NEW w \in Worker, APIAnswers(w) PROVE ClockInv'
  BY <1>14 DEF APIAnswers
<1>15. ASSUME NEW w \in Worker, FeedAnswers(w) PROVE ClockInv'
  BY <1>15 DEF FeedAnswers
<1>16. ASSUME NEW w \in Worker, FetchFails(w) PROVE ClockInv'
  BY <1>16 DEF FetchFails
<1>17. ASSUME NEW w \in Worker, Store(w) PROVE ClockInv'
  BY <1>17 DEF Store
<1>18. ASSUME NEW w \in Worker, Truncate(w) PROVE ClockInv'
  BY <1>18 DEF Truncate, Spoiled
<1>19. ASSUME NEW w \in Worker, Write(w) PROVE ClockInv'
  BY <1>19 DEF Write, Spoiled
<1>20. ASSUME NEW w \in Worker, Return(w) PROVE ClockInv'
  BY <1>20 DEF Return
<1>21. CASE UNCHANGED vars
  BY <1>21 DEF vars
<1>22. ASSUME NEW w \in Worker, Record(w) PROVE ClockInv'
  BY <1>22 DEF Record
<1> QED
  BY <1>1, <1>2, <1>3, <1>4, <1>5, <1>6, <1>7, <1>8, <1>9, <1>10,
     <1>11, <1>12, <1>13, <1>14, <1>15, <1>16, <1>17, <1>18, <1>19, <1>20,
     <1>21, <1>22 DEF Next, Step

LEMMA CleanStep == TypeOK /\ ClockInv /\ CleanInv /\ [Next]_vars => CleanInv'
<1> SUFFICES ASSUME TypeOK, ClockInv, CleanInv, [Next]_vars PROVE CleanInv'
  OBVIOUS
<1> USE HomeAssumption, ClockAssumption, NilAssumption DEF TypeOK, ClockInv, CleanInv
<1>1. CASE Tick
  BY <1>1 DEF Tick, Entry
<1>2. CASE Exhaust
  BY <1>2 DEF Exhaust
<1>3. ASSUME NEW p \in Process, Restart(p) PROVE CleanInv'
  BY <1>3 DEF Restart
<1>4. ASSUME NEW w \in Worker, NEW s \in Slug, Call(w, s) PROVE CleanInv'
  <2>1. \A v \in Worker \ {w} : slug'[v] = slug[v] /\ pc'[v] = pc[v]
    BY <1>4 DEF Call
  <2>2. slug'[w] = s /\ pc'[w] = "check"
    BY <1>4 DEF Call
  <2>3. \A v \in clean' \ {w} : v \in clean
    BY <1>4 DEF Call
  <2>4. w \in clean' => w \in clean \/ (Home[w] \in CacheDir /\ disk[s] \in Entry)
    BY <1>4 DEF Call
  <2>5. QED
    BY <1>4, <2>1, <2>2, <2>3, <2>4 DEF Call
<1>5. ASSUME NEW w \in Worker, MemHit(w) PROVE CleanInv'
  BY <1>5 DEF MemHit, Fresh, Memory
<1>6. ASSUME NEW w \in Worker, MemMiss(w) PROVE CleanInv'
  BY <1>6 DEF MemMiss
<1>7. ASSUME NEW w \in Worker, ReadDisk(w) PROVE CleanInv'
  BY <1>7 DEF ReadDisk
<1>8. ASSUME NEW w \in Worker, DiskHit(w) PROVE CleanInv'
  BY <1>8 DEF DiskHit, Fresh
<1>9. ASSUME NEW w \in Worker, DiskMiss(w) PROVE CleanInv'
  BY <1>9 DEF DiskMiss, Fresh, Entry
<1>10. ASSUME NEW w \in Worker, AskAPI(w) PROVE CleanInv'
  BY <1>10 DEF AskAPI, Limited
<1>11. ASSUME NEW w \in Worker, AskFeed(w) PROVE CleanInv'
  BY <1>11 DEF AskFeed
<1>12. ASSUME NEW w \in Worker, Refused(w) PROVE CleanInv'
  BY <1>12 DEF Refused
<1>13. ASSUME NEW w \in Worker, NextPage(w) PROVE CleanInv'
  BY <1>13 DEF NextPage
<1>14. ASSUME NEW w \in Worker, APIAnswers(w) PROVE CleanInv'
  BY <1>14 DEF APIAnswers
<1>15. ASSUME NEW w \in Worker, FeedAnswers(w) PROVE CleanInv'
  BY <1>15 DEF FeedAnswers
<1>16. ASSUME NEW w \in Worker, FetchFails(w) PROVE CleanInv'
  BY <1>16 DEF FetchFails
<1>17. ASSUME NEW w \in Worker, Store(w) PROVE CleanInv'
  BY <1>17 DEF Store
<1>18. ASSUME NEW w \in Worker, Truncate(w) PROVE CleanInv'
  BY <1>18 DEF Truncate, Spoiled
<1>19. ASSUME NEW w \in Worker, Write(w) PROVE CleanInv'
  BY <1>19 DEF Write, Spoiled
<1>20. ASSUME NEW w \in Worker, Return(w) PROVE CleanInv'
  BY <1>20 DEF Return
<1>21. CASE UNCHANGED vars
  BY <1>21 DEF vars
<1>22. ASSUME NEW w \in Worker, Record(w) PROVE CleanInv'
  BY <1>22 DEF Record
<1> QED
  BY <1>1, <1>2, <1>3, <1>4, <1>5, <1>6, <1>7, <1>8, <1>9, <1>10,
     <1>11, <1>12, <1>13, <1>14, <1>15, <1>16, <1>17, <1>18, <1>19, <1>20,
     <1>21, <1>22 DEF Next, Step

LEMMA AnswerStep == TypeOK /\ ClockInv /\ CleanInv /\ AnswerInv /\ [Next]_vars => AnswerInv'
<1> SUFFICES ASSUME TypeOK, ClockInv, CleanInv, AnswerInv, [Next]_vars PROVE AnswerInv'
  OBVIOUS
<1> USE HomeAssumption, ClockAssumption, NilAssumption DEF TypeOK, ClockInv, CleanInv, AnswerInv
<1>1. CASE Tick
  BY <1>1 DEF Tick
<1>2. CASE Exhaust
  BY <1>2 DEF Exhaust
<1>3. ASSUME NEW p \in Process, Restart(p) PROVE AnswerInv'
  BY <1>3 DEF Restart
<1>4. ASSUME NEW w \in Worker, NEW s \in Slug, Call(w, s) PROVE AnswerInv'
  BY <1>4 DEF Call
<1>5. ASSUME NEW w \in Worker, MemHit(w) PROVE AnswerInv'
  BY <1>5 DEF MemHit, Fresh, Memory, Entry
<1>6. ASSUME NEW w \in Worker, MemMiss(w) PROVE AnswerInv'
  BY <1>6 DEF MemMiss
<1>7. ASSUME NEW w \in Worker, ReadDisk(w) PROVE AnswerInv'
  BY <1>7 DEF ReadDisk
<1>8. ASSUME NEW w \in Worker, DiskHit(w) PROVE AnswerInv'
  BY <1>8 DEF DiskHit, Fresh, Entry
<1>9. ASSUME NEW w \in Worker, DiskMiss(w) PROVE AnswerInv'
  BY <1>9 DEF DiskMiss, Fresh
<1>10. ASSUME NEW w \in Worker, AskAPI(w) PROVE AnswerInv'
  BY <1>10 DEF AskAPI, Limited
<1>11. ASSUME NEW w \in Worker, AskFeed(w) PROVE AnswerInv'
  BY <1>11 DEF AskFeed
<1>12. ASSUME NEW w \in Worker, Refused(w) PROVE AnswerInv'
  BY <1>12 DEF Refused
<1>13. ASSUME NEW w \in Worker, NextPage(w) PROVE AnswerInv'
  BY <1>13 DEF NextPage
<1>14. ASSUME NEW w \in Worker, APIAnswers(w) PROVE AnswerInv'
  BY <1>14 DEF APIAnswers
<1>15. ASSUME NEW w \in Worker, FeedAnswers(w) PROVE AnswerInv'
  BY <1>15 DEF FeedAnswers
<1>16. ASSUME NEW w \in Worker, FetchFails(w) PROVE AnswerInv'
  BY <1>16 DEF FetchFails
<1>17. ASSUME NEW w \in Worker, Store(w) PROVE AnswerInv'
  BY <1>17 DEF Store, Entry
<1>18. ASSUME NEW w \in Worker, Truncate(w) PROVE AnswerInv'
  BY <1>18 DEF Truncate, Spoiled
<1>19. ASSUME NEW w \in Worker, Write(w) PROVE AnswerInv'
  BY <1>19 DEF Write, Spoiled
<1>20. ASSUME NEW w \in Worker, Return(w) PROVE AnswerInv'
  BY <1>20 DEF Return
<1>21. CASE UNCHANGED vars
  BY <1>21 DEF vars
<1>22. ASSUME NEW w \in Worker, Record(w) PROVE AnswerInv'
  BY <1>22 DEF Record
<1> QED
  BY <1>1, <1>2, <1>3, <1>4, <1>5, <1>6, <1>7, <1>8, <1>9, <1>10,
     <1>11, <1>12, <1>13, <1>14, <1>15, <1>16, <1>17, <1>18, <1>19, <1>20,
     <1>21, <1>22 DEF Next, Step

LEMMA LimitStep == TypeOK /\ ClockInv /\ LimitInv /\ [Next]_vars => LimitInv'
<1> SUFFICES ASSUME TypeOK, ClockInv, LimitInv, [Next]_vars PROVE LimitInv'
  OBVIOUS
<1> USE HomeAssumption, ClockAssumption, NilAssumption DEF TypeOK, ClockInv, LimitInv
<1>1. CASE Tick
  BY <1>1 DEF Tick
<1>2. CASE Exhaust
  BY <1>2 DEF Exhaust
<1>3. ASSUME NEW p \in Process, Restart(p) PROVE LimitInv'
  BY <1>3 DEF Restart
<1>4. ASSUME NEW w \in Worker, NEW s \in Slug, Call(w, s) PROVE LimitInv'
  BY <1>4 DEF Call
<1>5. ASSUME NEW w \in Worker, MemHit(w) PROVE LimitInv'
  BY <1>5 DEF MemHit, Fresh, Memory
<1>6. ASSUME NEW w \in Worker, MemMiss(w) PROVE LimitInv'
  BY <1>6 DEF MemMiss
<1>7. ASSUME NEW w \in Worker, ReadDisk(w) PROVE LimitInv'
  BY <1>7 DEF ReadDisk
<1>8. ASSUME NEW w \in Worker, DiskHit(w) PROVE LimitInv'
  BY <1>8 DEF DiskHit, Fresh
<1>9. ASSUME NEW w \in Worker, DiskMiss(w) PROVE LimitInv'
  BY <1>9 DEF DiskMiss, Fresh
<1>10. ASSUME NEW w \in Worker, AskAPI(w) PROVE LimitInv'
  BY <1>10 DEF AskAPI, Limited
<1>11. ASSUME NEW w \in Worker, AskFeed(w) PROVE LimitInv'
  BY <1>11 DEF AskFeed
<1>12. ASSUME NEW w \in Worker, Refused(w) PROVE LimitInv'
  BY <1>12 DEF Refused
<1>13. ASSUME NEW w \in Worker, NextPage(w) PROVE LimitInv'
  BY <1>13 DEF NextPage
<1>14. ASSUME NEW w \in Worker, APIAnswers(w) PROVE LimitInv'
  BY <1>14 DEF APIAnswers
<1>15. ASSUME NEW w \in Worker, FeedAnswers(w) PROVE LimitInv'
  BY <1>15 DEF FeedAnswers
<1>16. ASSUME NEW w \in Worker, FetchFails(w) PROVE LimitInv'
  BY <1>16 DEF FetchFails
<1>17. ASSUME NEW w \in Worker, Store(w) PROVE LimitInv'
  BY <1>17 DEF Store
<1>18. ASSUME NEW w \in Worker, Truncate(w) PROVE LimitInv'
  BY <1>18 DEF Truncate, Spoiled
<1>19. ASSUME NEW w \in Worker, Write(w) PROVE LimitInv'
  BY <1>19 DEF Write, Spoiled
<1>20. ASSUME NEW w \in Worker, Return(w) PROVE LimitInv'
  BY <1>20 DEF Return
<1>21. CASE UNCHANGED vars
  BY <1>21 DEF vars
<1>22. ASSUME NEW w \in Worker, Record(w) PROVE LimitInv'
  BY <1>22 DEF Record
<1> QED
  BY <1>1, <1>2, <1>3, <1>4, <1>5, <1>6, <1>7, <1>8, <1>9, <1>10,
     <1>11, <1>12, <1>13, <1>14, <1>15, <1>16, <1>17, <1>18, <1>19, <1>20,
     <1>21, <1>22 DEF Next, Step

LEMMA Inductive == IInv /\ [Next]_vars => IInv'
BY TypeStep, WriteStep, ClockStep, CleanStep, AnswerStep, LimitStep DEF IInv

(* An answer is younger than the TTL unless GitHub has failed the call.    *)
THEOREM FreshUnlessUnreachableHolds == Spec => []FreshUnlessUnreachable
<1>1. IInv => FreshUnlessUnreachable
  BY DEF IInv, AnswerInv, FreshUnlessUnreachable
<1>2. QED
  BY <1>1, InitIInv, Inductive, PTL DEF Spec

(* A call whose cache file is whole throughout never returns an error.     *)
THEOREM KnownNeverFailsHolds == Spec => []KnownNeverFails
<1>1. IInv => KnownNeverFails
  BY DEF IInv, AnswerInv, KnownNeverFails
<1>2. QED
  BY <1>1, InitIInv, Inductive, PTL DEF Spec

(* A whole, fresh file spares every process the request.                   *)
THEOREM FreshFileSparesHolds == Spec => []FreshFileSpares
<1>1. IInv => FreshFileSpares
  BY DEF IInv, CleanInv, FreshFileSpares
<1>2. QED
  BY <1>1, InitIInv, Inductive, PTL DEF Spec

(* A goroutine is refused by the API once in a window, and once more for   *)
(* each restart of its process and each refusal of an earlier window that  *)
(* is recorded late (upstream/github.go, fetch and fetchAPI).              *)
THEOREM FewRefusalsHolds == Spec => []FewRefusals
<1>1. IInv => FewRefusals
  BY DEF IInv, LimitInv, FewRefusals
<1>2. QED
  BY <1>1, InitIInv, Inductive, PTL DEF Spec

===============================================================================
