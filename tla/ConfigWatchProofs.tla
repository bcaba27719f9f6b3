-------------------------- MODULE ConfigWatchProofs --------------------------
(* Proofs about the configuration watcher, for any history of edits.         *)
EXTENDS ConfigWatch, TLAPS

(* A load never reads behind what is served; before the first fingerprint    *)
(* only the first load has been made.                                        *)
LoadInv ==
  /\ served # NoService => \A f \in Loaded : served[f] <= load[f]
  /\ served = NoService => last = NoPrint /\ pc \in Loading \cup {"exit"}
  /\ (served # NoService /\ pc \in Loading) => last # NoPrint

(* Before the first fingerprint, unless an edit was missed, what the first   *)
(* load has read is still there.                                             *)
StartInv ==
  (last = NoPrint /\ excuse # "start") =>
    /\ pc = "readComponents" => load["platform"] = disk["platform"]
    /\ served # NoService => \A f \in Loaded : served[f] = disk[f]

(* A load that is under way has read the platform that was hashed, if that   *)
(* is still there; and once no load is under way, files that load and are as *)
(* they were hashed are served, unless there is an excuse.                   *)
Unchanged == \A f \in Loaded : last[f] = Now(f) /\ Good(Now(f))

SettledInv ==
  last # NoPrint =>
    /\ (pc = "readComponents" /\ last["platform"] = Now("platform") /\ excuse # "restored") =>
         On("platform", load["platform"]) = Now("platform")
    /\ (pc \notin Loading /\ excuse = "none" /\ Unchanged) => UpToDate

(* What a load could not read has been reported, until the next load.        *)
ExcuseInv == excuse = "unread" => reload = "failed" /\ pc \notin Loading

IInv == TypeOK /\ LoadInv /\ StartInv /\ SettledInv /\ ExcuseInv

-------------------------------------------------------------------------------
LEMMA NowIsContent == ASSUME TypeOK, NEW f \in File PROVE Now(f) \in Content
BY HistoryAssumption DEF TypeOK, Now, On

LEMMA InitIInv == Init => IInv
<1> SUFFICES ASSUME Init PROVE IInv
  OBVIOUS
<1>1. TypeOK
  BY HistoryAssumption, ContentAssumption
     DEF Init, TypeOK, Prints, Hashes, EmptyPrint, File, Loaded
<1>2. LoadInv /\ StartInv /\ SettledInv /\ ExcuseInv
  BY DEF Init, LoadInv, StartInv, SettledInv, ExcuseInv, Loading
<1> QED
  BY <1>1, <1>2 DEF IInv

(* An edit that brings back what was hashed leaves an excuse behind, unless  *)
(* what it brings back is what was loaded.                                   *)
LEMMA EditIInv == ASSUME IInv, NEW f \in File, Edit(f) PROVE IInv'
<1> USE DEF IInv
<1>1. /\ disk[f] \in Nat /\ disk'[f] = disk[f] + 1
      /\ \A g \in File : disk[g] \in 1..Len(History[g]) /\ disk'[g] \in 1..Len(History[g])
      /\ \A g \in File : disk[g] <= disk'[g] /\ (g # f => disk'[g] = disk[g])
  BY HistoryAssumption DEF TypeOK, Edit
<1>2. /\ UNCHANGED <<pc, print, last, load, served, reload, swaps, loadErrors, hashErrors>>
      /\ excuse' \in {excuse, "start", "restored"}
  BY DEF Edit, errs
<1>3. TypeOK'
  BY <1>1, <1>2 DEF TypeOK, Edit, Loaded, File
<1>4. LoadInv'
  BY <1>2 DEF LoadInv
<1>5. \A g \in File : g # f => Now(g)' = Now(g)
  BY <1>1 DEF Now
<1>6. StartInv'
  <2> SUFFICES ASSUME last = NoPrint, excuse' # "start" PROVE StartInv'
    BY <1>2 DEF StartInv
  <2>1. CASE f \in Loaded
    <3>1. pc = "readPlatform"
      BY <2>1 DEF Edit, Unseen
    <3> QED
      BY <3>1, <1>2 DEF StartInv, LoadInv, Loading
  <2>2. CASE f \notin Loaded
    <3>1. excuse' = excuse /\ \A g \in Loaded : disk'[g] = disk[g]
      BY <2>2, <1>1 DEF Edit, Loaded, File
    <3> QED
      BY <3>1, <1>2 DEF StartInv, Loaded
  <2> QED
    BY <2>1, <2>2
<1>7. SettledInv'
  <2> SUFFICES ASSUME last # NoPrint PROVE SettledInv'
    BY <1>2 DEF SettledInv
  <2>1. CASE f \in Loaded
    <3>1. last[f] = Now(f)' /\ excuse' # "restored" =>
            /\ ~(pc = "readComponents" /\ f = "platform" /\ On(f, load[f]) # Now(f)')
            /\ pc \notin Loading => UpToDate'
      BY <2>1 DEF Edit, Unseen
    <3>2. ASSUME pc = "readComponents", last["platform"] = Now("platform")', excuse' # "restored"
          PROVE  On("platform", load["platform"]) = Now("platform")'
      <4>1. CASE f = "platform"
        BY <3>1, <3>2, <4>1
      <4>2. CASE f # "platform"
        <5>1. Now("platform")' = Now("platform") /\ excuse' = excuse
          BY <4>2, <1>5, <3>2 DEF File, Edit, Unseen, Loading
        <5> QED
          BY <3>2, <5>1 DEF SettledInv
      <4> QED
        BY <4>1, <4>2
    <3>3. ASSUME pc \notin Loading, excuse' = "none", Unchanged' PROVE UpToDate'
      BY <2>1, <3>1, <3>3, <1>2 DEF Unchanged
    <3> QED
      BY <3>2, <3>3, <1>2 DEF SettledInv, On
  <2>2. CASE f \notin Loaded
    <3>1. excuse' = excuse /\ (\A g \in Loaded : Now(g)' = Now(g)) /\ "platform" \in Loaded
      BY <2>2, <1>5 DEF Edit, Loaded, File
    <3> QED
      BY <3>1, <1>2 DEF SettledInv, Unchanged, UpToDate, On
  <2> QED
    BY <2>1, <2>2
<1>8. ExcuseInv'
  BY <1>2 DEF ExcuseInv
<1> QED
  BY <1>3, <1>4, <1>6, <1>7, <1>8

LEMMA ReadPlatformIInv == ASSUME IInv, ReadPlatform PROVE IInv'
<1> USE DEF IInv, ReadPlatform, errs
<1>1. /\ load'["platform"] = disk["platform"] /\ load'["components"] = load["components"]
      /\ load["platform"] <= disk["platform"] /\ load' \in [Loaded -> Nat]
  BY DEF TypeOK, Loaded, File
<1>2. TypeOK'
  BY <1>1 DEF TypeOK, Loaded, File
<1>3. LoadInv'
  BY <1>1 DEF LoadInv, TypeOK, Loading, Loaded, File
<1>4. StartInv' /\ SettledInv' /\ ExcuseInv'
  BY <1>1 DEF StartInv, SettledInv, ExcuseInv, LoadInv, Loading, Now, On
<1> QED
  BY <1>2, <1>3, <1>4

LEMMA SwapIInv == ASSUME IInv, Swap PROVE IInv'
<1> USE DEF IInv, Swap, errs
<1>1. /\ load'["components"] = disk["components"] /\ load'["platform"] = load["platform"]
      /\ load["components"] <= disk["components"] /\ load' \in [Loaded -> Nat]
      /\ served' = load' /\ served' # NoService
  BY NilAssumption DEF TypeOK, Loaded, File
<1>2. TypeOK'
  BY <1>1 DEF TypeOK, Loaded, File
<1>3. LoadInv'
  BY <1>1 DEF LoadInv, TypeOK, Loading, Loaded, File
<1>4. StartInv'
  BY <1>1 DEF StartInv, LoadInv, Loading, Loaded
<1>5. SettledInv'
  <2> SUFFICES ASSUME last # NoPrint, excuse = "none", last["platform"] = Now("platform")
               PROVE  UpToDate'
    BY DEF SettledInv, Unchanged, Now, Loaded
  <2> QED
    BY <1>1 DEF SettledInv, UpToDate, Loaded, Now, On
<1>6. ExcuseInv'
  BY DEF ExcuseInv, Loading
<1> QED
  BY <1>2, <1>3, <1>4, <1>5, <1>6

LEMMA FailsIInv == ASSUME IInv, StartFails \/ LoadFails \/ LoadUnread PROVE IInv'
<1> USE DEF IInv, errs
<1>1. CASE StartFails
  BY <1>1 DEF StartFails, TypeOK, LoadInv, StartInv, SettledInv, ExcuseInv, Loading, Now
<1>2. CASE LoadFails
  <2>1. TypeOK' /\ LoadInv' /\ ExcuseInv'
    BY <1>2 DEF LoadFails, Broken, TypeOK, LoadInv, ExcuseInv, Loading
  <2>2. StartInv'
    BY <1>2 DEF LoadFails, Broken, StartInv, LoadInv, Loading
  <2>3. \E f \in Loaded : ~Good(Now(f)')
    BY <1>2 DEF LoadFails, Broken, Now, Loaded
  <2>4. SettledInv'
    BY <1>2, <2>3 DEF LoadFails, SettledInv, Unchanged
  <2> QED
    BY <2>1, <2>2, <2>4
<1>3. CASE LoadUnread
  BY <1>3 DEF LoadUnread, TypeOK, LoadInv, StartInv, SettledInv, ExcuseInv, Loading, Now
<1> QED
  BY <1>1, <1>2, <1>3

LEMMA HashIInv ==
  ASSUME IInv, HashPlatform \/ HashReleases \/ HashComponents \/ Unhashed
  PROVE  IInv'
<1> USE DEF IInv
<1>1. /\ pc \in {"hashPlatform", "parse", "hashReleases", "hashComponents"}
      /\ pc' \in {"parse", "hashReleases", "hashComponents", "compare"}
      /\ UNCHANGED <<disk, last, load, served, reload, swaps, loadErrors, excuse>>
  BY DEF HashPlatform, HashReleases, HashComponents, Hash, Unhashed, HashUnread, errs
<1>2. print' \in Prints /\ hashErrors' \in Nat
  <2>1. CASE HashPlatform \/ HashReleases \/ HashComponents
    <3>1. PICK f \in File : print' = [print EXCEPT ![f] = Now(f)] /\ hashErrors' = hashErrors
      BY <2>1 DEF HashPlatform, HashReleases, HashComponents, Hash, File, errs
    <3> QED
      BY <3>1, NowIsContent DEF TypeOK, Prints, Hashes
  <2>2. CASE Unhashed
    <3>1. PICK f \in File, h \in Hashes :
            print' = [print EXCEPT ![f] = h] /\ hashErrors' = hashErrors + 1
      BY <2>2 DEF Unhashed, HashUnread, File, Hashes, TypeOK, Prints
    <3> QED
      BY <3>1 DEF TypeOK, Prints
  <2> QED
    BY <2>1, <2>2
<1>3. TypeOK'
  BY <1>1, <1>2 DEF TypeOK
<1>4. LoadInv' /\ StartInv' /\ SettledInv' /\ ExcuseInv'
  BY <1>1 DEF LoadInv, StartInv, SettledInv, ExcuseInv, Unchanged, UpToDate, Loading, Now
<1> QED
  BY <1>3, <1>4

LEMMA ParseIInv == ASSUME IInv, Parse \/ Tick \/ UNCHANGED vars PROVE IInv'
<1> USE DEF IInv, TypeOK, LoadInv, StartInv, SettledInv, ExcuseInv, Unchanged, UpToDate, Loading,
            Now, errs
<1>1. CASE UNCHANGED vars
  BY <1>1 DEF vars
<1>2. CASE Parse \/ Tick
  <2>1. /\ pc' \in {"hashReleases", "compare", "hashPlatform"}
        /\ pc \in {"parse", "sleep"}
        /\ UNCHANGED <<disk, print, last, load, served, reload, swaps, loadErrors, hashErrors,
                       excuse>>
    BY <1>2 DEF Parse, Tick
  <2> QED
    BY <2>1
<1> QED
  BY <1>1, <1>2

LEMMA CompareIInv == ASSUME IInv, Compare PROVE IInv'
<1> USE DEF IInv, Compare, errs
<1>1. last' \in Prints /\ last' # NoPrint /\ served # NoService
  BY PrintAssumption DEF TypeOK, Prints, LoadInv, Loading
<1>2. TypeOK'
  BY <1>1 DEF TypeOK, EmptyPrint, Prints, Hashes
<1>3. LoadInv' /\ StartInv' /\ ExcuseInv'
  BY <1>1 DEF LoadInv, StartInv, ExcuseInv, Loading
<1>4. SettledInv'
  <2>1. CASE last = NoPrint
    BY <2>1, <1>1 DEF SettledInv, StartInv, UpToDate, Now, Loading
  <2>2. CASE last # NoPrint /\ print = last
    BY <2>2 DEF SettledInv, Unchanged, UpToDate, Now, Loading
  <2>3. CASE last # NoPrint /\ print # last
    BY <2>3 DEF SettledInv, Loading
  <2> QED
    BY <2>1, <2>2, <2>3
<1> QED
  BY <1>2, <1>3, <1>4

LEMMA NextIInv == IInv /\ [Next]_vars => IInv'
BY EditIInv, ReadPlatformIInv, SwapIInv, FailsIInv, HashIInv, ParseIInv, CompareIInv
   DEF Next, Watcher

LEMMA Invariance == Spec => []IInv
BY InitIInv, NextIInv, PTL DEF Spec

-------------------------------------------------------------------------------
(* Type correctness.                                                         *)
THEOREM TypeCorrect == Spec => []TypeOK
<1>1. IInv => TypeOK
  BY DEF IInv
<1> QED
  BY <1>1, Invariance, PTL

(* A change that was seen is served, although the watcher remembers it       *)
(* before the load and reads may fail, but for the edits no tick tells and   *)
(* for a load that has reported its failure (cli/reload.go, watchConfig).    *)
THEOREM WatchedMeansServedHolds == Spec => []WatchedMeansServed
<1>1. IInv => WatchedMeansServed
  <2> SUFFICES ASSUME IInv, ~Excused, pc = "sleep", last = PrintNow,
                      \A f \in Loaded : Good(Now(f))
               PROVE  UpToDate
    BY DEF WatchedMeansServed, SeenMeansServed
  <2>1. last # NoPrint
    <3>1. PrintNow \in Prints
      BY NowIsContent DEF IInv, PrintNow, Prints, Hashes
    <3> QED
      BY <3>1, PrintAssumption DEF Prints
  <2>2. Unchanged
    BY DEF Unchanged, PrintNow, Loaded, File
  <2>3. excuse = "none"
    BY DEF IInv, TypeOK, ExcuseInv, Excused
  <2> QED
    BY <2>1, <2>2, <2>3 DEF IInv, SettledInv, Loading
<1> QED
  BY <1>1, Invariance, PTL

(* No reload serves an earlier version of a file, and none ends the service  *)
(* (cli/serve.go, use; cli/reload.go, watchConfig).                          *)
THEOREM ServedNeverBackHolds == Spec => ServedNeverBack
<1>1. IInv /\ [Next]_vars => [Forward]_vars
  <2> SUFFICES ASSUME IInv, Next, served # NoService PROVE Forward
    BY DEF Forward
  <2>1. CASE Swap
    <3>1. served' = load' /\ served' # NoService
      BY <2>1, NilAssumption DEF Swap, IInv, TypeOK, Loaded, File
    <3>2. \A f \in Loaded : load[f] <= load'[f]
      BY <2>1 DEF Swap, IInv, TypeOK, Loaded, File
    <3>3. \A f \in Loaded : served[f] \in Nat /\ load[f] \in Nat /\ load'[f] \in Nat
      BY <2>1 DEF Swap, IInv, TypeOK, Loaded, File
    <3> QED
      BY <3>1, <3>2, <3>3 DEF Forward, IInv, LoadInv
  <2>2. CASE served' = served
    BY <2>2 DEF Forward, IInv, TypeOK
  <2> QED
    BY <2>1, <2>2 DEF Next, Watcher, Edit, ReadPlatform, StartFails, LoadFails, LoadUnread,
       HashPlatform, HashReleases, HashComponents, Hash, Unhashed, HashUnread, Parse, Compare,
       Tick
<1> QED
  BY <1>1, Invariance, PTL DEF Spec, ServedNeverBack

-------------------------------------------------------------------------------
(* How many reloads are still due.  A load under way swaps a service in if   *)
(* the files load.  A fingerprint that is being taken reads as Coming if no  *)
(* file is edited meanwhile: a load is Asked for if it differs from the last *)
(* one, and one more will be if the files are Behind it.  A file that does   *)
(* not load keeps a reload in hand for the edit that will repair it.         *)
One(p) == IF p THEN 1 ELSE 0

AllGood == \A f \in Loaded : Good(Now(f))

Taking == {"sleep", "hashPlatform", "parse", "hashReleases", "hashComponents", "compare"}

Taken == {f \in File :
  \/ pc = "compare"
  \/ f = "platform" /\ pc \in {"parse", "hashReleases", "hashComponents"}
  \/ f = "releases" /\ pc = "hashComponents"}

Coming == [f \in File |-> IF f \in Taken THEN print[f] ELSE Now(f)]

Asked ==
  \/ pc = "readPlatform" /\ AllGood
  \/ pc = "readComponents" /\ Good(Now("components"))
  \/ pc \in Taking /\ AllGood /\ last # NoPrint /\ Coming # last

Behind ==
  \/ pc \in Loading /\ AllGood /\ last # PrintNow
  \/ pc \in Taking /\ AllGood /\ Coming # PrintNow

Due == One(Asked) + One(Behind) + One(~Good(Now("platform"))) + One(~Good(Now("components")))

PaidInv ==
  /\ served = NoService => swaps = 0
  /\ served # NoService => swaps + Due <= 1 + Edits + 2 * hashErrors
  /\ pc = "readComponents" => Good(On("platform", load["platform"]))

(* What a step that edits nothing leaves alone.                              *)
LEMMA SameFiles ==
  ASSUME disk' = disk
  PROVE  /\ \A f \in File : Now(f)' = Now(f)
         /\ PrintNow' = PrintNow
         /\ AllGood' <=> AllGood
         /\ Edits' = Edits
<1>1. \A f \in File : Now(f)' = Now(f)
  BY DEF Now
<1>2. Loaded \subseteq File /\ "platform" \in File
  BY DEF Loaded, File
<1> QED
  BY <1>1, <1>2 DEF PrintNow, AllGood, Edits

(* Files that all load are fingerprinted whole.                              *)
LEMMA PrintNowGood ==
  ASSUME AllGood PROVE PrintNow = [f \in File |-> Now(f)]
BY DEF AllGood, PrintNow, Loaded

LEMMA EditsNat ==
  ASSUME TypeOK
  PROVE  Edits \in Nat /\ (\A f \in File : disk[f] > 1 => Edits >= 1)
<1>1. \A f \in File : disk[f] \in Nat /\ disk[f] >= 1
  BY HistoryAssumption DEF TypeOK
<1> QED
  BY <1>1 DEF Edits, File

(* Due is a small number whose parts are each 0 or 1.                        *)
LEMMA DueNat == Due \in 0..4
BY DEF Due, One

-------------------------------------------------------------------------------
(* An edit makes at most one more reload due.                                *)
LEMMA EditDue == ASSUME TypeOK, NEW f \in File, Edit(f) PROVE Due' <= Due + 1
<1>1. UNCHANGED <<pc, print, last>> /\ \A g \in File : g # f => Now(g)' = Now(g)
  BY DEF Edit, Now, TypeOK
<1>2. Taken' = Taken
  BY <1>1 DEF Taken
<1> DEFINE a == One(Asked)  b == One(Behind)
           p == One(~Good(Now("platform")))  c == One(~Good(Now("components")))
<1>3. /\ a \in {0, 1} /\ b \in {0, 1} /\ p \in {0, 1} /\ c \in {0, 1}
      /\ a' \in {0, 1} /\ b' \in {0, 1} /\ p' \in {0, 1} /\ c' \in {0, 1}
  BY DEF One
<1>4. Due = a + b + p + c /\ Due' = a' + b' + p' + c'
  BY DEF Due
<1>5. (f # "platform" => p' = p) /\ (f # "components" => c' = c)
  BY <1>1 DEF File
<1>6. p' + c' <= p + c + 1 /\ p + c <= p' + c' + 1
  BY <1>3, <1>5
<1>7. CASE AllGood /\ AllGood'
  <2>1. p = 0 /\ c = 0 /\ p' = 0 /\ c' = 0
    BY <1>7 DEF AllGood, Loaded, One
  <2>2. CASE pc \in Taking /\ f \in Taken
    <3>1. Coming' = Coming
      BY <1>1, <1>2, <2>2 DEF Coming
    <3>2. a' = a
      BY <3>1, <1>1, <1>7, <2>2 DEF Asked, One, Taking
    <3> QED
      BY <2>1, <3>2, <1>3, <1>4
  <2>3. CASE pc \in Taking /\ f \notin Taken
    <3>1. Coming = PrintNow <=> \A g \in Taken : print[g] = Now(g)
      BY <1>7, PrintNowGood DEF Coming, Taken
    <3>2. PrintNow' = [g \in File |-> Now(g)']
      BY <1>7 DEF AllGood, PrintNow, Loaded
    <3>3. Coming' = PrintNow' <=> \A g \in Taken : print[g] = Now(g)'
      BY <3>2, <1>1, <1>2 DEF Coming, Taken
    <3>4. \A g \in Taken : Now(g)' = Now(g)
      BY <2>3, <1>1 DEF Taken
    <3>5. Behind' <=> Behind
      BY <3>1, <3>3, <3>4, <1>1, <1>7, <2>3 DEF Behind, Taking, Loading
    <3> QED
      BY <2>1, <3>5, <1>3, <1>4 DEF One
  <2>4. CASE pc \notin Taking
    <3>1. Asked' <=> Asked
      BY <1>1, <1>7, <2>4 DEF Asked, AllGood, Loaded
    <3> QED
      BY <2>1, <3>1, <1>3, <1>4 DEF One
  <2> QED
    BY <2>2, <2>3, <2>4
<1>8. CASE AllGood /\ ~AllGood'
  <2>1. b' = 0
    BY <1>8, <1>1 DEF Behind, One, Loading
  <2>2. a' <= a
    BY <1>8, <1>1 DEF Asked, One, AllGood, Loaded
  <2> QED
    BY <2>1, <2>2, <1>3, <1>4, <1>6
<1>9. CASE ~AllGood /\ AllGood'
  <2>1. p' = 0 /\ c' = 0 /\ p + c >= 1
    BY <1>9, <1>3 DEF AllGood, Loaded, One
  <2> QED
    BY <2>1, <1>3, <1>4
<1>10. CASE ~AllGood /\ ~AllGood'
  <2>1. b' = 0
    BY <1>10, <1>1 DEF Behind, One, Loading
  <2>2. a' = 0 \/ (pc = "readComponents" /\ c' = 0 /\ a' = 1)
    BY <1>10, <1>1 DEF Asked, One
  <2>3. (pc = "readComponents" /\ c = 0) => a = 1
    BY DEF Asked, One
  <2>4. CASE a' = 0
    BY <2>1, <2>4, <1>3, <1>4, <1>6
  <2>5. CASE a' = 1
    <3>1. c' = 0 /\ pc = "readComponents"
      BY <2>2, <2>5
    <3>2. CASE c = 0
      BY <3>1, <3>2, <2>1, <2>3, <2>5, <1>3, <1>4, <1>6
    <3>3. CASE c = 1
      <4>1. f = "components"
        BY <3>1, <3>3, <1>5
      <4>2. p' = p
        BY <4>1, <1>5
      <4> QED
        BY <4>2, <3>1, <3>3, <2>1, <2>5, <1>3, <1>4
    <3> QED
      BY <3>2, <3>3, <1>3
  <2> QED
    BY <2>4, <2>5, <1>3
<1> QED
  BY <1>7, <1>8, <1>9, <1>10

(* Taking a fingerprint further does not change what it will read as.        *)
LEMMA TakeDue ==
  ASSUME IInv, Tick \/ HashPlatform \/ Parse \/ HashReleases \/ HashComponents
  PROVE  Due' = Due
<1>1. UNCHANGED <<disk, last, served, load, swaps>> /\ pc \in Taking /\ pc' \in Taking
  BY DEF Tick, HashPlatform, HashReleases, HashComponents, Hash, Parse, Taking
<1>2. /\ \A f \in File : Now(f)' = Now(f)
      /\ PrintNow' = PrintNow
      /\ AllGood' <=> AllGood
  BY <1>1, SameFiles
<1>3. AllGood => Coming' = Coming
  <2> SUFFICES ASSUME AllGood, NEW f \in File
               PROVE  (IF f \in Taken' THEN print'[f] ELSE Now(f)) =
                      (IF f \in Taken THEN print[f] ELSE Now(f))
    BY <1>2 DEF Coming
  <2>1. print \in [File -> Hashes]
    BY DEF IInv, TypeOK, Prints
  <2>2. CASE Tick
    BY <2>2 DEF Tick, Taken
  <2>3. CASE HashPlatform
    BY <2>1, <2>3 DEF HashPlatform, Hash, Taken, File
  <2>4. CASE Parse
    BY <2>4 DEF Parse, Taken, AllGood, Loaded
  <2>5. CASE HashReleases
    BY <2>1, <2>5 DEF HashReleases, Hash, Taken, File
  <2>6. CASE HashComponents
    BY <2>1, <2>6 DEF HashComponents, Hash, Taken, File
  <2> QED
    BY <2>2, <2>3, <2>4, <2>5, <2>6
<1>4. (Asked' <=> Asked) /\ (Behind' <=> Behind)
  BY <1>1, <1>2, <1>3 DEF Asked, Behind, Taking, Loading
<1>5. (Good(Now("platform")))' = Good(Now("platform"))
      /\ (Good(Now("components")))' = Good(Now("components"))
  BY <1>2 DEF File, Good
<1> QED
  BY <1>4, <1>5 DEF Due, One

(* The load that a finished fingerprint asks for was due.                    *)
LEMMA CompareDue == ASSUME IInv, Compare PROVE Due' = Due
<1>1. UNCHANGED <<disk, served, swaps>> /\ pc = "compare" /\ last' = print
      /\ pc' = IF last = NoPrint \/ print = last THEN "sleep" ELSE "readPlatform"
  BY DEF Compare
<1>2. /\ \A f \in File : Now(f)' = Now(f)
      /\ PrintNow' = PrintNow
      /\ AllGood' <=> AllGood
  BY <1>1, SameFiles
<1>3. print = [f \in File |-> print[f]] /\ print # NoPrint
  BY PrintAssumption DEF IInv, TypeOK, Prints
<1>4. Coming = print
  BY <1>1, <1>3 DEF Coming, Taken
<1>5. CASE pc' = "sleep"
  <2>1. AllGood => Coming' = PrintNow
    BY <1>2, <1>5, PrintNowGood DEF Coming, Taken
  <2>2. ~Asked
    BY <1>1, <1>4, <1>5 DEF Asked
  <2>3. Asked' <=> Behind
    BY <1>1, <1>2, <1>3, <1>4, <1>5, <2>1 DEF Asked, Behind, Taking, Loading
  <2>4. ~Behind'
    BY <1>2, <1>5, <2>1 DEF Behind, Loading
  <2>5. One(Asked') = One(Behind) /\ One(Behind') = 0 /\ One(Asked) = 0
    BY <2>2, <2>3, <2>4 DEF One
  <2>6. One(Behind) \in Nat
    BY DEF One
  <2> QED
    BY <1>2, <2>5, <2>6 DEF Due, Good, File
<1>6. CASE pc' = "readPlatform"
  <2>1. Asked' <=> Asked
    BY <1>1, <1>2, <1>4, <1>6 DEF Asked, Taking
  <2>2. Behind' <=> Behind
    BY <1>1, <1>2, <1>4, <1>6 DEF Behind, Taking, Loading
  <2> QED
    BY <1>2, <2>1, <2>2 DEF Due, One, File
<1> QED
  BY <1>1, <1>5, <1>6

(* A load that goes on keeps what is due, and one that fails has nothing     *)
(* left to do.                                                               *)
LEMMA LoadDue == ASSUME IInv, served # NoService, ReadPlatform \/ LoadFails PROVE Due' = Due
<1>1. UNCHANGED <<disk, last, served, swaps>>
  BY DEF ReadPlatform, LoadFails
<1>2. /\ \A f \in File : Now(f)' = Now(f)
      /\ PrintNow' = PrintNow
      /\ AllGood' <=> AllGood
  BY <1>1, SameFiles
<1>3. CASE ReadPlatform
  <2>1. Asked' <=> Asked
    BY <1>2, <1>3 DEF ReadPlatform, Asked, AllGood, Loaded, File
  <2>2. Behind' <=> Behind
    BY <1>1, <1>2, <1>3 DEF ReadPlatform, Behind, Taking, Loading
  <2> QED
    BY <1>2, <2>1, <2>2 DEF Due, One, File
<1>4. CASE LoadFails
  <2>1. ~AllGood /\ (pc = "readComponents" => ~Good(Now("components")))
        /\ pc \in {"readPlatform", "readComponents"}
    BY <1>4 DEF LoadFails, Broken, AllGood, Loaded
  <2>2. ~Asked /\ ~Behind
    BY <2>1 DEF Asked, Behind, Taking, Loading
  <2>3. ~Asked' /\ ~Behind'
    BY <1>2, <1>4, <2>1 DEF LoadFails, Asked, Behind, Loading
  <2> QED
    BY <1>2, <2>2, <2>3 DEF Due, One, File
<1> QED
  BY <1>3, <1>4

(* A load that could not read a file was due, and is given up.               *)
LEMMA UnreadDue == ASSUME IInv, LoadUnread PROVE Due' <= Due
<1>1. UNCHANGED <<disk, last>> /\ pc \in Loading /\ pc' = "sleep" /\ last # NoPrint
  BY DEF LoadUnread, IInv, LoadInv
<1>2. /\ \A f \in File : Now(f)' = Now(f)
      /\ PrintNow' = PrintNow
      /\ AllGood' <=> AllGood
  BY <1>1, SameFiles
<1>3. AllGood => Coming' = PrintNow
  BY <1>1, <1>2, PrintNowGood DEF Coming, Taken
<1>4. ~Behind' /\ (Asked' => Behind)
  BY <1>1, <1>2, <1>3 DEF Asked, Behind, Taking, Loading
<1>5. One(Behind') = 0 /\ One(Asked') <= One(Behind) /\ One(Asked) \in Nat
  BY <1>4 DEF One
<1>6. One(Behind) \in Nat /\ One(Asked') \in Nat
  BY DEF One
<1> QED
  BY <1>2, <1>5, <1>6 DEF Due, Good, File, One

(* A fingerprint that could not read a file may ask for one load, and the    *)
(* next one for another.                                                     *)
LEMMA UnhashedDue == ASSUME Unhashed PROVE Due' <= Due + 2
<1>1. disk' = disk
  BY DEF Unhashed, HashUnread
<1>2. \A f \in File : Now(f)' = Now(f)
  BY <1>1, SameFiles
<1>3. /\ One(Asked) \in 0..1 /\ One(Asked') \in 0..1
      /\ One(Behind) \in 0..1 /\ One(Behind') \in 0..1
  BY DEF One
<1> QED
  BY <1>2, <1>3 DEF Due, Good, File, One

(* A service that is swapped in was due.                                     *)
LEMMA SwapDue == ASSUME IInv, served # NoService, Swap PROVE Due' = Due - 1
<1>1. UNCHANGED <<disk, last>> /\ last # NoPrint /\ pc = "readComponents"
      /\ pc' = "sleep" /\ Good(Now("components"))
  BY DEF Swap, IInv, LoadInv, Loading
<1>2. /\ \A f \in File : Now(f)' = Now(f)
      /\ PrintNow' = PrintNow
      /\ AllGood' <=> AllGood
  BY <1>1, SameFiles
<1>3. AllGood => Coming' = PrintNow
  BY <1>1, <1>2, PrintNowGood DEF Coming, Taken
<1>4. Asked /\ (Asked' <=> Behind) /\ ~Behind'
  BY <1>1, <1>2, <1>3 DEF Asked, Behind, Taking, Loading
<1> QED
  BY <1>2, <1>4 DEF Due, One, File

(* The first service is loaded from files that loaded when they were read:   *)
(* one that no longer does has been edited.                                  *)
LEMMA FirstSwapDue ==
  ASSUME IInv, PaidInv, served = NoService, Swap
  PROVE  swaps' + Due' <= 1 + Edits'
<1>1. /\ UNCHANGED <<disk, last>> /\ last = NoPrint /\ pc = "readComponents"
      /\ pc' = "hashPlatform" /\ Good(Now("components")) /\ swaps' = 1
  BY DEF Swap, IInv, LoadInv, PaidInv, Loading
<1>2. /\ \A f \in File : Now(f)' = Now(f)
      /\ PrintNow' = PrintNow
      /\ AllGood' <=> AllGood
      /\ Edits' = Edits
  BY <1>1, SameFiles
<1>3. AllGood => Coming' = PrintNow
  BY <1>1, <1>2, PrintNowGood DEF Coming, Taken
<1>4. ~Asked' /\ ~Behind'
  BY <1>1, <1>2, <1>3 DEF Asked, Behind, Loading
<1>5. Due' = One(~Good(Now("platform")))
  BY <1>1, <1>2, <1>4 DEF Due, One, File
<1>6. Edits \in Nat /\ (disk["platform"] > 1 => Edits >= 1)
  BY EditsNat DEF IInv, File
<1>7. CASE Good(Now("platform"))
  BY <1>1, <1>2, <1>5, <1>6, <1>7 DEF One
<1>8. CASE ~Good(Now("platform"))
  <2>1. load["platform"] # disk["platform"]
    BY <1>1, <1>8 DEF PaidInv, Now
  <2>2. load["platform"] \in 1..disk["platform"] /\ disk["platform"] \in Nat
    BY DEF IInv, TypeOK, Loaded, File
  <2>3. disk["platform"] > 1
    BY <2>1, <2>2
  <2> QED
    BY <1>1, <1>2, <1>5, <1>6, <2>3 DEF One
<1> QED
  BY <1>7, <1>8

LEMMA PaidInit == Init => PaidInv
BY DEF Init, PaidInv

LEMMA NextPaidInv == IInv /\ PaidInv /\ [Next]_vars => PaidInv'
<1> SUFFICES ASSUME IInv, PaidInv, [Next]_vars PROVE PaidInv'
  OBVIOUS
<1> DEFINE Paid == served # NoService => swaps + Due <= 1 + Edits + 2 * hashErrors
<1>1. Due \in Nat /\ Due' \in Nat /\ swaps \in Nat /\ Edits \in Nat /\ hashErrors \in Nat
  BY DueNat, EditsNat DEF Due, One, IInv, TypeOK
<1>2. CASE UNCHANGED vars
  <2>1. Due' = Due
    BY <1>2 DEF vars, Due, One, Asked, Behind, AllGood, Coming, Taken, PrintNow, Now, Loading
  <2> QED
    BY <1>2, <2>1 DEF vars, errs, PaidInv, Edits
<1>3. ASSUME NEW f \in File, Edit(f) PROVE PaidInv'
  <2>1. Due' <= Due + 1
    BY <1>3, EditDue DEF IInv
  <2>2. Edits' = Edits + 1
    <3>1. disk \in [File -> Nat] /\ disk' = [disk EXCEPT ![f] = @ + 1]
      BY <1>3 DEF IInv, TypeOK, Edit
    <3>2. \A g \in File : disk[g] \in Nat /\ disk'[g] = IF g = f THEN disk[g] + 1 ELSE disk[g]
      BY <3>1
    <3>3. "platform" \in File /\ "components" \in File /\ "releases" \in File
      BY DEF File
    <3>4. CASE f = "platform"
      BY <3>2, <3>3, <3>4 DEF Edits
    <3>5. CASE f = "components"
      BY <3>2, <3>3, <3>5 DEF Edits
    <3>6. CASE f = "releases"
      BY <3>2, <3>3, <3>6 DEF Edits
    <3> QED
      BY <3>4, <3>5, <3>6 DEF File
  <2>3. Paid'
    <3>1. served' = served /\ swaps' = swaps /\ hashErrors' = hashErrors
      BY <1>3 DEF Edit, errs
    <3>2. ASSUME served # NoService PROVE swaps + Due' <= 1 + (Edits + 1) + 2 * hashErrors
      <4>1. swaps + Due <= 1 + Edits + 2 * hashErrors
        BY <3>2 DEF PaidInv
      <4>2. \A s, d, e, t, h \in Nat :
              s + d <= 1 + e + 2 * h /\ t <= d + 1 => s + t <= 1 + (e + 1) + 2 * h
        OBVIOUS
      <4> QED
        BY <1>1, <2>1, <4>1, <4>2
    <3> QED
      BY <2>2, <3>1, <3>2
  <2> QED
    BY <1>3, <2>3 DEF PaidInv, Edit, On
<1>4. CASE Tick \/ HashPlatform \/ Parse \/ HashReleases \/ HashComponents \/ Compare
  <2>1. Due' = Due
    BY <1>4, TakeDue, CompareDue
  <2>2. UNCHANGED <<disk, served, swaps, load, hashErrors>> /\ pc' # "readComponents"
    BY <1>4 DEF Tick, HashPlatform, Parse, HashReleases, HashComponents, Hash, Compare, errs
  <2> QED
    BY <2>1, <2>2, SameFiles DEF PaidInv
<1>5. CASE StartFails
  BY <1>5 DEF StartFails, PaidInv
<1>6. CASE ReadPlatform
  <2>1. UNCHANGED <<disk, served, swaps, hashErrors>>
    BY <1>6 DEF ReadPlatform, errs
  <2>2. Good(On("platform", load'["platform"]))
    BY <1>6 DEF ReadPlatform, IInv, TypeOK, Loaded, Now
  <2> QED
    BY <1>6, <2>1, <2>2, LoadDue, SameFiles DEF PaidInv, On
<1>7. CASE LoadFails
  <2>1. UNCHANGED <<disk, served, swaps, hashErrors>> /\ pc' = "sleep" /\ served # NoService
    BY <1>7 DEF LoadFails, errs
  <2> QED
    BY <1>7, <2>1, LoadDue, SameFiles DEF PaidInv
<1>8. CASE Swap
  <2>1. /\ served' # NoService /\ pc' # "readComponents" /\ swaps' = swaps + 1
        /\ hashErrors' = hashErrors
    BY <1>8, NilAssumption DEF Swap, IInv, TypeOK, Loaded, File, errs
  <2>2. Edits' = Edits
    BY <1>8, SameFiles DEF Swap
  <2>3. CASE served = NoService
    <3>1. swaps' + Due' <= 1 + Edits'
      BY <1>8, <2>3, FirstSwapDue
    <3>2. \A s, d, e, h \in Nat : s + d <= 1 + e => s + d <= 1 + e + 2 * h
      OBVIOUS
    <3> QED
      BY <1>1, <2>1, <2>2, <3>1, <3>2 DEF PaidInv
  <2>4. CASE served # NoService
    <3>1. Due' = Due - 1
      BY <1>8, <2>4, SwapDue
    <3> QED
      BY <1>1, <2>1, <2>2, <2>4, <3>1 DEF PaidInv
  <2> QED
    BY <2>3, <2>4
<1>9. CASE LoadUnread
  <2>1. /\ UNCHANGED <<disk, served, swaps, hashErrors>> /\ pc' = "sleep"
        /\ served # NoService
    BY <1>9 DEF LoadUnread
  <2>2. Due' <= Due /\ Edits' = Edits
    BY <1>9, <2>1, UnreadDue, SameFiles
  <2> QED
    BY <1>1, <2>1, <2>2 DEF PaidInv
<1>10. CASE Unhashed
  <2>1. /\ UNCHANGED <<disk, served, swaps, load>> /\ pc' # "readComponents"
        /\ hashErrors' = hashErrors + 1
    BY <1>10 DEF Unhashed, HashUnread
  <2>2. Due' <= Due + 2 /\ Edits' = Edits
    BY <1>10, <2>1, UnhashedDue, SameFiles
  <2>3. \A s, d, e, t, h \in Nat :
          s + d <= 1 + e + 2 * h /\ t <= d + 2 => s + t <= 1 + e + 2 * (h + 1)
    OBVIOUS
  <2> QED
    BY <1>1, <2>1, <2>2, <2>3 DEF PaidInv
<1> QED
  BY <1>2, <1>3, <1>4, <1>5, <1>6, <1>7, <1>8, <1>9, <1>10 DEF Next, Watcher

(* Every reload but the first is paid for by an edit of a file, or with      *)
(* another by a read of a fingerprint that failed, although the fingerprint  *)
(* and the load read the files at different moments (cli/reload.go,          *)
(* watchConfig and configFingerprint).                                       *)
THEOREM ReloadsPaidHolds == Spec => []ReloadsPaid
<1>1. IInv /\ PaidInv => ReloadsPaid
  <2> SUFFICES ASSUME IInv, PaidInv PROVE swaps <= 1 + Edits + 2 * hashErrors
    BY DEF ReloadsPaid
  <2>1. Due \in 0..4 /\ Edits \in Nat /\ swaps \in Nat /\ hashErrors \in Nat
    BY DueNat, EditsNat DEF IInv, TypeOK
  <2> QED
    BY <2>1 DEF PaidInv
<1> QED
  BY PaidInit, <1>1, Invariance, NextPaidInv, PTL DEF Spec

-------------------------------------------------------------------------------
(* The points of the files as they are now, and those that a swap would      *)
(* serve, are points that a load may read.                                   *)
LEMMA DiskLoads ==
  ASSUME IInv, NEW points \in [Loaded -> Nat],
         \A f \in Loaded : load[f] <= points[f] /\ points[f] <= disk[f]
  PROVE  points \in Source!Loads
<1>1. \A f \in Loaded : points[f] \in Source!Readable(f)
  <2> SUFFICES ASSUME NEW f \in Loaded PROVE points[f] \in Source!Readable(f)
    OBVIOUS
  <2>1. load[f] \in Nat /\ points[f] \in Nat /\ disk[f] \in Nat
    BY DEF IInv, TypeOK, Loaded, File
  <2>2. CASE served = NoService
    BY <2>1, <2>2 DEF Source!Readable
  <2>3. CASE served # NoService
    <3>1. served[f] \in Nat /\ served[f] <= load[f]
      BY <2>3 DEF IInv, TypeOK, LoadInv
    <3>2. served[f] <= points[f]
      BY <2>1, <3>1
    <3> QED
      BY <2>1, <2>3, <3>1, <3>2 DEF Source!Readable
  <2> QED
    BY <2>2, <2>3
<1> QED
  BY <1>1 DEF Source!Loads

LEMMA SourceStep == IInv /\ PaidInv /\ [Next]_vars => [Source!Next]_(Source!vars)
<1> SUFFICES ASSUME IInv, PaidInv, [Next]_vars
             PROVE  Source!Next \/ UNCHANGED Source!vars
  OBVIOUS
<1> DEFINE Acceptable == {points \in [Loaded -> Nat] : \A f \in Loaded :
                            points[f] \in 1..Len(History[f]) /\ Good(On(f, points[f]))}
<1>1. /\ disk \in [File -> Nat] /\ load \in [Loaded -> Nat]
      /\ \A f \in File : disk[f] \in 1..Len(History[f])
      /\ \A f \in Loaded : load[f] \in 1..disk[f]
      /\ Loaded \subseteq File /\ "platform" \in Loaded /\ "components" \in Loaded
  BY DEF IInv, TypeOK, Loaded, File
<1>2. ASSUME NEW f \in Loaded, Edit(f) PROVE Source!Change(f)
  BY <1>1, <1>2 DEF Edit, errs, Source!Change
<1>3. ASSUME NEW f \in File \ Loaded, Edit(f) PROVE UNCHANGED Source!vars
  BY <1>1, <1>3 DEF Edit, errs, Source!vars
<1>4. ASSUME Swap PROVE Source!Adopt
  <2>1. load' = [load EXCEPT !["components"] = disk["components"]] /\ served' = load'
    BY <1>4 DEF Swap
  <2>2. /\ load' \in [Loaded -> Nat]
        /\ load'["platform"] = load["platform"] /\ load'["components"] = disk["components"]
    BY <1>1, <2>1
  <2>3. \A f \in Loaded : load[f] <= load'[f] /\ load'[f] <= disk[f]
    BY <1>1, <2>2 DEF Loaded
  <2>4. load' \in Source!Loads
    BY <2>2, <2>3, DiskLoads
  <2>5. Good(On("platform", load'["platform"])) /\ Good(On("components", load'["components"]))
    BY <1>4, <2>2 DEF Swap, PaidInv, Now
  <2>6. \A f \in Loaded : load'[f] \in 1..Len(History[f])
    <3> SUFFICES ASSUME NEW f \in Loaded PROVE load'[f] \in 1..Len(History[f])
      OBVIOUS
    <3>1. disk[f] \in 1..Len(History[f]) /\ load[f] \in 1..disk[f] /\ load'[f] \in Nat
      BY <1>1, <2>2
    <3>2. load[f] <= load'[f] /\ load'[f] <= disk[f]
      BY <2>3
    <3>3. Len(History[f]) \in Nat
      BY <1>1, HistoryAssumption
    <3> QED
      BY <3>1, <3>2, <3>3
  <2>7. load' \in Acceptable
    BY <2>2, <2>5, <2>6 DEF Loaded
  <2> QED
    BY <1>4, <2>1, <2>4, <2>7 DEF Swap, errs, Source!Adopt
<1>5. ASSUME LoadFails PROVE Source!Refuse
  <2> DEFINE now == [f \in Loaded |-> disk[f]]
  <2>1. now \in [Loaded -> Nat] /\ \A f \in Loaded : load[f] <= now[f] /\ now[f] <= disk[f]
    BY <1>1
  <2>2. now \in Source!Loads
    BY <2>1, DiskLoads
  <2>3. PICK f \in Loaded : ~Good(Now(f))
    BY <1>1, <1>5 DEF LoadFails, Broken
  <2>4. now \notin Acceptable
    BY <2>3 DEF Now
  <2> QED
    BY <1>5, <2>2, <2>4 DEF LoadFails, errs, Source!Refuse
<1>6. CASE ReadPlatform \/ StartFails \/ Parse \/ Compare \/ Tick \/ UNCHANGED vars
  BY <1>6 DEF ReadPlatform, StartFails, Parse, Compare, Tick, vars, errs, Source!vars
<1>7. CASE HashPlatform \/ HashReleases \/ HashComponents \/ Unhashed
  BY <1>7 DEF HashPlatform, HashReleases, HashComponents, Hash, Unhashed, HashUnread, errs,
              Source!vars
<1>8. ASSUME LoadUnread PROVE Source!Fail
  BY <1>8 DEF LoadUnread, Source!Fail
<1> QED
  BY <1>2, <1>3, <1>4, <1>5, <1>6, <1>7, <1>8 DEF Next, Watcher, Source!Next

(* The file watcher is a source of configurations: a file that does not load *)
(* or cannot be read takes nothing away and is reported, a failure is never  *)
(* reported for anything else, and what is swapped in loads and is           *)
(* behind the service it replaces in no file, although the platform and the  *)
(* components are read at different moments (cli/reload.go, watchConfig).    *)
THEOREM ImplementsSource == Spec => SourceSpec
<1>1. Init => Source!Init
  BY DEF Init, Source!Init, Loaded, File
<1> QED
  BY <1>1, PaidInit, Invariance, NextPaidInv, SourceStep, PTL DEF Spec, SourceSpec, Source!Spec
===============================================================================
