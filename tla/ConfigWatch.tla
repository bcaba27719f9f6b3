------------------------------ MODULE ConfigWatch ------------------------------
(***************************************************************************)
(* pbom serve in file mode (cli/serve.go, cli/reload.go): the service is   *)
(* loaded once, then a goroutine fingerprints the configuration files at   *)
(* every tick and loads again when the fingerprint has changed.            *)
(*                                                                         *)
(* Three inputs stand for the files: the platform document, the component  *)
(* definitions, which are both read when a service is loaded, and the      *)
(* releases, which a service in file mode reads again at every request.    *)
(* An edit replaces one of them at once (a rename, or the symlink swap of  *)
(* a mounted ConfigMap); what a file contains over time is its History.    *)
(* Every read of a file is a step of its own, and may fail for a reason    *)
(* that passes: the load then fails, the fingerprint goes on without it.   *)
(***************************************************************************)
EXTENDS Naturals, Sequences

CONSTANTS
  Content,   \* what a file may contain
  Malformed, \* the contents that do not load
  History,   \* History[f][i]: what file f contains after i-1 edits
  MaxErrors, \* bound: how many reads fail
  NoService, \* nothing is served yet
  NoPrint    \* no fingerprint has been taken yet

File == {"platform", "components", "releases"}
Loaded == {"platform", "components"}

ASSUME ContentAssumption == Malformed \subseteq Content
ASSUME HistoryAssumption ==
  /\ History \in [File -> Seq(Content)]
  /\ \A f \in File : Len(History[f]) > 0
ASSUME ErrorsAssumption == MaxErrors \in Nat
ASSUME NilAssumption == NoService \notin [Loaded -> Nat]

VARIABLES
  disk,   \* the point of its history each file is at
  pc,     \* what the process does next
  print,  \* the fingerprint being taken: what each file hashed, or absent
  last,   \* the fingerprint of the previous tick
  load,   \* the points the load under way has read
  served, \* the points the served service was loaded from
  reload, \* the metric config_last_reload_successful: none, ok, failed
  swaps,  \* history: how many services have been swapped in
  loadErrors, \* history: how many reloads could not read a file
  hashErrors, \* history: how many reads of a fingerprint failed
  excuse  \* history: why good files that look as they did at the last tick
          \* may not be served; a load that begins makes it none again

errs == <<loadErrors, hashErrors>>
vars == <<disk, pc, print, last, load, served, reload, swaps, errs, excuse>>

On(f, i) == History[f][i]
Now(f) == On(f, disk[f])
Good(c) == c \notin Malformed

Absent == "absent" \* not hashed, as the platform did not parse or a directory is not readable
Empty == "empty"   \* an empty file; one that cannot be read is hashed as such
Hashes == Content \cup {Absent, Empty}
EmptyPrint == [f \in File |-> Absent]
ASSUME PrintAssumption == Absent \notin Content /\ NoPrint \notin [File -> Hashes]

Loading == {"readPlatform", "readComponents"}
UpToDate == served # NoService /\ \A f \in Loaded : On(f, served[f]) = Now(f)

-------------------------------------------------------------------------------
Init ==
  /\ disk = [f \in File |-> 1]
  /\ pc = "readPlatform"
  /\ print = EmptyPrint
  /\ last = NoPrint
  /\ load = [f \in Loaded |-> 1]
  /\ served = NoService
  /\ reload = "none"
  /\ swaps = 0
  /\ loadErrors = 0 /\ hashErrors = 0
  /\ excuse = "none"

(* The edits that no tick tells: before the first fingerprint, and one that *)
(* brings back what the last tick hashed after a load has read another      *)
(* content.                                                                 *)
Unseen(f) ==
  IF last = NoPrint THEN pc # "readPlatform"
  ELSE /\ last[f] = Now(f)'
       /\ \/ pc = "readComponents" /\ f = "platform" /\ On(f, load[f]) # Now(f)'
          \/ pc \notin Loading /\ ~UpToDate'

Edit(f) ==
  /\ disk[f] < Len(History[f])
  /\ disk' = [disk EXCEPT ![f] = @ + 1]
  /\ UNCHANGED <<pc, print, last, load, served, reload, swaps, errs>>
  /\ excuse' = IF f \in Loaded /\ Unseen(f)
                 THEN IF last = NoPrint THEN "start" ELSE "restored"
                 ELSE excuse

(* g.service: service.New reads the platform, then the components.         *)
ReadPlatform ==
  /\ pc = "readPlatform"
  /\ Good(Now("platform"))
  /\ load' = [load EXCEPT !["platform"] = disk["platform"]]
  /\ pc' = "readComponents"
  /\ UNCHANGED <<disk, print, last, served, reload, swaps, errs, excuse>>

(* use: store the service; at start, launch the watcher. *)
SwapOnce == \* mutant: a service already in use is not replaced
  /\ pc = "readComponents"
  /\ Good(Now("components"))
  /\ load' = [load EXCEPT !["components"] = disk["components"]]
  /\ served' = IF served = NoService THEN load' ELSE served
  /\ reload' = "ok"
  /\ swaps' = swaps + 1
  /\ pc' = IF served = NoService THEN "hashPlatform" ELSE "sleep"
  /\ UNCHANGED <<disk, print, last, errs, excuse>>

Swap ==
  /\ pc = "readComponents"
  /\ Good(Now("components"))
  /\ load' = [load EXCEPT !["components"] = disk["components"]]
  /\ served' = load'
  /\ reload' = "ok"
  /\ swaps' = swaps + 1
  /\ pc' = IF served = NoService THEN "hashPlatform" ELSE "sleep"
  /\ UNCHANGED <<disk, print, last, errs, excuse>>

Broken ==
  \/ pc = "readPlatform" /\ ~Good(Now("platform"))
  \/ pc = "readComponents" /\ ~Good(Now("components"))

(* The first load fails, for whatever reason: serve does not start.       *)
StartFails ==
  /\ pc \in Loading
  /\ served = NoService
  /\ pc' = "exit"
  /\ UNCHANGED <<disk, print, last, load, served, reload, swaps, errs, excuse>>

(* A later load fails: the previous service goes on. *)
LoadFailsEmpty == \* mutant: what the failed load returned is put to use
  /\ Broken
  /\ served # NoService
  /\ pc' = "sleep"
  /\ reload' = "failed"
  /\ served' = NoService
  /\ UNCHANGED <<disk, print, last, load, swaps, errs, excuse>>
LoadFails ==
  /\ Broken
  /\ served # NoService
  /\ pc' = "sleep"
  /\ reload' = "failed"
  /\ UNCHANGED <<disk, print, last, load, served, swaps, errs, excuse>>

(* So it does when a file cannot be read. The fingerprint that asked for   *)
(* the load is remembered all the same: nothing tries again.               *)
CanFail == loadErrors + hashErrors < MaxErrors

LoadUnread ==
  /\ pc \in Loading
  /\ served # NoService
  /\ CanFail
  /\ loadErrors' = loadErrors + 1
  /\ pc' = "sleep"
  /\ reload' = "failed"
  /\ excuse' = "unread"
  /\ UNCHANGED <<disk, print, last, load, served, swaps, hashErrors>>

(* configFingerprint: hash the platform file, read it again to parse it,   *)
(* and hash the files it names only if it parsed.                          *)
Hash(f, at, to) ==
  /\ pc = at
  /\ print' = [print EXCEPT ![f] = Now(f)]
  /\ pc' = to
  /\ UNCHANGED <<disk, last, load, served, reload, swaps, errs, excuse>>

HashNoComponents == \* mutant: component definitions are not hashed
  /\ pc = "hashComponents"
  /\ pc' = "compare"
  /\ UNCHANGED <<disk, print, last, load, served, reload, swaps, errs, excuse>>

HashPlatform == Hash("platform", "hashPlatform", "parse")
HashReleases == Hash("releases", "hashReleases", "hashComponents")
HashComponents == Hash("components", "hashComponents", "compare")

Parse ==
  /\ pc = "parse"
  /\ pc' = IF Good(Now("platform")) THEN "hashReleases" ELSE "compare"
  /\ UNCHANGED <<disk, print, last, load, served, reload, swaps, errs, excuse>>

(* Errors are passed over: a file that cannot be read is hashed as an empty *)
(* one, a directory not at all, nor is what an unread platform names.       *)
HashUnread(f, hashes, at, to) ==
  /\ pc = at
  /\ CanFail
  /\ hashErrors' = hashErrors + 1
  /\ \E h \in hashes : print' = [print EXCEPT ![f] = h]
  /\ pc' = to
  /\ UNCHANGED <<disk, last, load, served, reload, swaps, loadErrors, excuse>>

Unhashed ==
  \/ HashUnread("platform", {Empty}, "hashPlatform", "parse")
  \/ HashUnread("platform", {print["platform"]}, "parse", "compare")
  \/ HashUnread("releases", {Absent, Empty}, "hashReleases", "hashComponents")
  \/ HashUnread("components", {Absent, Empty}, "hashComponents", "compare")

(* The first fingerprint is only remembered; a later one that differs is   *)
(* remembered too, before the load it asks for.                            *)
CompareForgetful == \* mutant: the new fingerprint is not remembered
  /\ pc = "compare"
  /\ last' = IF last = NoPrint THEN print ELSE last
  /\ print' = EmptyPrint
  /\ pc' = IF last = NoPrint \/ print = last THEN "sleep" ELSE "readPlatform"
  /\ excuse' = IF pc' = "sleep" THEN excuse ELSE "none"
  /\ UNCHANGED <<disk, load, served, reload, swaps, errs>>

Compare ==
  /\ pc = "compare"
  /\ last' = print
  /\ print' = EmptyPrint
  /\ pc' = IF last = NoPrint \/ print = last THEN "sleep" ELSE "readPlatform"
  /\ excuse' = IF pc' = "sleep" THEN excuse ELSE "none"
  /\ UNCHANGED <<disk, load, served, reload, swaps, errs>>

Tick ==
  /\ pc = "sleep"
  /\ pc' = "hashPlatform"
  /\ UNCHANGED <<disk, print, last, load, served, reload, swaps, errs, excuse>>

Watcher ==
  \/ ReadPlatform \/ Swap \/ StartFails \/ LoadFails \/ LoadUnread
  \/ HashPlatform \/ Parse \/ HashReleases \/ HashComponents \/ Unhashed
  \/ Compare \/ Tick

Next == Watcher \/ \E f \in File : Edit(f)

Spec == Init /\ [][Next]_vars

(* The goroutine is scheduled and the ticker ticks. Nobody has to edit.    *)
FairSpec == Spec /\ WF_vars(Watcher)

-------------------------------------------------------------------------------
Prints == [File -> Hashes]

TypeOK ==
  /\ disk \in [File -> Nat] /\ \A f \in File : disk[f] \in 1..Len(History[f])
  /\ pc \in {"readPlatform", "readComponents", "hashPlatform", "parse",
             "hashReleases", "hashComponents", "compare", "sleep", "exit"}
  /\ print \in Prints
  /\ last \in Prints \cup {NoPrint}
  /\ load \in [Loaded -> Nat] /\ \A f \in Loaded : load[f] \in 1..disk[f]
  /\ served \in [Loaded -> Nat] \cup {NoService}
  /\ reload \in {"none", "ok", "failed"}
  /\ swaps \in Nat
  /\ loadErrors \in Nat /\ hashErrors \in Nat
  /\ excuse \in {"none", "start", "restored", "unread"}

(* The fingerprint of the files as they are now. *)
PrintNow ==
  [f \in File |-> IF f = "platform" \/ Good(Now("platform")) THEN Now(f) ELSE Absent]

(* Between ticks, files that look unchanged and load are the ones served:  *)
(* a change is never remembered as seen without being served, although the *)
(* fingerprint is remembered before the load and every file may change     *)
(* between two reads (cli/reload.go:93-107).                               *)
SeenMeansServed ==
  (pc = "sleep" /\ last = PrintNow /\ \A f \in Loaded : Good(Now(f))) => UpToDate

(* Excepted are the edits that no tick tells, until another change is      *)
(* loaded, and what a load could not read; that has been reported.         *)
Excused ==
  \/ excuse \in {"start", "restored"}
  \/ excuse = "unread" /\ reload = "failed"

WatchedMeansServed == SeenMeansServed \/ Excused

(* A reload throws away every discovered inventory and upstream release.   *)
(* Each one is paid for by an edit, although every file is read at another *)
(* moment for the fingerprint than for the load. A read of a fingerprint   *)
(* that fails pays for two: the fingerprint without it and the next one    *)
(* both look like changes (cli/reload.go:52-70).                           *)
Edits == (disk["platform"] - 1) + (disk["components"] - 1) + (disk["releases"] - 1)

ReloadsPaid == swaps <= 1 + Edits + 2 * hashErrors

(* A reload never goes back to an earlier version of a file, and an        *)
(* invalid file never ends the service.                                    *)
Forward ==
  served # NoService =>
    served' # NoService /\ \A f \in Loaded : served'[f] >= served[f]

ServedNeverBack == [][Forward]_vars

(* The promise: an edit that does not load takes nothing away, nor does a  *)
(* file that cannot be read, what is served has loaded and never goes      *)
(* back, and the gauge tells of the latest load, although an edit may fall *)
(* between its two reads (cli/reload.go:97-107).                           *)
Source ==
  INSTANCE ConfigSource WITH
    Input <- Loaded,
    latest <- [f \in Loaded |-> disk[f]],
    errors <- loadErrors,
    Acceptable <- {points \in [Loaded -> Nat] : \A f \in Loaded :
                     points[f] \in 1..Len(History[f]) /\ Good(On(f, points[f]))}

SourceSpec == Source!Spec

(* Once the edits and the errors stop at files that load, they are served, *)
(* unless serve did not start, missed the edit or has told that it could   *)
(* not read them.                                                          *)
Converges ==
  <>[]((pc # "exit" /\ \A f \in Loaded : Good(Now(f))) => UpToDate \/ Excused)

(* "pbom serve also reloads configuration files when they change" (usage.md *)
(* line 67), "an invalid change is logged and the previous configuration   *)
(* keeps serving" (reload.go:81): for a change that is valid and was seen  *)
(* one read that fails is enough for it not to be loaded.                  *)
ValidChangeReloaded == excuse = "unread" => SeenMeansServed
===============================================================================
