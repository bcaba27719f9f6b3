---------------------------- MODULE UpstreamClient ----------------------------
(***************************************************************************)
(* internal/upstream: the releases of a component, read from GitHub and    *)
(* kept in memory and on disk for TTL.  The releases API is rate limited;  *)
(* while it refuses, the public feed is read instead.                      *)
(*                                                                         *)
(* Every process (serve, and each command a user runs) has a client of its *)
(* own: its memory and the rate limit it knows of.  They share the cache   *)
(* directory.  A worker is a goroutine of a process that calls Releases    *)
(* again and again.  Sections under Client.mu are single steps; a cache    *)
(* file is truncated in one step and written in another.                   *)
(***************************************************************************)
EXTENDS Naturals

CONSTANTS
  Process,   \* processes that share the cache directory
  Worker,    \* goroutines that call Releases
  Home,      \* Home[w]: the process of worker w
  Slug,      \* GitHub repositories
  CacheDir,  \* the processes that have a usable cache directory
  TTL,       \* Client.TTL, in ticks
  Window,    \* the length of GitHub's rate limit window, in ticks
  Pages,     \* pagesToFetch
  MaxClock,  \* bound: the last tick
  MaxForgotten, \* bound: how often a process may have forgotten the limit
                \* in a window and still be restarted
  NoEntry,   \* nothing cached
  Torn,      \* a cache file that is truncated, cut short or written over
  Failed     \* Releases returned an error

ASSUME HomeAssumption == Home \in [Worker -> Process] /\ CacheDir \subseteq Process
ASSUME ClockAssumption ==
  /\ TTL \in Nat \ {0} /\ Window \in Nat \ {0} /\ Pages \in Nat \ {0}
  /\ MaxClock \in Nat /\ MaxForgotten \in Nat

(* A list of releases is told apart by where it comes from: the API lists  *)
(* everything with its pre-release flag, the feed what is recent, without. *)
Entry == [at : Nat, source : {"api", "feed"}]
ASSUME NilAssumption == /\ NoEntry \notin Entry \cup {Failed, Torn}
                        /\ {Failed, Torn} \cap Entry = {}

VARIABLES
  now,          \* the clock
  reset,        \* GitHub: the API refuses requests before this time
  mem,          \* Client.mem of each process
  limitedUntil, \* Client.limitedUntil of each process
  header,       \* the end of the window a refusal has carried, 0 if none
  disk,         \* the cache file of each repository
  pc,           \* where each worker is
  slug,         \* the repository of its call
  read,         \* what it has read from disk
  page,         \* the page it asks for
  found,        \* where the releases it has fetched come from
  answer,       \* what its call returns
  calledAt,     \* history: when the call was made
  failed,       \* history: workers whose fetch has failed in this call
  clean,        \* history: workers whose cache file has been whole so far
  refusals,     \* history: how often a worker was refused in this window
  forgotten     \* history: how often a process lost the limit in this window,
                \* by a restart or by a refusal of the window before

limits == <<limitedUntil, header, refusals, forgotten>>
vars == <<now, reset, mem, disk, pc, slug, read, page, found, answer, calledAt,
          failed, clean, limits>>

-------------------------------------------------------------------------------
Init ==
  /\ now = 0
  /\ reset = 0
  /\ mem = [p \in Process |-> [s \in Slug |-> NoEntry]]
  /\ limitedUntil = [p \in Process |-> 0]
  /\ disk = [s \in Slug |-> NoEntry]
  /\ pc = [w \in Worker |-> "idle"]
  /\ slug \in [Worker -> Slug]
  /\ read = [w \in Worker |-> NoEntry]
  /\ page = [w \in Worker |-> 1]
  /\ found = [w \in Worker |-> "api"]
  /\ answer = [w \in Worker |-> NoEntry]
  /\ calledAt = [w \in Worker |-> 0]
  /\ failed = {}
  /\ clean = {}
  /\ header = [w \in Worker |-> 0]
  /\ refusals = [w \in Worker |-> 0]
  /\ forgotten = [p \in Process |-> 0]

Tick ==
  /\ now < MaxClock
  /\ now' = now + 1
  /\ UNCHANGED <<reset, mem, disk, pc, slug, read, page, found, answer,
                 calledAt, failed, clean, limits>>

(* GitHub: the requests of this address have used up a window. *)
Exhaust ==
  /\ now >= reset
  /\ reset' = now + Window
  /\ refusals' = [w \in Worker |-> 0]
  /\ forgotten' = [p \in Process |-> 0]
  /\ UNCHANGED <<now, mem, limitedUntil, header, disk, pc, slug, read, page,
                 found, answer, calledAt, failed, clean>>

(* A process ends, at any moment, and another one is started. *)
Restart(p) ==
  /\ forgotten[p] < MaxForgotten
  /\ forgotten' = [forgotten EXCEPT ![p] = @ + 1]
  /\ mem' = [mem EXCEPT ![p] = [s \in Slug |-> NoEntry]]
  /\ limitedUntil' = [limitedUntil EXCEPT ![p] = 0]
  /\ pc' = [w \in Worker |-> IF Home[w] = p THEN "idle" ELSE pc[w]]
  /\ read' = [w \in Worker |-> IF Home[w] = p THEN NoEntry ELSE read[w]]
  /\ answer' = [w \in Worker |-> IF Home[w] = p THEN NoEntry ELSE answer[w]]
  /\ page' = [w \in Worker |-> IF Home[w] = p THEN 1 ELSE page[w]]
  /\ found' = [w \in Worker |-> IF Home[w] = p THEN "api" ELSE found[w]]
  /\ calledAt' = [w \in Worker |-> IF Home[w] = p THEN 0 ELSE calledAt[w]]
  /\ header' = [w \in Worker |-> IF Home[w] = p THEN 0 ELSE header[w]]
  /\ failed' = {w \in failed : Home[w] # p}
  /\ clean' = {w \in clean : Home[w] # p}
  /\ UNCHANGED <<now, reset, disk, slug, refusals>>

Call(w, s) ==
  /\ pc[w] = "idle"
  /\ pc' = [pc EXCEPT ![w] = "check"]
  /\ slug' = [slug EXCEPT ![w] = s]
  /\ calledAt' = [calledAt EXCEPT ![w] = now]
  /\ clean' = IF Home[w] \in CacheDir /\ disk[s] \in Entry THEN clean \cup {w} ELSE clean
  /\ UNCHANGED <<now, reset, mem, disk, read, page, found, answer, failed,
                 limits>>

(* cached: the memory, then the disk, then GitHub. *)
FreshForever(entry) == entry # NoEntry \* mutant: nothing expires

Fresh(entry) == entry # NoEntry /\ now - entry.at < TTL

Memory(w) == mem[Home[w]][slug[w]]

MemHit(w) ==
  /\ pc[w] = "check"
  /\ Fresh(Memory(w))
  /\ answer' = [answer EXCEPT ![w] = Memory(w)]
  /\ pc' = [pc EXCEPT ![w] = "done"]
  /\ UNCHANGED <<now, reset, mem, disk, slug, read, page, found, calledAt,
                 failed, clean, limits>>

MemMissSkipsDisk(w) == \* mutant: the disk is not looked at
  /\ pc[w] = "check"
  /\ ~Fresh(Memory(w))
  /\ pc' = [pc EXCEPT ![w] = "fetch"]
  /\ UNCHANGED <<now, reset, mem, disk, slug, read, page, found, answer,
                 calledAt, failed, clean, limits>>

MemMiss(w) ==
  /\ pc[w] = "check"
  /\ ~Fresh(Memory(w))
  /\ pc' = [pc EXCEPT ![w] = "readDisk"]
  /\ UNCHANGED <<now, reset, mem, disk, slug, read, page, found, answer,
                 calledAt, failed, clean, limits>>

(* readDisk: a missing or torn file does not decode. *)

ReadDisk(w) ==
  /\ pc[w] = "readDisk"
  /\ read' = [read EXCEPT ![w] =
       IF Home[w] \in CacheDir /\ disk[slug[w]] \in Entry THEN disk[slug[w]] ELSE NoEntry]
  /\ pc' = [pc EXCEPT ![w] = "judge"]
  /\ UNCHANGED <<now, reset, mem, disk, slug, page, found, answer, calledAt,
                 failed, clean, limits>>

DiskHit(w) ==
  /\ pc[w] = "judge"
  /\ Fresh(read[w])
  /\ mem' = [mem EXCEPT ![Home[w]][slug[w]] = read[w]]
  /\ answer' = [answer EXCEPT ![w] = read[w]]
  /\ pc' = [pc EXCEPT ![w] = "done"]
  /\ UNCHANGED <<now, reset, disk, slug, read, page, found, calledAt, failed,
                 clean, limits>>

DiskMiss(w) ==
  /\ pc[w] = "judge"
  /\ ~Fresh(read[w])
  /\ pc' = [pc EXCEPT ![w] = "fetch"]
  /\ UNCHANGED <<now, reset, mem, disk, slug, read, page, found, answer,
                 calledAt, failed, clean, limits>>

(* fetch: the API unless it is known to refuse.  The test is one section   *)
(* under the mutex and the request comes after it.                         *)
Limited(w) == now < limitedUntil[Home[w]]

AskAPI(w) ==
  /\ pc[w] = "fetch"
  /\ ~Limited(w)
  /\ pc' = [pc EXCEPT ![w] = "api"]
  /\ page' = [page EXCEPT ![w] = 1]
  /\ UNCHANGED <<now, reset, mem, disk, slug, read, found, answer, calledAt,
                 failed, clean, limits>>

AskFeedLater(w) == \* mutant: waits for the window to end
  /\ pc[w] = "fetch"
  /\ Limited(w)
  /\ now >= reset
  /\ pc' = [pc EXCEPT ![w] = "feed"]
  /\ UNCHANGED <<now, reset, mem, disk, slug, read, page, found, answer,
                 calledAt, failed, clean, limits>>

AskFeed(w) ==
  /\ pc[w] = "fetch"
  /\ Limited(w)
  /\ pc' = [pc EXCEPT ![w] = "feed"]
  /\ UNCHANGED <<now, reset, mem, disk, slug, read, page, found, answer,
                 calledAt, failed, clean, limits>>

(* fetchAPI, one request.  A refusal carries the end of the window, or     *)
(* none.                                                                   *)
Refused(w) ==
  /\ pc[w] = "api"
  /\ now < reset
  /\ \E until \in {reset, 0} : header' = [header EXCEPT ![w] = until]
  /\ refusals' = [refusals EXCEPT ![w] = @ + 1]
  /\ pc' = [pc EXCEPT ![w] = "refused"]
  /\ UNCHANGED <<now, reset, mem, limitedUntil, disk, slug, read, page, found,
                 answer, calledAt, failed, clean, forgotten>>

(* What the answer says is stored under the mutex when the goroutine gets   *)
(* to it, over whatever was stored since: without an end, the window is a   *)
(* whole one from now on; with one of an earlier window, the limit is lost. *)
RecordForgotten(w) == \* mutant: the refusal is not remembered
  /\ pc[w] = "refused"
  /\ header' = [header EXCEPT ![w] = 0]
  /\ pc' = [pc EXCEPT ![w] = "feed"]
  /\ UNCHANGED <<now, reset, mem, limitedUntil, disk, slug, read, page, found,
                 answer, calledAt, failed, clean, refusals, forgotten>>

Record(w) ==
  /\ pc[w] = "refused"
  /\ limitedUntil' = [limitedUntil EXCEPT ![Home[w]] =
       IF header[w] = 0 THEN now + Window ELSE header[w]]
  /\ forgotten' = [forgotten EXCEPT ![Home[w]] =
       IF header[w] \in 1..(reset - 1) THEN @ + 1 ELSE @]
  /\ header' = [header EXCEPT ![w] = 0]
  /\ pc' = [pc EXCEPT ![w] = "feed"]
  /\ UNCHANGED <<now, reset, mem, disk, slug, read, page, found, answer,
                 calledAt, failed, clean, refusals>>

NextPage(w) ==
  /\ pc[w] = "api"
  /\ now >= reset
  /\ page[w] < Pages
  /\ page' = [page EXCEPT ![w] = @ + 1]
  /\ UNCHANGED <<now, reset, mem, disk, pc, slug, read, found, answer,
                 calledAt, failed, clean, limits>>

APIAnswers(w) ==
  /\ pc[w] = "api"
  /\ now >= reset
  /\ found' = [found EXCEPT ![w] = "api"]
  /\ pc' = [pc EXCEPT ![w] = "store"]
  /\ UNCHANGED <<now, reset, mem, disk, slug, read, page, answer, calledAt,
                 failed, clean, limits>>

FeedAnswers(w) ==
  /\ pc[w] = "feed"
  /\ found' = [found EXCEPT ![w] = "feed"]
  /\ pc' = [pc EXCEPT ![w] = "store"]
  /\ UNCHANGED <<now, reset, mem, disk, slug, read, page, answer, calledAt,
                 failed, clean, limits>>

(* The network fails, the answer is an error, or the context is done: what *)
(* was on disk is returned, however old, or the error.                     *)
FetchFailsHard(w) == \* mutant: the stale cache is not returned
  /\ pc[w] \in {"api", "feed"}
  /\ failed' = failed \cup {w}
  /\ answer' = [answer EXCEPT ![w] = Failed]
  /\ pc' = [pc EXCEPT ![w] = "done"]
  /\ UNCHANGED <<now, reset, mem, disk, slug, read, page, found, calledAt,
                 clean, limits>>

FetchFails(w) ==
  /\ pc[w] \in {"api", "feed"}
  /\ failed' = failed \cup {w}
  /\ answer' = [answer EXCEPT ![w] = IF read[w] # NoEntry THEN read[w] ELSE Failed]
  /\ pc' = [pc EXCEPT ![w] = "done"]
  /\ UNCHANGED <<now, reset, mem, disk, slug, read, page, found, calledAt,
                 clean, limits>>

(* store: the memory under the mutex, then the file. *)
Store(w) ==
  /\ pc[w] = "store"
  /\ answer' = [answer EXCEPT ![w] = [at |-> now, source |-> found[w]]]
  /\ mem' = [mem EXCEPT ![Home[w]][slug[w]] = [at |-> now, source |-> found[w]]]
  /\ pc' = [pc EXCEPT ![w] = IF Home[w] \in CacheDir THEN "truncate" ELSE "done"]
  /\ UNCHANGED <<now, reset, disk, slug, read, page, found, calledAt, failed,
                 clean, limits>>

Spoiled(w) == {v \in Worker : slug[v] = slug[w]}

Truncate(w) ==
  /\ pc[w] = "truncate"
  /\ disk' = [disk EXCEPT ![slug[w]] = Torn]
  /\ clean' = clean \ Spoiled(w)
  /\ pc' = [pc EXCEPT ![w] = "write"]
  /\ UNCHANGED <<now, reset, mem, slug, read, page, found, answer, calledAt,
                 failed, limits>>

(* A file that somebody else has written since may keep its longer tail.   *)
(* Errors are ignored; a full disk leaves a file that does not decode.     *)
Write(w) ==
  /\ pc[w] = "write"
  /\ \E content \in {answer[w], Torn} : disk' = [disk EXCEPT ![slug[w]] = content]
  /\ clean' = clean \ Spoiled(w)
  /\ pc' = [pc EXCEPT ![w] = "done"]
  /\ UNCHANGED <<now, reset, mem, slug, read, page, found, answer, calledAt,
                 failed, limits>>

Return(w) ==
  /\ pc[w] = "done"
  /\ pc' = [pc EXCEPT ![w] = "idle"]
  /\ read' = [read EXCEPT ![w] = NoEntry]
  /\ answer' = [answer EXCEPT ![w] = NoEntry]
  /\ calledAt' = [calledAt EXCEPT ![w] = 0]
  /\ page' = [page EXCEPT ![w] = 1]
  /\ found' = [found EXCEPT ![w] = "api"]
  /\ failed' = failed \ {w}
  /\ clean' = clean \ {w}
  /\ UNCHANGED <<now, reset, mem, disk, slug, limits>>

-------------------------------------------------------------------------------
Step(w) ==
  \/ MemHit(w) \/ MemMiss(w)
  \/ ReadDisk(w) \/ DiskHit(w) \/ DiskMiss(w)
  \/ AskAPI(w) \/ AskFeed(w)
  \/ Refused(w) \/ Record(w) \/ NextPage(w) \/ APIAnswers(w) \/ FeedAnswers(w) \/ FetchFails(w)
  \/ Store(w) \/ Truncate(w) \/ Write(w)

Next ==
  \/ Tick
  \/ Exhaust
  \/ \E p \in Process : Restart(p)
  \/ \E w \in Worker : \/ \E s \in Slug : Call(w, s)
                       \/ Step(w)
                       \/ Return(w)

Spec == Init /\ [][Next]_vars

(* Goroutines are scheduled and every request ends (the HTTP client's      *)
(* timeout of 20s).  Processes need not restart and callers need not call. *)
FairSpec == Spec /\ \A w \in Worker : WF_vars(Step(w))

-------------------------------------------------------------------------------
TypeOK ==
  /\ now \in Nat /\ reset \in Nat
  /\ mem \in [Process -> [Slug -> Entry \cup {NoEntry}]]
  /\ limitedUntil \in [Process -> Nat]
  /\ disk \in [Slug -> Entry \cup {NoEntry, Torn}]
  /\ pc \in [Worker -> {"idle", "check", "readDisk", "judge", "fetch", "api",
                        "refused", "feed", "store", "truncate", "write", "done"}]
  /\ slug \in [Worker -> Slug]
  /\ read \in [Worker -> Entry \cup {NoEntry}]
  /\ page \in [Worker -> 1..Pages]
  /\ found \in [Worker -> {"api", "feed"}]
  /\ answer \in [Worker -> Entry \cup {NoEntry, Failed}]
  /\ calledAt \in [Worker -> Nat]
  /\ failed \subseteq Worker /\ clean \subseteq Worker
  /\ header \in [Worker -> Nat]
  /\ refusals \in [Worker -> Nat]
  /\ forgotten \in [Process -> Nat]

(* An answer is younger than the TTL when the call is made, unless GitHub  *)
(* has failed this very call: neither another process's file nor another   *)
(* goroutine's entry makes a call return old releases silently.            *)
FreshUnlessUnreachable ==
  \A w \in Worker :
    (pc[w] = "done" /\ w \notin failed) =>
      answer[w] \in Entry /\ answer[w].at + TTL > calledAt[w]

(* A repository whose file was whole all through the call never yields an  *)
(* error, whatever GitHub does and however old the file is.                *)
KnownNeverFails ==
  \A w \in Worker : (pc[w] = "done" /\ answer[w] = Failed) => w \notin clean

(* What one process has put on disk within the TTL spares every other one  *)
(* the request: nobody is at GitHub who found a whole, fresh file.         *)
FreshFileSpares ==
  \A w \in Worker :
    (pc[w] \in {"fetch", "api", "refused", "feed", "store"} /\ w \in clean) =>
      disk[slug[w]].at + TTL <= now

(* A goroutine runs into the API's limit once in a window, and once more   *)
(* for each time its process has lost the limit: those that passed the     *)
(* test before the limit was known may each be refused, but only a restart *)
(* and a refusal of the window before, recorded late, let them try again.  *)
FewRefusals == \A w \in Worker : refusals[w] <= 1 + forgotten[Home[w]]

(* Every call returns or dies with its process, though GitHub may refuse,  *)
(* fail, and be limited for ever.                                          *)
EveryCallReturns == \A w \in Worker : pc[w] # "idle" ~> pc[w] \in {"done", "idle"}

===============================================================================
