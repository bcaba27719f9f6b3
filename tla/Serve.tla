-------------------------------- MODULE Serve --------------------------------
(***************************************************************************)
(* pbom serve: the two pointers that a configuration is swapped with, the  *)
(* goroutines around them: a warm-up per service, the landscape refresh,   *)
(* the refresh ticker and HTTP requests.                                   *)
(*                                                                         *)
(* All goroutines call the inventory cache of the service they loaded.  It *)
(* appears here with what they contend for: its mutex, the age of its      *)
(* inventories, and the landscape their Helm charts were named with.       *)
(* Where configurations come from, and which are refused, is ConfigWatch   *)
(* and Operator; a failing discovery is InventoryCache; upstream is        *)
(* UpstreamCache.                                                          *)
(***************************************************************************)
EXTENDS Naturals

CONSTANTS
  Request,  \* HTTP connections
  Ticker,   \* the goroutine of --refresh-interval
  Download, \* the goroutine of --landscape-url
  Modes,    \* the calls considered: "cached", "read", "refresh", "inventory"
  MaxLoads, \* bound: configurations loaded
  MaxEdits, \* bound: edits of the release files
  Nil,      \* nothing was discovered
  Free      \* a mutex is free

ASSUME ModeAssumption == Modes \subseteq {"cached", "read", "refresh", "inventory"}
ASSUME BoundAssumption == MaxLoads \in Nat /\ MaxEdits \in Nat

(* A service is the number of its load; 0 is a nil pointer. The goroutine  *)
(* that use starts for a service has the service's number.                 *)
Service == 1..MaxLoads
Goroutine == Service \cup Request \cup {Ticker, Download}

ASSUME GoroutineAssumption ==
  /\ Ticker # Download
  /\ Request \cap (Service \cup {Ticker, Download}) = {}
  /\ {Ticker, Download} \cap Service = {}
  /\ Free \notin Goroutine

Inventories == [source : {"snapshot", "url"}, recent : BOOLEAN]
ASSUME NilAssumption == Nil \notin Inventories

VARIABLES
  readable, \* the release files can be read
  edits,    \* how often that changed
  source,   \* landscape.Source()
  loads,    \* services made so far
  current,  \* the atomic pointer to the service
  handler,  \* the atomic pointer to the handler, by its service
  invs,     \* Service.invs of each service; recent: of the last second
  mu,       \* Service.refreshMu of each service
  pc,       \* where each goroutine is
  call,     \* the service each goroutine loaded, its call, what it matched with
  up        \* the process runs

pointers == <<loads, current, handler>>
files == <<readable, edits>>
caches == <<invs, mu>>
serveVars == <<files, source, pointers, caches, pc, call, up>>

NoCall == [svc |-> 0, mode |-> "read", source |-> "snapshot"]

(* The interesting start: nothing can be read yet.                         *)
ServeInit ==
  /\ readable = FALSE
  /\ edits = 0
  /\ source = "snapshot"
  /\ loads = 0
  /\ current = 0
  /\ handler = 0
  /\ invs = [s \in Service |-> Nil]
  /\ mu = [s \in Service |-> Free]
  /\ pc = [g \in Goroutine |-> IF g = Download THEN "download" ELSE "idle"]
  /\ call = [g \in Goroutine |-> NoCall]
  /\ up = TRUE

-------------------------------------------------------------------------------
EditReleases ==
  /\ up
  /\ edits < MaxEdits
  /\ edits' = edits + 1
  /\ readable' = ~readable
  /\ UNCHANGED <<source, pointers, caches, pc, call, up>>

(* The coalescing second passes; the TTL may pass at any time after it. It *)
(* does not matter to a service nobody uses any more.                      *)
Elapse(s) ==
  /\ up
  /\ s = current \/ \E g \in Goroutine : call[g].svc = s
  /\ invs[s] # Nil
  /\ invs[s].recent
  /\ invs' = [invs EXCEPT ![s].recent = FALSE]
  /\ UNCHANGED <<files, source, pointers, mu, pc, call, up>>

-------------------------------------------------------------------------------
(* use, called by one goroutine at a time: the service, then its handler,  *)
(* then a goroutine that fills the cache.                                  *)
StoreHandlerFirst == \* mutant: the pointers are stored in the other order
  /\ up
  /\ current = handler /\ loads < MaxLoads
  /\ loads' = loads + 1
  /\ handler' = loads'
  /\ UNCHANGED <<files, source, current, caches, pc, call, up>>
StoreCurrent ==
  /\ up
  /\ current = handler /\ loads < MaxLoads
  /\ loads' = loads + 1
  /\ current' = loads'
  /\ UNCHANGED <<files, source, handler, caches, pc, call, up>>

Start(g, s, mode) ==
  /\ pc' = [pc EXCEPT ![g] = "check"]
  /\ call' = [call EXCEPT ![g] = [svc |-> s, mode |-> mode, source |-> "snapshot"]]

StoreHandler ==
  /\ up
  /\ current # handler
  /\ handler' = current
  /\ Start(current, current, "read")
  /\ UNCHANGED <<files, source, loads, current, caches, up>>

(* The ticker loads the service at each tick; without one it does nothing. *)
TickFirst == \* mutant: keeps the service it saw first
  /\ up
  /\ pc[Ticker] = "idle"
  /\ current # 0
  /\ Start(Ticker, 1, "refresh")
  /\ UNCHANGED <<files, source, pointers, caches, up>>
Tick ==
  /\ up
  /\ pc[Ticker] = "idle"
  /\ current # 0
  /\ Start(Ticker, current, "refresh")
  /\ UNCHANGED <<files, source, pointers, caches, up>>

(* The landscape is downloaded once. Failure keeps the snapshot.           *)
Downloaded ==
  /\ up
  /\ pc[Download] = "download"
  /\ source' = "url"
  /\ pc' = [pc EXCEPT ![Download] = "load"]
  /\ UNCHANGED <<files, pointers, caches, call, up>>

DownloadFails ==
  /\ up
  /\ pc[Download] = "download"
  /\ pc' = [pc EXCEPT ![Download] = "idle"]
  /\ UNCHANGED <<files, source, pointers, caches, call, up>>

Rediscover ==
  /\ up
  /\ pc[Download] = "load"
  /\ \/ /\ current = 0
        /\ pc' = [pc EXCEPT ![Download] = "idle"]
        /\ UNCHANGED call
     \/ /\ current # 0
        /\ Start(Download, current, "refresh")
  /\ UNCHANGED <<files, source, pointers, caches, up>>

(* A request loads the handler once and stays with its service; without    *)
(* one it is told that the resources are not ready. matrix and updates     *)
(* call Input, the other pages drafted (the releases, then                 *)
(* CachedInventories), and inventory Inventories without the releases.     *)
Accept(r, mode) ==
  /\ up
  /\ pc[r] = "idle"
  /\ Start(r, handler, mode)
  /\ UNCHANGED <<files, source, pointers, caches, up>>

-------------------------------------------------------------------------------
(* One call of Input, drafted or Inventories, by any goroutine.            *)
Moves(g, from, to) ==
  /\ up
  /\ pc[g] = from
  /\ pc' = [pc EXCEPT ![g] = to]
  /\ UNCHANGED <<files, source, pointers, up>>

Ends(g, from) == Moves(g, from, "idle") /\ call' = [call EXCEPT ![g] = NoCall]

Own(g) == invs[call[g].svc]
Mutex(g) == mu[call[g].svc]

Refused(g) == call[g].mode # "inventory" /\ ~readable

Fresh(g) == Own(g) # Nil /\ Own(g).recent

(* Without a call to make, or with inventories that are still good.        *)
Answer(g) ==
  /\ Ends(g, "check")
  /\ IF call[g].svc = 0 \/ Refused(g) THEN TRUE ELSE call[g].mode # "refresh" /\ Own(g) # Nil
  /\ UNCHANGED caches

(* CachedInventories finds nothing: it goes on as Inventories, which looks *)
(* again and may find what another goroutine has published meanwhile.      *)
CachedMiss(g) ==
  /\ Moves(g, "check", "check")
  /\ call[g].svc # 0
  /\ ~Refused(g)
  /\ call[g].mode = "cached" /\ Own(g) = Nil
  /\ call' = [call EXCEPT ![g].mode = "inventory"]
  /\ UNCHANGED caches

Queue(g) ==
  /\ Moves(g, "check", "lock")
  /\ call[g].svc # 0
  /\ ~Refused(g)
  /\ call[g].mode = "refresh" \/ (call[g].mode # "cached" /\ ~Fresh(g))
  /\ UNCHANGED <<caches, call>>

(* Under the mutex: inventories of the last second will do.                *)
Coalesce(g) ==
  /\ Ends(g, "lock")
  /\ Mutex(g) = Free
  /\ Fresh(g)
  /\ UNCHANGED caches

Discover(g) ==
  /\ Moves(g, "lock", "discover")
  /\ Mutex(g) = Free
  /\ ~Fresh(g)
  /\ mu' = [mu EXCEPT ![call[g].svc] = g]
  /\ call' = [call EXCEPT ![g].source = source]
  /\ UNCHANGED invs

(* Charts are named with the landscape of some moment in between.          *)
Publish(g) ==
  /\ Ends(g, "discover")
  /\ \E matched \in {call[g].source, source} :
       invs' = [invs EXCEPT ![call[g].svc] = [source |-> matched, recent |-> TRUE]]
  /\ mu' = [mu EXCEPT ![call[g].svc] = Free]

-------------------------------------------------------------------------------
(* The process ends: a signal, or a listener or the operator failed. What  *)
(* it had in memory is gone.                                               *)
Exit ==
  /\ up
  /\ up' = FALSE
  /\ pc' = [g \in Goroutine |-> "idle"]
  /\ call' = [g \in Goroutine |-> NoCall]
  /\ invs' = [s \in Service |-> Nil]
  /\ mu' = [s \in Service |-> Free]
  /\ source' = "snapshot"
  /\ loads' = 0 /\ current' = 0 /\ handler' = 0
  /\ UNCHANGED files

-------------------------------------------------------------------------------
Lock(g) == Coalesce(g) \/ Discover(g)
Step(g) == Answer(g) \/ CachedMiss(g) \/ Queue(g) \/ Publish(g)
Landscape == Downloaded \/ DownloadFails \/ Rediscover

ServeNext ==
  \/ EditReleases
  \/ \E s \in Service : Elapse(s)
  \/ StoreCurrent
  \/ StoreHandler
  \/ Tick
  \/ Landscape
  \/ \E r \in Request, mode \in Modes : Accept(r, mode)
  \/ \E g \in Goroutine : Lock(g) \/ Step(g)
  \/ Exit

ServeSpec == ServeInit /\ [][ServeNext]_serveVars

(* Goroutines are scheduled, the requests of a discovery end, the ticker   *)
(* ticks and time passes; a Go mutex is handed to whoever waits longest.   *)
ServeFairness ==
  /\ \A s \in Service : WF_serveVars(Elapse(s))
  /\ WF_serveVars(StoreHandler)
  /\ WF_serveVars(Tick)
  /\ WF_serveVars(Landscape)
  /\ \A g \in Goroutine : WF_serveVars(Step(g)) /\ SF_serveVars(Lock(g))

ServeFairSpec == ServeSpec /\ ServeFairness

-------------------------------------------------------------------------------
(* Only a request goes on without a service.                               *)
ServeTypeOK ==
  /\ readable \in BOOLEAN
  /\ edits \in 0..MaxEdits
  /\ source \in {"snapshot", "url"}
  /\ loads \in 0..MaxLoads
  /\ current \in 0..loads
  /\ handler \in 0..loads
  /\ invs \in [Service -> Inventories \cup {Nil}]
  /\ mu \in [Service -> Goroutine \cup {Free}]
  /\ pc \in [Goroutine -> {"idle", "download", "load", "check", "lock", "discover"}]
  /\ call \in [Goroutine -> [svc : 0..MaxLoads, mode : {"cached", "read", "refresh", "inventory"},
                             source : {"snapshot", "url"}]]
  /\ up \in BOOLEAN
  /\ \A g \in Goroutine : pc[g] = "check" /\ call[g].svc = 0 => g \in Request

(* The metrics read one pointer (serve.go:157-163), requests the other     *)
(* (serve.go:145-147): a request is never served by a configuration newer  *)
(* than the one the metrics describe, and the newest handler is at most    *)
(* one configuration behind.                                               *)
NeverAhead ==
  /\ handler \in {current, current - 1}
  /\ \A g \in Goroutine : call[g].svc <= current

(* Once the configuration settles, what is served is warm although its     *)
(* warm-up may have failed on unreadable releases, and its charts were     *)
(* named with the downloaded landscape although the discovery which the    *)
(* download asks for (serve.go:115-123) may be coalesced with one that     *)
(* named them before.                                                      *)
CaughtUp ==
  /\ invs[handler] # Nil
  /\ source = "url" => invs[handler].source = "url"

ServedCatchesUp ==
  <>[](handler # 0 /\ readable /\ up => CaughtUp)
===============================================================================
