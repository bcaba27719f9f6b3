---------------------------- MODULE UpstreamCache ----------------------------
(***************************************************************************)
(* The upstream cache of service.Service and the calls that fill it:       *)
(* Input (releases, then inventories, then upstreamFor over the names in   *)
(* both) and CachedInput, which the metrics read.                          *)
(*                                                                         *)
(* upstreamFor has no single flight: each caller that finds the cache      *)
(* missing, expired or without one of its names asks upstream itself and   *)
(* stores what it got, whoever stored meanwhile.  The inventory cache is   *)
(* the register it is shown to be in InventoryCache: a call sees one       *)
(* snapshot, the last or one it caused.  What upstream.Client answers is   *)
(* a list or an error (UpstreamClient).  Time is the one bit the code      *)
(* looks at, whether the entry has outlived the TTL.                       *)
(***************************************************************************)
EXTENDS Naturals, FiniteSets

CONSTANTS
  Caller,       \* goroutines that call Input: requests, ticker, warm-up
  Request,      \* the callers whose client may go away
  Component,    \* names of components
  Tracked,      \* those whose definition in the catalog has an upstream
  Platforms,    \* what the environments may run together, as sets of names
  Pinned,       \* what the release files may pin together, as sets of names
  Concurrency,  \* upstreamConcurrency
  MaxChanges,   \* bound: changes of what runs and of the release files
  MaxFailures,  \* bound: upstream errors and clients that go away
  Unreadable,   \* the release files cannot be read
  NoInventory,  \* nil: nothing was discovered
  NoFetch       \* nil: nothing was fetched

ASSUME CallerAssumption == Request \subseteq Caller
ASSUME NameAssumption ==
  /\ Tracked \subseteq Component
  /\ Platforms \subseteq SUBSET Component
  /\ Pinned \subseteq SUBSET Component
  /\ IsFiniteSet(Component)
ASSUME BoundAssumption ==
  /\ Concurrency \in Nat \ {0}
  /\ MaxChanges \in Nat
  /\ MaxFailures \in Nat
ASSUME NilAssumption ==
  /\ \A names \in SUBSET Component : names # Unreadable /\ names # NoInventory
  /\ NoFetch \notin [ups : SUBSET Component, errs : SUBSET Component]

VARIABLES
  online,    \* Service.upstream is not nil
  running,   \* what the environments run
  released,  \* what the release files pin, or Unreadable
  changes,   \* how often the last two changed
  invs,      \* Service.invs: the names in it
  cache,     \* Service.ups and upsErrs: the names in each
  expired,   \* time.Since(s.upsAt) >= s.ttl
  failures,  \* how much has failed
  cancelled, \* callers whose context is done
  pc,        \* where each caller is
  call,      \* refresh, and the releases and inventories the call has read
  fetch,     \* the goroutine of each caller and component
  answer     \* the Upstream and UpstreamErrors each call returns

world == <<online, running, released, changes>>
vars == <<world, invs, cache, expired, failures, cancelled, pc, call, fetch, answer>>

Nothing == [ups |-> {}, errs |-> {}]
NoCall == [refresh |-> FALSE, rels |-> {}, invs |-> {}]
Idle == [n \in Component |-> "none"]

Names(c) == call[c].rels \cup call[c].invs

Init ==
  /\ online \in BOOLEAN
  /\ running \in Platforms
  /\ released \in Pinned
  /\ changes = 0
  /\ invs = NoInventory
  /\ cache = NoFetch
  /\ expired = FALSE
  /\ failures = 0
  /\ cancelled = {}
  /\ pc = [c \in Caller |-> "idle"]
  /\ call = [c \in Caller |-> NoCall]
  /\ fetch = [c \in Caller |-> Idle]
  /\ answer = [c \in Caller |-> Nothing]

-------------------------------------------------------------------------------
(* The environment: components come and go, release files are edited, time *)
(* passes, clients go away.                                                *)
Deploy ==
  /\ changes < MaxChanges
  /\ running' \in Platforms \ {running}
  /\ changes' = changes + 1
  /\ UNCHANGED <<online, released, invs, cache, expired, failures, cancelled, pc, call, fetch, answer>>

EditReleases ==
  /\ changes < MaxChanges
  /\ released' \in (Pinned \cup {Unreadable}) \ {released}
  /\ changes' = changes + 1
  /\ UNCHANGED <<online, running, invs, cache, expired, failures, cancelled, pc, call, fetch, answer>>

Expire ==
  /\ cache # NoFetch
  /\ ~expired
  /\ expired' = TRUE
  /\ UNCHANGED <<world, invs, cache, failures, cancelled, pc, call, fetch, answer>>

Cancel(c) ==
  /\ c \in Request \ cancelled
  /\ pc[c] \in {"inventories", "check", "fetch"}
  /\ failures < MaxFailures
  /\ failures' = failures + 1
  /\ cancelled' = cancelled \cup {c}
  /\ UNCHANGED <<world, invs, cache, expired, pc, call, fetch, answer>>

-------------------------------------------------------------------------------
(* Input reads the releases first; unreadable ones end the call.           *)
Begin(c, refresh) ==
  /\ pc[c] = "idle"
  /\ released # Unreadable
  /\ call' = [call EXCEPT ![c] = [refresh |-> refresh, rels |-> released, invs |-> {}]]
  /\ pc' = [pc EXCEPT ![c] = "inventories"]
  /\ UNCHANGED <<world, invs, cache, expired, failures, cancelled, fetch, answer>>

Refuse(c) ==
  /\ pc[c] = "idle"
  /\ released = Unreadable
  /\ pc' = [pc EXCEPT ![c] = "refused"]
  /\ UNCHANGED <<world, invs, cache, expired, failures, cancelled, call, fetch, answer>>

(* Inventories: what is cached, or a discovery that ends now.              *)
Collect(c) ==
  /\ pc[c] = "inventories"
  /\ invs' \in {running} \cup ({invs} \ {NoInventory})
  /\ call' = [call EXCEPT ![c].invs = invs']
  /\ pc' = [pc EXCEPT ![c] = "check"]
  /\ UNCHANGED <<world, cache, expired, failures, cancelled, fetch, answer>>

(* --no-upstream.                                                          *)
Offline(c) ==
  /\ pc[c] = "check"
  /\ ~online
  /\ answer' = [answer EXCEPT ![c] = Nothing]
  /\ pc' = [pc EXCEPT ![c] = "done"]
  /\ UNCHANGED <<world, invs, cache, expired, failures, cancelled, call, fetch>>

(* covers: a list or an error for every name that can be asked for.        *)
Covers(entry, names) == names \cap Tracked \subseteq entry.ups \cup entry.errs

UsableUncovered(c) == \* mutant: whatever was fetched will do
  /\ ~call[c].refresh
  /\ cache # NoFetch
  /\ ~expired
UsableForever(c) == \* mutant: the entry has no TTL
  /\ ~call[c].refresh
  /\ cache # NoFetch
  /\ Covers(cache, Names(c))
Usable(c) ==
  /\ ~call[c].refresh
  /\ cache # NoFetch
  /\ ~expired
  /\ Covers(cache, Names(c))

FastPath(c) ==
  /\ pc[c] = "check"
  /\ online
  /\ Usable(c)
  /\ answer' = [answer EXCEPT ![c] = cache]
  /\ pc' = [pc EXCEPT ![c] = "done"]
  /\ UNCHANGED <<world, invs, cache, expired, failures, cancelled, call, fetch>>

Spawn(c) ==
  /\ pc[c] = "check"
  /\ online
  /\ ~Usable(c)
  /\ fetch' = [fetch EXCEPT ![c] =
                 [n \in Component |-> IF n \in Names(c) \cap Tracked THEN "queued" ELSE "none"]]
  /\ pc' = [pc EXCEPT ![c] = "fetch"]
  /\ UNCHANGED <<world, invs, cache, expired, failures, cancelled, call, answer>>

-------------------------------------------------------------------------------
(* The goroutines of one fetch; sem admits a few of them at a time.        *)
In(c, state) == {n \in Component : fetch[c][n] = state}

HoldingTilError(c) == In(c, "asking") \cup In(c, "error") \* mutant: an error keeps its slot
Holding(c) == In(c, "asking")

Ask(c, n) ==
  /\ fetch[c][n] = "queued"
  /\ Cardinality(Holding(c)) < Concurrency
  /\ fetch' = [fetch EXCEPT ![c][n] = "asking"]
  /\ UNCHANGED <<world, invs, cache, expired, failures, cancelled, pc, call, answer>>

Answered(c, n) ==
  /\ fetch[c][n] = "asking"
  /\ c \notin cancelled
  /\ fetch' = [fetch EXCEPT ![c][n] = "list"]
  /\ UNCHANGED <<world, invs, cache, expired, failures, cancelled, pc, call, answer>>

(* Upstream fails, or the client of the call has gone away.                *)
Failed(c, n) ==
  /\ fetch[c][n] = "asking"
  /\ \/ c \in cancelled /\ failures' = failures
     \/ c \notin cancelled /\ failures < MaxFailures /\ failures' = failures + 1
  /\ fetch' = [fetch EXCEPT ![c][n] = "error"]
  /\ UNCHANGED <<world, invs, cache, expired, cancelled, pc, call, answer>>

(* All goroutines have ended: the last to come replaces what is cached.    *)
Result(c) == [ups |-> In(c, "list"), errs |-> In(c, "error")]

Publish(c) ==
  /\ pc[c] = "fetch"
  /\ In(c, "queued") \cup In(c, "asking") = {}
  /\ cache' = Result(c)
  /\ expired' = FALSE
  /\ answer' = [answer EXCEPT ![c] = Result(c)]
  /\ fetch' = [fetch EXCEPT ![c] = Idle]
  /\ pc' = [pc EXCEPT ![c] = "done"]
  /\ UNCHANGED <<world, invs, failures, cancelled, call>>

Return(c) ==
  /\ pc[c] \in {"done", "refused"}
  /\ pc' = [pc EXCEPT ![c] = "idle"]
  /\ call' = [call EXCEPT ![c] = NoCall]
  /\ answer' = [answer EXCEPT ![c] = Nothing]
  /\ cancelled' = cancelled \ {c}
  /\ UNCHANGED <<world, invs, cache, expired, failures, fetch>>

-------------------------------------------------------------------------------
Goroutine(c) == \E n \in Component : Ask(c, n) \/ Answered(c, n) \/ Failed(c, n)

Invoke(c) == Refuse(c) \/ \E refresh \in BOOLEAN : Begin(c, refresh)

Step(c) == Collect(c) \/ Offline(c) \/ FastPath(c) \/ Spawn(c) \/ Publish(c) \/ Return(c)

Next ==
  \/ Deploy
  \/ EditReleases
  \/ Expire
  \/ \E c \in Caller : Cancel(c) \/ Invoke(c) \/ Step(c) \/ Goroutine(c)

Spec == Init /\ [][Next]_vars

(* Calls and upstream requests end (the client has a timeout) and time     *)
(* passes.  Somebody keeps calling, with or without refresh: the ticker,   *)
(* or a page that is opened now and then.  Other clients may never return. *)
Fairness ==
  /\ WF_vars(Expire)
  /\ \A c \in Caller \ Request : WF_vars(Invoke(c))
  /\ \A c \in Caller :
       /\ WF_vars(Step(c))
       /\ WF_vars(Goroutine(c))

FairSpec == Spec /\ Fairness

-------------------------------------------------------------------------------
Entry == [ups : SUBSET Component, errs : SUBSET Component]

TypeOK ==
  /\ online \in BOOLEAN
  /\ running \in SUBSET Component
  /\ released # Unreadable => released \in SUBSET Component
  /\ changes \in 0..MaxChanges
  /\ invs # NoInventory => invs \in SUBSET Component
  /\ cache \in Entry \cup {NoFetch}
  /\ expired \in BOOLEAN
  /\ failures \in 0..MaxFailures
  /\ cancelled \subseteq Request
  /\ pc \in [Caller -> {"idle", "inventories", "check", "fetch", "done", "refused"}]
  /\ call \in [Caller -> [refresh : BOOLEAN, rels : SUBSET Component, invs : SUBSET Component]]
  /\ fetch \in [Caller -> [Component -> {"none", "queued", "asking", "list", "error"}]]
  /\ answer \in [Caller -> Entry]

(* The analysis finds, for every component of the inventories and releases *)
(* it is given that has an upstream, either its releases or why there are  *)
(* none (service.go:464-485), although other calls with other names        *)
(* replace the cache meanwhile; and never both.                            *)
Decided(entry, names) ==
  /\ entry.ups \cap entry.errs = {}
  /\ Covers(entry, names)

AnswerDecides ==
  \A c \in Caller : pc[c] = "done" /\ online => Decided(answer[c], Names(c))

(* CachedInput (service.go:326-342) combines two caches filled apart.      *)
CachedInput ==
  [ok |-> released # Unreadable /\ invs # NoInventory,
   rels |-> released, invs |-> invs, upstream |-> cache]

(* What the metrics see is complete and free of errors again some time     *)
(* after the last change and the last failure: a fetch for older names     *)
(* that ends last, an error kept as an answer, or the errors a client that *)
(* went away leaves to everyone do not stay.                               *)
Recovered ==
  /\ CachedInput.upstream # NoFetch
  /\ Covers(CachedInput.upstream, CachedInput.rels \cup CachedInput.invs)
  /\ CachedInput.upstream.errs = {}

CachedInputRecovers == online => <>[](CachedInput.ok => Recovered)

(* Every call of Input returns: goroutines waiting for a slot get one.     *)
EveryInputReturns == \A c \in Caller : pc[c] = "inventories" ~> pc[c] = "done"
===============================================================================
