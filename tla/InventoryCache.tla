---------------------------- MODULE InventoryCache ----------------------------
(***************************************************************************)
(* The inventory cache of service.Service: Inventories, its fast path, the *)
(* refresh mutex that makes rediscovery single-flight, the goroutine per   *)
(* environment that discovers it, and CachedInventories in front of it.    *)
(*                                                                         *)
(* A caller is a goroutine that calls the cache again and again: an HTTP   *)
(* handler (its context dies with the client's connection), the refresh    *)
(* ticker, or the landscape refresher.  A section under Service.mu holds   *)
(* no blocking call and is one step; refreshMu is held across a discovery  *)
(* and is modelled as a lock.                                              *)
(*                                                                         *)
(* One tick of the clock is the second of the coalescing window            *)
(* (time.Since(s.invsAt) < time.Second); TTL counts the same ticks.        *)
(***************************************************************************)
EXTENDS Naturals

CONSTANTS
  Env,        \* the environments of the platform document
  Unreliable, \* the environments whose cluster may fail or be slow
  Caller,     \* goroutines that call the cache
  Request,    \* the callers whose context may be cancelled by their client
  Modes,      \* the calls considered: "cached", "read", "refresh"
  TTL,        \* Options.CacheTTL, in ticks
  MaxClock,   \* bound: the last tick
  NoSnapshot, \* nil: nothing has been discovered
  NoCaller    \* refreshMu is free

ASSUME EnvAssumption == Unreliable \subseteq Env
ASSUME CallerAssumption == Request \subseteq Caller /\ NoCaller \notin Caller
ASSUME ModeAssumption == Modes \subseteq {"cached", "read", "refresh"}
ASSUME ClockAssumption == TTL \in Nat \ {0} /\ MaxClock \in Nat

(* What discovery of one environment leaves behind: everything it asked    *)
(* for; a reached cluster some of whose sources failed (its components     *)
(* are missing and Errors says so); or only an error.                      *)
Inventory == [kind : {"full", "partial", "failed"}, collectedAt : Nat]

(* A published map. id and at are history: which publication it was, when. *)
Snapshot == [id : Nat \ {0}, at : Nat, inv : [Env -> Inventory]]
ASSUME SnapshotAssumption == NoSnapshot \notin Snapshot

VARIABLES
  now,       \* the clock
  invs,      \* Service.invs
  invsAt,    \* Service.invsAt
  refreshMu, \* Service.refreshMu: the caller holding it, or NoCaller
  pc,        \* where each caller is
  call,      \* each caller's current call: mode, and when it was made
  cancelled, \* the callers whose context is done
  work,      \* the discovery goroutines of each caller, per environment
  out,       \* the map each caller's discovery fills
  answer     \* what each caller returns

vars == <<now, invs, invsAt, refreshMu, pc, call, cancelled, work, out, answer>>

Number(snapshot) == IF snapshot = NoSnapshot THEN 0 ELSE snapshot.id

Published == Number(invs)

Age == now - invsAt

-------------------------------------------------------------------------------
NoInventory == [kind |-> "failed", collectedAt |-> 0]
NoCall == [mode |-> "read", at |-> 0, seen |-> 0]

Init ==
  /\ now = 0
  /\ invs = NoSnapshot
  /\ invsAt = 0
  /\ refreshMu = NoCaller
  /\ pc = [c \in Caller |-> "idle"]
  /\ call = [c \in Caller |-> NoCall]
  /\ cancelled = {}
  /\ work = [c \in Caller |-> [e \in Env |-> "none"]]
  /\ out = [c \in Caller |-> [e \in Env |-> NoInventory]]
  /\ answer = [c \in Caller |-> NoSnapshot]

Tick ==
  /\ now < MaxClock
  /\ now' = now + 1
  /\ UNCHANGED <<invs, invsAt, refreshMu, pc, call, cancelled, work, out, answer>>

(* A call arrives. `seen' is history: the last publication at that moment. *)
Invoke(c, m) ==
  /\ pc[c] = "idle"
  /\ pc' = [pc EXCEPT ![c] = IF m = "cached" THEN "cachedCheck" ELSE "check"]
  /\ call' = [call EXCEPT ![c] = [mode |-> m, at |-> now, seen |-> Published]]
  /\ UNCHANGED <<now, invs, invsAt, refreshMu, cancelled, work, out, answer>>

(* The client of a request goes away while the request is being served.    *)
Cancel(c) ==
  /\ c \in Request \ cancelled
  /\ pc[c] \notin {"idle", "done"}
  /\ cancelled' = cancelled \cup {c}
  /\ UNCHANGED <<now, invs, invsAt, refreshMu, pc, call, work, out, answer>>

(* CachedInventories: the last snapshot whatever its age, else Inventories. *)

CachedHit(c) ==
  /\ pc[c] = "cachedCheck"
  /\ invs # NoSnapshot
  /\ answer' = [answer EXCEPT ![c] = invs]
  /\ pc' = [pc EXCEPT ![c] = "done"]
  /\ UNCHANGED <<now, invs, invsAt, refreshMu, call, cancelled, work, out>>

CachedMiss(c) ==
  /\ pc[c] = "cachedCheck"
  /\ invs = NoSnapshot
  /\ pc' = [pc EXCEPT ![c] = "check"]
  /\ UNCHANGED <<now, invs, invsAt, refreshMu, call, cancelled, work, out, answer>>

(* The fast path, under the read lock. *)
UsableForAll(c) == invs # NoSnapshot /\ Age < TTL \* mutant: ignores refresh

Usable(c) == call[c].mode # "refresh" /\ invs # NoSnapshot /\ Age < TTL

FastPath(c) ==
  /\ pc[c] = "check"
  /\ Usable(c)
  /\ answer' = [answer EXCEPT ![c] = invs]
  /\ pc' = [pc EXCEPT ![c] = "done"]
  /\ UNCHANGED <<now, invs, invsAt, refreshMu, call, cancelled, work, out>>

SlowPath(c) ==
  /\ pc[c] = "check"
  /\ ~Usable(c)
  /\ pc' = [pc EXCEPT ![c] = "lock"]
  /\ UNCHANGED <<now, invs, invsAt, refreshMu, call, cancelled, work, out, answer>>

LockShared(c) == \* mutant: refreshMu does not exclude
  /\ pc[c] = "lock"
  /\ refreshMu' = c
  /\ pc' = [pc EXCEPT ![c] = "recheck"]
  /\ UNCHANGED <<now, invs, invsAt, call, cancelled, work, out, answer>>

Lock(c) ==
  /\ pc[c] = "lock"
  /\ refreshMu = NoCaller
  /\ refreshMu' = c
  /\ pc' = [pc EXCEPT ![c] = "recheck"]
  /\ UNCHANGED <<now, invs, invsAt, call, cancelled, work, out, answer>>

(* Did somebody publish within the last second?  If so the snapshot is     *)
(* taken by the next step, which reads s.invs without the read lock.       *)
FreshAlways == invs # NoSnapshot  \* mutant: no coalescing window
FreshNever == FALSE                \* mutant: no second check under the mutex

Fresh == invs # NoSnapshot /\ Age < 1

Coalesce(c) ==
  /\ pc[c] = "recheck"
  /\ Fresh
  /\ pc' = [pc EXCEPT ![c] = "reread"]
  /\ UNCHANGED <<now, invs, invsAt, refreshMu, call, cancelled, work, out, answer>>

Spawn(c) ==
  /\ pc[c] = "recheck"
  /\ ~Fresh
  /\ pc' = [pc EXCEPT ![c] = "discover"]
  /\ work' = [work EXCEPT ![c] = [e \in Env |-> "spawned"]]
  /\ UNCHANGED <<now, invs, invsAt, refreshMu, call, cancelled, out, answer>>

RereadLocked(c) == \* mutant: returns without releasing refreshMu
  /\ pc[c] = "reread"
  /\ answer' = [answer EXCEPT ![c] = invs]
  /\ pc' = [pc EXCEPT ![c] = "done"]
  /\ UNCHANGED <<now, invs, invsAt, refreshMu, call, cancelled, work, out>>

Reread(c) ==
  /\ pc[c] = "reread"
  /\ answer' = [answer EXCEPT ![c] = invs]
  /\ refreshMu' = NoCaller
  /\ pc' = [pc EXCEPT ![c] = "done"]
  /\ UNCHANGED <<now, invs, invsAt, call, cancelled, work, out>>

-------------------------------------------------------------------------------
(* The goroutine that discovers environment e for caller c: Discover       *)
(* stamps CollectedAt and then asks the cluster.                           *)
Collect(c, e) ==
  /\ work[c][e] = "spawned"
  /\ work' = [work EXCEPT ![c][e] = "running"]
  /\ out' = [out EXCEPT ![c][e] = [kind |-> "full", collectedAt |-> now]]
  /\ UNCHANGED <<now, invs, invsAt, refreshMu, pc, call, cancelled, answer>>

(* The outcomes the goroutine can end with. It runs under the caller's own *)
(* context, so a cancelled caller may leave the sources after the version  *)
(* probe (which ignores the context) unread. An unreliable cluster may     *)
(* lose a source or be unreachable, and the two-minute timeout turns a     *)
(* silent one into either.                                                 *)

Outcomes(c, e) ==
  {"full"}
    \cup (IF c \in cancelled THEN {"partial"} ELSE {})
    \cup (IF e \in Unreliable THEN {"partial", "failed"} ELSE {})

Finish(c, e) ==
  /\ work[c][e] = "running"
  /\ \E k \in Outcomes(c, e) :
       out' = [out EXCEPT ![c][e] =
                 [kind |-> k,
                  collectedAt |-> IF k = "failed" THEN now ELSE @.collectedAt]]
  /\ work' = [work EXCEPT ![c][e] = "done"]
  /\ UNCHANGED <<now, invs, invsAt, refreshMu, pc, call, cancelled, answer>>

AllDone(c) == \A e \in Env : work[c][e] = "done"

(* wg.Wait has returned: publish the map and make it the caller's answer.  *)
PublishOld(c) == \* mutant: returns the map it has just replaced
  /\ pc[c] = "discover"
  /\ AllDone(c)
  /\ invs' = [id |-> Published + 1, at |-> now, inv |-> out[c]]
  /\ invsAt' = now
  /\ answer' = [answer EXCEPT ![c] = invs]
  /\ work' = [work EXCEPT ![c] = [e \in Env |-> "none"]]
  /\ out' = [out EXCEPT ![c] = [e \in Env |-> NoInventory]]
  /\ pc' = [pc EXCEPT ![c] = "unlock"]
  /\ UNCHANGED <<now, refreshMu, call, cancelled>>

Publish(c) ==
  /\ pc[c] = "discover"
  /\ AllDone(c)
  /\ invs' = [id |-> Published + 1, at |-> now, inv |-> out[c]]
  /\ invsAt' = now
  /\ answer' = [answer EXCEPT ![c] = invs']
  /\ work' = [work EXCEPT ![c] = [e \in Env |-> "none"]]
  /\ out' = [out EXCEPT ![c] = [e \in Env |-> NoInventory]]
  /\ pc' = [pc EXCEPT ![c] = "unlock"]
  /\ UNCHANGED <<now, refreshMu, call, cancelled>>

Unlock(c) ==
  /\ pc[c] = "unlock"
  /\ refreshMu' = NoCaller
  /\ pc' = [pc EXCEPT ![c] = "done"]
  /\ UNCHANGED <<now, invs, invsAt, call, cancelled, work, out, answer>>

(* The caller has used its answer and may call again, in a new context.    *)
Return(c) ==
  /\ pc[c] = "done"
  /\ pc' = [pc EXCEPT ![c] = "idle"]
  /\ call' = [call EXCEPT ![c] = NoCall]
  /\ cancelled' = cancelled \ {c}
  /\ answer' = [answer EXCEPT ![c] = NoSnapshot]
  /\ UNCHANGED <<now, invs, invsAt, refreshMu, work, out>>

-------------------------------------------------------------------------------
Step(c) ==
  \/ CachedHit(c) \/ CachedMiss(c)
  \/ FastPath(c) \/ SlowPath(c)
  \/ Lock(c)
  \/ Coalesce(c) \/ Spawn(c)
  \/ Reread(c)
  \/ Publish(c)
  \/ Unlock(c)

Goroutine(c, e) == Collect(c, e) \/ Finish(c, e)

Next ==
  \/ Tick
  \/ \E c \in Caller :
       \/ \E m \in Modes : Invoke(c, m)
       \/ Cancel(c)
       \/ Step(c)
       \/ Return(c)
       \/ \E e \in Env : Goroutine(c, e)

Spec == Init /\ [][Next]_vars

(* The Go scheduler runs every runnable goroutine; every cluster call ends *)
(* (client timeout of 30s, context timeout of 2min, but for a token that   *)
(* is fetched without them: CutOff in CloudToken); and sync.Mutex hands    *)
(* the lock to the longest waiter, so an attempt that is possible again    *)
(* and again succeeds.  Nothing makes a caller call, cancel or call again. *)
Fairness ==
  /\ \A c \in Caller : WF_vars(Step(c)) /\ SF_vars(Lock(c))
  /\ \A c \in Caller, e \in Env : WF_vars(Goroutine(c, e))

FairSpec == Spec /\ Fairness

-------------------------------------------------------------------------------
TypeOK ==
  /\ now \in Nat
  /\ invs \in Snapshot \cup {NoSnapshot}
  /\ invsAt \in Nat
  /\ refreshMu \in Caller \cup {NoCaller}
  /\ pc \in [Caller -> {"idle", "cachedCheck", "check", "lock", "recheck",
                        "reread", "discover", "unlock", "done"}]
  /\ call \in [Caller -> [mode : {"cached", "read", "refresh"}, at : Nat, seen : Nat]]
  /\ cancelled \subseteq Caller
  /\ work \in [Caller -> [Env -> {"none", "spawned", "running", "done"}]]
  /\ out \in [Caller -> [Env -> Inventory]]
  /\ answer \in [Caller -> Snapshot \cup {NoSnapshot}]

(* A caller between Lock and Unlock holds refreshMu. *)
Holding == {"recheck", "reread", "discover", "unlock"}

(* At most one caller discovers at a time, and while it does nobody else   *)
(* holds a discovery goroutine: two refreshes never scan the clusters      *)
(* twice at once (Service.refreshMu).                                      *)
SingleFlight ==
  \A c \in Caller, e \in Env :
    work[c][e] # "none" => /\ refreshMu = c
                           /\ \A d \in Caller \ {c}, f \in Env : work[d][f] = "none"

(* The read of s.invs outside the read lock (service.go:361) is safe: no   *)
(* other caller is in a position to publish, and what is read is what the  *)
(* freshness test saw, so it exists and is no older than the call.         *)
UnlockedReadSafe ==
  \A c \in Caller :
    pc[c] = "reread" =>
      /\ invs # NoSnapshot
      /\ invs.at >= call[c].at
      /\ \A d \in Caller : pc[d] # "discover"

(* Every call returns a snapshot of the whole platform, published no       *)
(* earlier than the snapshot that was current when the call was made and   *)
(* not after the one current now: a user never sees the dashboard go back. *)
AnswerInCall ==
  \A c \in Caller :
    pc[c] \in {"unlock", "done"} =>
      /\ answer[c] # NoSnapshot
      /\ call[c].seen <= answer[c].id
      /\ answer[c].id <= Published

(* An answer is younger than the TTL when the call is made, and the answer *)
(* to a refresh was published no earlier than the second of the call. A    *)
(* "cached" call asks for no bound.                                        *)
BoundedStaleness ==
  \A c \in Caller :
    pc[c] \in {"unlock", "done"} =>
      /\ call[c].mode = "read" => answer[c].at + TTL > call[c].at
      /\ call[c].mode = "refresh" => answer[c].at >= call[c].at

(* Every inventory of a snapshot was collected before it was published and *)
(* after the previous snapshot was: a published entry is never replaced by *)
(* one that was collected earlier.                                         *)
Supersedes ==
  (invs' # invs /\ invs # NoSnapshot) =>
    \A e \in Env : /\ invs'.inv[e].collectedAt >= invs.at
                   /\ invs'.inv[e].collectedAt <= invs'.at

NeverOlder == [][Supersedes]_vars

(* Clusters are not scanned in bursts: two snapshots are published at      *)
(* least one second apart, however many refreshes are waiting.             *)
Spaced == (invs' # invs /\ invs # NoSnapshot) => invsAt' > invsAt

Throttled == [][Spaced]_vars

(* Every call is answered. *)
EveryCallAnswered ==
  \A c \in Caller : pc[c] # "idle" ~> pc[c] = "done"

-------------------------------------------------------------------------------
(* The promise: a linearizable register of numbered snapshots.  A call     *)
(* waits until it reads the register, or publishes the next snapshot, at   *)
(* one instant between its start and its return.                           *)
Phase(c) ==
  IF pc[c] = "idle" THEN "idle"
  ELSE IF pc[c] \in {"unlock", "done"} THEN "answered" ELSE "waiting"

Register ==
  INSTANCE SnapshotRegister WITH
    latest <- Published,
    phase <- [c \in Caller |-> Phase(c)],
    got <- [c \in Caller |-> Number(answer[c])]

RegisterSpec == Register!FairSpec

-------------------------------------------------------------------------------
(* What the text of the repository says, checked on its own.               *)

(* "Unreachable environments are returned with errors" (service.go:345):   *)
(* only those.  An environment whose cluster answers every call never      *)
(* stands in a published snapshot with its components missing.             *)
OnlyUnreachableHaveErrors ==
  invs # NoSnapshot =>
    \A e \in Env \ Unreliable : invs.inv[e].kind = "full"

===============================================================================
