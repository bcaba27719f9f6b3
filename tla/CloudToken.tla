------------------------------ MODULE CloudToken ------------------------------
(***************************************************************************)
(* The bearer token of a cloud workload identity (internal/cloudauth),     *)
(* shared by the requests that a discovery sends to one cluster: kept      *)
(* until shortly before it expires, fetched under a mutex, and sent some   *)
(* time after it was looked at.                                            *)
(*                                                                         *)
(* A minute is MarginTime units of time. A token is the time of its expiry *)
(* as far as the cluster is concerned; tokenFunc may record an earlier one *)
(* (aws.go: 14 of 15 minutes) and may return a token it kept itself, with  *)
(* little time left (gcp.go).                                              *)
(***************************************************************************)
EXTENDS Naturals

CONSTANTS
  Sender,     \* requests to the cluster
  MarginTime, \* time.Minute in current
  MaxDelay,   \* bound: time between looking at a token and sending it
  Lives,      \* time left of the tokens that tokenFunc returns
  Slack,      \* how much earlier than the expiry the recorded one is
  CutOff,     \* tokenFunc ends with its context, as aws.go and azure.go do;
              \* gcp.go does not take the context and may ask for ever
  MaxTime,    \* bound: the clock
  Nil,        \* no token yet
  Free        \* nobody holds the mutex

(* Tokens outlive the delay, and so does the minute.                       *)
ASSUME TimeAssumption ==
  /\ MarginTime \in Nat /\ MaxDelay \in Nat /\ MaxTime \in Nat
  /\ MaxDelay <= MarginTime
  /\ Lives \subseteq Nat
  /\ Slack \in Nat
  /\ \A life \in Lives : life > MaxDelay /\ life >= Slack
ASSUME CutOffAssumption == CutOff \in BOOLEAN
ASSUME FreeAssumption == Free \notin Sender
ASSUME NilAssumption == Nil \notin [expiry : Nat, recorded : Nat]

VARIABLES
  now,
  token, \* bearerTransport: token and expiry
  mu,    \* bearerTransport.mu
  stage, \* where each RoundTrip is
  held,  \* the token each has, from when it looked; Nil before that
  left   \* what was left of the token each sent; a request without one: 1

tokenVars == <<now, token, mu, stage, held, left>>

TokenInit ==
  /\ now = 0
  /\ token = Nil
  /\ mu = Free
  /\ stage = [r \in Sender |-> "idle"]
  /\ held = [r \in Sender |-> Nil]
  /\ left = [r \in Sender |-> 1]

-------------------------------------------------------------------------------
Moves(r, from, to) == stage[r] = from /\ stage' = [stage EXCEPT ![r] = to]

(* Time passes; a token in hand is sent before MaxDelay.                   *)
Tick ==
  /\ now < MaxTime
  /\ \A r \in Sender : stage[r] = "send" => now < held[r].looked + MaxDelay
  /\ now' = now + 1
  /\ UNCHANGED <<token, mu, stage, held, left>>

(* A request that has its own authorization gets no token.                 *)
RoundTrip(r) ==
  /\ stage[r] = "idle"
  /\ \/ stage' = [stage EXCEPT ![r] = "lock"]
     \/ stage' = [stage EXCEPT ![r] = "sent"]
  /\ left' = [left EXCEPT ![r] = 1]
  /\ UNCHANGED <<now, token, mu, held>>

GoodUntilExpiry == token # Nil /\ token.expiry > now \* mutant: no margin
Good == token # Nil /\ token.recorded > now + MarginTime

Holds(r, t) == held' = [held EXCEPT ![r] = [expiry |-> t.expiry, looked |-> now]]

Reuse(r) ==
  /\ Moves(r, "lock", "send")
  /\ mu = Free
  /\ Good
  /\ Holds(r, token)
  /\ UNCHANGED <<now, token, mu, left>>

Fetch(r) ==
  /\ Moves(r, "lock", "get")
  /\ mu = Free
  /\ ~Good
  /\ mu' = r
  /\ UNCHANGED <<now, token, held, left>>

Fetched(r, life) ==
  /\ Moves(r, "get", "send")
  /\ token' = [expiry |-> now + life, recorded |-> now + life - Slack]
  /\ Holds(r, token')
  /\ mu' = Free
  /\ UNCHANGED <<now, left>>

(* tokenFunc fails, as it does after 30 seconds if it is cut off: the token *)
(* stays what it was, and the request fails.                               *)
FetchRetries(r) == \* mutant: asks again, however often it fails
  /\ Moves(r, "get", "lock")
  /\ mu' = Free
  /\ UNCHANGED <<now, token, held, left>>
FetchFails(r) ==
  /\ Moves(r, "get", "failed")
  /\ mu' = Free
  /\ UNCHANGED <<now, token, held, left>>

Send(r) ==
  /\ Moves(r, "send", "sent")
  /\ left' = [left EXCEPT ![r] = IF held[r].expiry > now THEN held[r].expiry - now ELSE 0]
  /\ held' = [held EXCEPT ![r] = Nil]
  /\ UNCHANGED <<now, token, mu>>

(* The response, or the error, is read and the client asks again.          *)
Done(r) ==
  /\ Moves(r, "sent", "idle") \/ Moves(r, "failed", "idle")
  /\ UNCHANGED <<now, token, mu, held, left>>

-------------------------------------------------------------------------------
Lock(r) == Reuse(r) \/ Fetch(r)
FetchEnds(r) == FetchFails(r) \/ (\E life \in Lives : Fetched(r, life))

TokenNext ==
  \/ Tick
  \/ \E r \in Sender : RoundTrip(r) \/ Lock(r) \/ FetchEnds(r) \/ Send(r) \/ Done(r)

TokenSpec == TokenInit /\ [][TokenNext]_tokenVars

(* Requests are scheduled, and a Go mutex is handed to whoever waits       *)
(* longest. A fetch ends after 30 seconds at the latest if it is cut off;  *)
(* nothing in this code ends another one.                                  *)
TokenFairness ==
  \A r \in Sender :
    /\ WF_tokenVars(Send(r))
    /\ SF_tokenVars(Lock(r))
    /\ CutOff => WF_tokenVars(FetchEnds(r))

TokenFairSpec == TokenSpec /\ TokenFairness

-------------------------------------------------------------------------------
(* The mutex is held by the request that fetches.                          *)
TokenTypeOK ==
  /\ now \in 0..MaxTime
  /\ token \in [expiry : Nat, recorded : Nat] \cup {Nil}
  /\ mu \in Sender \cup {Free}
  /\ stage \in [Sender -> {"idle", "lock", "get", "send", "sent", "failed"}]
  /\ held \in [Sender -> [expiry : Nat, looked : 0..MaxTime] \cup {Nil}]
  /\ left \in [Sender -> Nat]
  /\ \A r \in Sender : stage[r] = "get" <=> mu = r

(* No request is sent with an expired token, although the token was looked *)
(* at (cloudauth.go:126-130) some time before, under a mutex others hold   *)
(* while they fetch, and although it is not checked when it is new.        *)
NeverSendsExpired == \A r \in Sender : left[r] > 0

(* Every request that waits for the token ends, with a token or an error,  *)
(* although each failing fetch keeps the others behind the mutex           *)
(* (cloudauth.go:125-139), if CutOff: a fetch that never ends keeps them   *)
(* there for ever.                                                         *)
EveryRequestEnds ==
  \A r \in Sender : stage[r] \in {"lock", "get", "send"} ~> stage[r] \in {"sent", "failed"}
===============================================================================
