-------------------------------- MODULE SignIn --------------------------------
(***************************************************************************)
(* OpenID Connect sign-in (internal/auth) of one browser with several      *)
(* tabs. The server keeps nothing of a sign-in: its state, nonce and       *)
(* verifier travel in the flow cookie, the user in the session cookie,     *)
(* both sealed with a key that is configured or made at each start. The    *)
(* tabs share the cookies, so that sign-ins disturb each other; responses  *)
(* arrive after they were made, and the server may restart in between.     *)
(*                                                                         *)
(* A cookie opens with the key it was sealed with. State and nonce are the *)
(* number of their flow. What the provider says of a user is any outcome.  *)
(***************************************************************************)
EXTENDS FiniteSets, Naturals

CONSTANTS
  Tab,         \* tabs of one browser
  MaxFlows,    \* bound: sign-ins started
  MaxRestarts, \* bound: restarts of the server
  Nil,         \* no cookie
  Free         \* nobody holds the mutex of getProvider

ASSUME BoundAssumption == MaxFlows \in Nat /\ MaxRestarts \in Nat
ASSUME FreeAssumption == Free \notin Tab

VARIABLES
  keyed,    \* PBOM_SESSION_SECRET is set
  restarts, \* restarts of the server
  known,    \* oidcAuth.provider was fetched
  mu,       \* oidcAuth.mu
  flows,    \* sign-ins started
  old,      \* those that started more than flowTTL ago
  jar,      \* the browser's cookies
  pc,       \* what each tab waits for
  flow,     \* the flow each tab carries: state in its URL, cookie in its reply
  sent,     \* the flow cookie in each tab's callback request
  result,   \* the provider's answer, then the server's reply, of each tab
  touched   \* history: the jar was written by others since the tab's login

server == <<keyed, restarts, known, mu>>
times == <<flows, old>>
tabs == <<pc, flow, sent, result>>
vars == <<server, times, jar, tabs, touched>>

Key == 0..MaxRestarts
Flow == [id : 1..MaxFlows, key : Key]
Session == [key : Key, expired : BOOLEAN]
Request == [cookie : Flow \cup {Nil}, answer : {"code", "error"}]
ASSUME NilAssumption == Nil \notin Flow \cup Session \cup Request

Waiting == {"login", "redirect", "callback", "checked", "exchange", "reply",
            "logout", "signout"}

Init ==
  /\ keyed \in BOOLEAN
  /\ restarts = 0
  /\ known = FALSE
  /\ mu = Free
  /\ flows = 0
  /\ old = {}
  /\ jar = [flow |-> Nil, session |-> Nil]
  /\ pc = [t \in Tab |-> "idle"]
  /\ flow = [t \in Tab |-> Nil]
  /\ sent = [t \in Tab |-> Nil]
  /\ result = [t \in Tab |-> "none"]
  /\ touched = [t \in Tab |-> TRUE]

(* Without a configured secret each start makes its own.                   *)
SealingKey == IF keyed THEN 0 ELSE restarts

Opens(cookie) == cookie # Nil /\ cookie.key = SealingKey /\ cookie.id \notin old

(* The session of the jar is accepted: its API calls do not get 401.       *)
Accepted ==
  /\ jar.session # Nil
  /\ jar.session.key = SealingKey
  /\ ~jar.session.expired

-------------------------------------------------------------------------------
Moves(t, from, to) == pc[t] = from /\ pc' = [pc EXCEPT ![t] = to]

(* A tab goes to another page.                                             *)
Forget(t) ==
  /\ flow' = [flow EXCEPT ![t] = Nil]
  /\ sent' = [sent EXCEPT ![t] = Nil]

(* A tab goes to /auth/login: sent by the UI after a 401, or by hand.      *)
Begin(t) ==
  /\ pc[t] \in {"idle", "failed"}
  /\ flows + Cardinality({u \in Tab : pc[u] = "login"}) < MaxFlows
  /\ pc' = [pc EXCEPT ![t] = "login"]
  /\ Forget(t)
  /\ UNCHANGED <<server, times, jar, result, touched>>

(* The user signs out.                                                     *)
SignOut(t) ==
  /\ Accepted
  /\ Moves(t, "idle", "logout")
  /\ UNCHANGED <<server, times, jar, flow, sent, result, touched>>

(* The user leaves an error page or the provider's page.                   *)
Leave(t) ==
  /\ Moves(t, "failed", "idle") \/ Moves(t, "provider", "idle")
  /\ Forget(t)
  /\ UNCHANGED <<server, times, jar, result, touched>>

(* The provider sends the user back with a code or an error.               *)
Return(t, answer) ==
  /\ Moves(t, "provider", "callback")
  /\ sent' = [sent EXCEPT ![t] = [cookie |-> jar.flow, answer |-> answer]]
  /\ UNCHANGED <<server, times, jar, flow, result, touched>>

(* The user reloads the error page of a callback.                          *)
Reload(t) ==
  /\ flow[t] # Nil
  /\ Moves(t, "failed", "callback")
  /\ sent' = [sent EXCEPT ![t].cookie = jar.flow]
  /\ touched' = [touched EXCEPT ![t] = TRUE]
  /\ UNCHANGED <<server, times, jar, flow, result>>

-------------------------------------------------------------------------------
(* getProvider: the provider's metadata is fetched once, under the mutex.  *)
Fetch(t) ==
  /\ pc[t] \in {"login", "checked", "logout"}
  /\ mu = Free
  /\ ~known
  /\ mu' = t
  /\ UNCHANGED <<keyed, restarts, known, times, jar, tabs, touched>>

FetchFailsLocked(t) == \* mutant: the error returns without the unlock
  /\ mu = t
  /\ \/ Moves(t, "login", "failed") /\ UNCHANGED result
     \/ Moves(t, "logout", "signout") /\ UNCHANGED result
     \/ Moves(t, "checked", "reply") /\ result' = [result EXCEPT ![t] = "unavailable"]
  /\ UNCHANGED <<server, times, jar, flow, sent, touched>>
FetchFails(t) ==
  /\ mu = t
  /\ mu' = Free
  /\ \/ Moves(t, "login", "failed") /\ UNCHANGED result
     \/ Moves(t, "logout", "signout") /\ UNCHANGED result
     \/ Moves(t, "checked", "reply") /\ result' = [result EXCEPT ![t] = "unavailable"]
  /\ UNCHANGED <<keyed, restarts, known, times, jar, flow, sent, touched>>

HasProvider(t) ==
  /\ (known /\ mu = Free) \/ mu = t
  /\ known' = TRUE
  /\ mu' = Free
  /\ UNCHANGED <<keyed, restarts>>

(* login: a new flow, sealed into the cookie of the redirect.              *)
Login(t) ==
  /\ Moves(t, "login", "redirect")
  /\ HasProvider(t)
  /\ flows' = flows + 1
  /\ flow' = [flow EXCEPT ![t] = [id |-> flows', key |-> SealingKey]]
  /\ UNCHANGED <<old, jar, sent, result, touched>>

(* callback up to getProvider: the cookie, then the provider's error, then *)
(* the state.                                                              *)
Refusal(t) ==
  IF ~Opens(sent[t].cookie) THEN "expired"
  ELSE IF sent[t].answer = "error" THEN "refused"
  ELSE IF sent[t].cookie.id # flow[t].id THEN "mismatch"
  ELSE "none"

Refuse(t) ==
  /\ Moves(t, "callback", "reply")
  /\ Refusal(t) # "none"
  /\ result' = [result EXCEPT ![t] = Refusal(t)]
  /\ UNCHANGED <<server, times, jar, flow, sent, touched>>

Check(t) ==
  /\ Moves(t, "callback", "checked")
  /\ Refusal(t) = "none"
  /\ UNCHANGED <<server, times, jar, flow, sent, result, touched>>

Exchange(t) ==
  /\ Moves(t, "checked", "exchange")
  /\ HasProvider(t)
  /\ UNCHANGED <<times, jar, flow, sent, result, touched>>

(* The code is exchanged, the ID token verified and the groups looked at.  *)
Exchanged(t) ==
  /\ Moves(t, "exchange", "reply")
  /\ \E outcome \in {"unavailable", "forbidden", "ok"} :
       result' = [result EXCEPT ![t] = outcome]
  /\ UNCHANGED <<server, times, jar, flow, sent, touched>>

(* logout: the metadata only decides where to go next.                     *)
Logout(t) ==
  /\ Moves(t, "logout", "signout")
  /\ HasProvider(t)
  /\ UNCHANGED <<times, jar, flow, sent, result, touched>>

-------------------------------------------------------------------------------
(* Responses reach the browser. The flow cookie of a redirect replaces the *)
(* one before it; that of any callback's reply is empty.                   *)
RedirectedOnce(t) == \* mutant: a flow cookie that is there is kept
  /\ Moves(t, "redirect", "provider")
  /\ jar' = [jar EXCEPT !.flow = IF @ = Nil THEN flow[t] ELSE @]
  /\ touched' = [u \in Tab |-> u # t]
  /\ UNCHANGED <<server, times, flow, sent, result>>
Redirected(t) ==
  /\ Moves(t, "redirect", "provider")
  /\ jar' = [jar EXCEPT !.flow = flow[t]]
  /\ touched' = [u \in Tab |-> u # t]
  /\ UNCHANGED <<server, times, flow, sent, result>>

(* A sign-in that fails leaves the session of an earlier one. The session  *)
(* is sealed by the process that opened the flow: with the flow's key.     *)
RepliedAnew(t) == \* mutant: a callback that fails signs out
  /\ Moves(t, "reply", IF result[t] = "ok" THEN "idle" ELSE "failed")
  /\ jar' = [flow |-> Nil,
             session |-> IF result[t] = "ok" THEN [key |-> flow[t].key, expired |-> FALSE] ELSE Nil]
  /\ touched' = [u \in Tab |-> TRUE]
  /\ result' = [result EXCEPT ![t] = "none"]
  /\ IF result[t] = "ok" THEN Forget(t) ELSE UNCHANGED <<flow, sent>>
  /\ UNCHANGED <<server, times>>
Replied(t) ==
  /\ Moves(t, "reply", IF result[t] = "ok" THEN "idle" ELSE "failed")
  /\ jar' = [flow |-> Nil,
             session |-> IF result[t] = "ok" THEN [key |-> flow[t].key, expired |-> FALSE]
                                             ELSE jar.session]
  /\ touched' = [u \in Tab |-> TRUE]
  /\ result' = [result EXCEPT ![t] = "none"]
  /\ IF result[t] = "ok" THEN Forget(t) ELSE UNCHANGED <<flow, sent>>
  /\ UNCHANGED <<server, times>>

SignedOut(t) ==
  /\ Moves(t, "signout", "idle")
  /\ jar' = [jar EXCEPT !.session = Nil]
  /\ UNCHANGED <<server, times, flow, sent, result, touched>>

-------------------------------------------------------------------------------
(* The server restarts. A handler it was running never answers.            *)
Restart ==
  /\ restarts < MaxRestarts
  /\ restarts' = restarts + 1
  /\ known' = FALSE
  /\ mu' = Free
  /\ pc' = [t \in Tab |->
              IF pc[t] \in {"login", "checked", "exchange", "logout"} THEN "failed" ELSE pc[t]]
  /\ UNCHANGED <<keyed, times, jar, flow, sent, result, touched>>

(* Ten minutes pass since a flow began, the session duration since a       *)
(* session did.                                                            *)
FlowExpires ==
  /\ \E f \in 1..flows : f \notin old /\ old' = old \cup 1..f
  /\ UNCHANGED <<server, flows, jar, tabs, touched>>

SessionExpires ==
  /\ Accepted
  /\ jar' = [jar EXCEPT !.session.expired = TRUE]
  /\ UNCHANGED <<server, times, tabs, touched>>

-------------------------------------------------------------------------------
User(t) ==
  \/ Begin(t)
  \/ SignOut(t)
  \/ Leave(t)
  \/ \E answer \in {"code", "error"} : Return(t, answer)
  \/ Reload(t)

Lock(t) == Fetch(t) \/ Login(t) \/ Exchange(t) \/ Logout(t)
Handle(t) == FetchFails(t) \/ Refuse(t) \/ Check(t) \/ Exchanged(t)
Arrive(t) == Redirected(t) \/ Replied(t) \/ SignedOut(t)

Next ==
  \/ \E t \in Tab : User(t) \/ Lock(t) \/ Handle(t) \/ Arrive(t)
  \/ Restart
  \/ FlowExpires
  \/ SessionExpires

Spec == Init /\ [][Next]_vars

(* Handlers are scheduled and their calls of the provider time out (15 and *)
(* 30 s), responses arrive, and a Go mutex is handed to whoever waits      *)
(* longest. Users and the clock owe nothing.                               *)
Fairness ==
  \A t \in Tab : WF_vars(Handle(t)) /\ WF_vars(Arrive(t)) /\ SF_vars(Lock(t))

FairSpec == Spec /\ Fairness

-------------------------------------------------------------------------------
TypeOK ==
  /\ keyed \in BOOLEAN
  /\ restarts \in Key
  /\ known \in BOOLEAN
  /\ mu \in Tab \cup {Free}
  /\ flows \in 0..MaxFlows
  /\ old \in SUBSET (1..MaxFlows)
  /\ jar \in [flow : Flow \cup {Nil}, session : Session \cup {Nil}]
  /\ pc \in [Tab -> Waiting \cup {"idle", "provider", "failed"}]
  /\ flow \in [Tab -> Flow \cup {Nil}]
  /\ sent \in [Tab -> Request \cup {Nil}]
  /\ result \in [Tab -> {"none", "expired", "refused", "mismatch", "unavailable", "forbidden", "ok"}]
  /\ touched \in [Tab -> BOOLEAN]

(* authentication.md:189 explains a sign-in that PBOM no longer knows by   *)
(* ten minutes or blocked cookies. What oidc.go:176-190 refuses as expired *)
(* or as a state mismatch is that, or was sealed before a restart, or had  *)
(* its cookie replaced or removed by another response in this browser      *)
(* before the provider sent the user back: no sign-in fails for itself,    *)
(* whatever cookies earlier ones left behind.                              *)
UndisturbedSucceeds ==
  \A t \in Tab :
    pc[t] = "reply" /\ result[t] \in {"expired", "mismatch"} =>
      \/ touched[t]
      \/ flow[t].id \in old
      \/ flow[t].key # SealingKey

(* A session that is accepted stays accepted, whatever sign-ins fail in    *)
(* other tabs (oidc.go:171-190), until it expires, a sign-out is answered, *)
(* or the server restarted without a configured secret (oidc.go:56-63).    *)
SessionLasts ==
  [][Accepted /\ ~Accepted' =>
       \/ jar'.session # Nil /\ jar'.session.expired
       \/ \E t \in Tab : pc[t] = "signout" /\ pc'[t] = "idle"
       \/ ~keyed /\ restarts' # 0]_vars

(* Whatever the tabs do to each other, and although a provider that does   *)
(* not answer is asked under a mutex (oidc.go:116-134), every tab gets its *)
(* answer.                                                                 *)
EveryTabAnswered ==
  \A t \in Tab : pc[t] \in Waiting ~> pc[t] \notin Waiting
===============================================================================
