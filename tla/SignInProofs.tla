---------------------------- MODULE SignInProofs ----------------------------
(***************************************************************************)
(* Proofs about SignIn, for any number of tabs, sign-ins and restarts.     *)
(***************************************************************************)
EXTENDS SignIn, FiniteSetTheorems, TLAPS

(* A tab that is sent to the provider carries its flow, one that came back *)
(* has sent a cookie or none with its callback.                            *)
FlowInv ==
  \A t \in Tab :
    /\ pc[t] \in {"idle", "login", "logout", "signout"} => flow[t] = Nil
    /\ pc[t] \in {"redirect", "provider", "callback", "checked", "exchange", "reply"} =>
         flow[t] # Nil
    /\ pc[t] \in {"callback", "checked", "exchange", "reply"} => sent[t] # Nil
    /\ pc[t] = "failed" /\ flow[t] # Nil => sent[t] # Nil

(* The sign-ins that wait for their flow still fit the bound.              *)
Logins == {u \in Tab : pc[u] = "login"}
BoundInv == IsFiniteSet(Logins) /\ flows + Cardinality(Logins) <= MaxFlows

(* A flow was sealed by this process or one before it, and they all have   *)
(* the same key when one is configured.                                    *)
KeyInv ==
  \A t \in Tab : flow[t] # Nil =>
    flow[t].key <= restarts /\ (keyed => flow[t].key = 0)

(* While nobody else writes the jar, the cookie a tab will send, or has    *)
(* sent, is the one of its own flow.                                       *)
OwnCookieInv ==
  \A t \in Tab : ~touched[t] =>
    /\ pc[t] = "provider" => jar.flow = flow[t]
    /\ pc[t] = "callback" => sent[t].cookie = flow[t]

IInv == TypeOK /\ FlowInv /\ BoundInv /\ KeyInv /\ OwnCookieInv /\ UndisturbedSucceeds

-------------------------------------------------------------------------------
LEMMA InitIInv == Init => IInv
<1> SUFFICES ASSUME Init PROVE IInv
  OBVIOUS
<1> USE DEF Init
<1>1. TypeOK
  <2>1. restarts \in Key /\ flows \in 0..MaxFlows /\ old \in SUBSET (1..MaxFlows)
    BY BoundAssumption DEF Key
  <2>2. jar \in [flow : Flow \cup {Nil}, session : Session \cup {Nil}]
    OBVIOUS
  <2> QED
    BY <2>1, <2>2 DEF TypeOK
<1>2. FlowInv /\ KeyInv /\ OwnCookieInv /\ UndisturbedSucceeds
  BY DEF FlowInv, KeyInv, OwnCookieInv, UndisturbedSucceeds
<1>3. Logins = {}
  BY DEF Logins
<1>4. BoundInv
  BY <1>3, FS_EmptySet, BoundAssumption DEF BoundInv
<1> QED
  BY <1>1, <1>2, <1>4 DEF IInv

LEMMA NewFlow ==
  ASSUME TypeOK, BoundInv, NEW t \in Tab, pc[t] = "login"
  PROVE  flows + 1 \in 1..MaxFlows /\ [id |-> flows + 1, key |-> SealingKey] \in Flow
<1>1. t \in Logins
  BY DEF Logins
<1>2. Cardinality(Logins) \in Nat /\ Cardinality(Logins) # 0
  BY <1>1, FS_CardinalityType, FS_EmptySet DEF BoundInv
<1>3. flows + 1 \in 1..MaxFlows
  BY <1>2, BoundAssumption DEF BoundInv, TypeOK
<1>4. SealingKey \in Key
  BY BoundAssumption DEF SealingKey, TypeOK, Key
<1> QED
  BY <1>3, <1>4 DEF Flow

LEMMA FlowStep == TypeOK /\ BoundInv /\ FlowInv /\ [Next]_vars => FlowInv'
<1> SUFFICES ASSUME TypeOK, BoundInv, FlowInv, [Next]_vars PROVE FlowInv'
  OBVIOUS
<1> USE NilAssumption DEF TypeOK, FlowInv, server, times, tabs
<1>1. ASSUME NEW t \in Tab, Begin(t) PROVE FlowInv'
  BY <1>1 DEF Begin, Forget
<1>2. ASSUME NEW t \in Tab, SignOut(t) PROVE FlowInv'
  BY <1>2 DEF SignOut, Moves
<1>3. ASSUME NEW t \in Tab, Leave(t) PROVE FlowInv'
  BY <1>3 DEF Leave, Moves, Forget
<1>4. ASSUME NEW t \in Tab, NEW answer \in {"code", "error"}, Return(t, answer) PROVE FlowInv'
  <2>1. jar.flow \in Flow \cup {Nil}
    OBVIOUS
  <2>2. [cookie |-> jar.flow, answer |-> answer] \in Request
    BY <2>1 DEF Request
  <2>3. [cookie |-> jar.flow, answer |-> answer] # Nil
    BY <2>2
  <2> QED
    BY <1>4, <2>3 DEF Return, Moves
<1>5. ASSUME NEW t \in Tab, Reload(t) PROVE FlowInv'
  <2>1. sent[t] \in Request
    BY <1>5 DEF Reload, Moves
  <2>2. [sent[t] EXCEPT !.cookie = jar.flow] \in Request
    BY <2>1 DEF Request
  <2>3. [sent[t] EXCEPT !.cookie = jar.flow] # Nil
    BY <2>2
  <2>4. sent' = [sent EXCEPT ![t] = [sent[t] EXCEPT !.cookie = jar.flow]]
    BY <1>5 DEF Reload
  <2> QED
    BY <1>5, <2>3, <2>4 DEF Reload, Moves
<1>6. ASSUME NEW t \in Tab, Fetch(t) PROVE FlowInv'
  BY <1>6 DEF Fetch
<1>7. ASSUME NEW t \in Tab, Login(t) PROVE FlowInv'
  <2>1. [id |-> flows', key |-> SealingKey] \in Flow
    BY <1>7, NewFlow DEF Login, Moves
  <2> QED
    BY <1>7, <2>1 DEF Login, Moves
<1>8. ASSUME NEW t \in Tab, Exchange(t) PROVE FlowInv'
  BY <1>8 DEF Exchange, Moves, HasProvider
<1>9. ASSUME NEW t \in Tab, Logout(t) PROVE FlowInv'
  BY <1>9 DEF Logout, Moves, HasProvider
<1>10. ASSUME NEW t \in Tab, FetchFails(t) PROVE FlowInv'
  BY <1>10 DEF FetchFails, Moves
<1>11. ASSUME NEW t \in Tab, Refuse(t) PROVE FlowInv'
  BY <1>11 DEF Refuse, Moves
<1>12. ASSUME NEW t \in Tab, Check(t) PROVE FlowInv'
  BY <1>12 DEF Check, Moves
<1>13. ASSUME NEW t \in Tab, Exchanged(t) PROVE FlowInv'
  BY <1>13 DEF Exchanged, Moves
<1>14. ASSUME NEW t \in Tab, Redirected(t) PROVE FlowInv'
  BY <1>14 DEF Redirected, Moves
<1>15. ASSUME NEW t \in Tab, Replied(t) PROVE FlowInv'
  BY <1>15 DEF Replied, Moves, Forget
<1>16. ASSUME NEW t \in Tab, SignedOut(t) PROVE FlowInv'
  BY <1>16 DEF SignedOut, Moves
<1>17. CASE Restart
  BY <1>17 DEF Restart
<1>18. CASE FlowExpires
  BY <1>18 DEF FlowExpires
<1>19. CASE SessionExpires
  BY <1>19 DEF SessionExpires
<1>20. CASE UNCHANGED vars
  BY <1>20 DEF vars
<1> QED
  BY <1>1, <1>2, <1>3, <1>4, <1>5, <1>6, <1>7, <1>8, <1>9, <1>10,
     <1>11, <1>12, <1>13, <1>14, <1>15, <1>16, <1>17, <1>18, <1>19, <1>20
  DEF Next, User, Lock, Handle, Arrive

LEMMA TypeStep == TypeOK /\ FlowInv /\ BoundInv /\ [Next]_vars => TypeOK'
<1> SUFFICES ASSUME TypeOK, FlowInv, BoundInv, [Next]_vars PROVE TypeOK'
  OBVIOUS
<1> USE BoundAssumption, FreeAssumption, NilAssumption DEF TypeOK, server, times, tabs, Waiting
<1>1. ASSUME NEW t \in Tab, Begin(t) PROVE TypeOK'
  BY <1>1 DEF Begin, Forget
<1>2. ASSUME NEW t \in Tab, SignOut(t) PROVE TypeOK'
  BY <1>2 DEF SignOut, Moves
<1>3. ASSUME NEW t \in Tab, Leave(t) PROVE TypeOK'
  BY <1>3 DEF Leave, Moves, Forget
<1>4. ASSUME NEW t \in Tab, NEW answer \in {"code", "error"}, Return(t, answer) PROVE TypeOK'
  <2>1. jar.flow \in Flow \cup {Nil}
    OBVIOUS
  <2>2. [cookie |-> jar.flow, answer |-> answer] \in Request
    BY <2>1 DEF Request
  <2> QED
    BY <1>4, <2>2 DEF Return, Moves
<1>5. ASSUME NEW t \in Tab, Reload(t) PROVE TypeOK'
  <2>1. sent[t] \in Request
    BY <1>5 DEF Reload, Moves, FlowInv
  <2>2. [sent[t] EXCEPT !.cookie = jar.flow] \in Request
    BY <2>1 DEF Request
  <2>3. sent' = [sent EXCEPT ![t] = [sent[t] EXCEPT !.cookie = jar.flow]]
    BY <1>5 DEF Reload
  <2> QED
    BY <1>5, <2>2, <2>3 DEF Reload, Moves
<1>6. ASSUME NEW t \in Tab, Fetch(t) PROVE TypeOK'
  BY <1>6 DEF Fetch
<1>7. ASSUME NEW t \in Tab, Login(t) PROVE TypeOK'
  <2>1. flows' \in 1..MaxFlows /\ [id |-> flows', key |-> SealingKey] \in Flow
    BY <1>7, NewFlow DEF Login, Moves
  <2>2. flows' \in 0..MaxFlows
    BY <2>1
  <2> QED
    BY <1>7, <2>1, <2>2 DEF Login, Moves, HasProvider
<1>8. ASSUME NEW t \in Tab, Exchange(t) PROVE TypeOK'
  BY <1>8 DEF Exchange, Moves, HasProvider
<1>9. ASSUME NEW t \in Tab, Logout(t) PROVE TypeOK'
  BY <1>9 DEF Logout, Moves, HasProvider
<1>10. ASSUME NEW t \in Tab, FetchFails(t) PROVE TypeOK'
  BY <1>10 DEF FetchFails, Moves
<1>11. ASSUME NEW t \in Tab, Refuse(t) PROVE TypeOK'
  <2>1. Refusal(t) \in {"none", "expired", "refused", "mismatch"}
    BY DEF Refusal
  <2> QED
    BY <1>11, <2>1 DEF Refuse, Moves
<1>12. ASSUME NEW t \in Tab, Check(t) PROVE TypeOK'
  BY <1>12 DEF Check, Moves
<1>13. ASSUME NEW t \in Tab, Exchanged(t) PROVE TypeOK'
  BY <1>13 DEF Exchanged, Moves
<1>14. ASSUME NEW t \in Tab, Redirected(t) PROVE TypeOK'
  BY <1>14 DEF Redirected, Moves
<1>15. ASSUME NEW t \in Tab, Replied(t) PROVE TypeOK'
  <2>1. flow[t] \in Flow
    BY <1>15 DEF Replied, Moves, FlowInv
  <2>2. [key |-> flow[t].key, expired |-> FALSE] \in Session
    BY <2>1 DEF Flow, Session
  <2>3. jar' \in [flow : Flow \cup {Nil}, session : Session \cup {Nil}]
    BY <1>15, <2>2 DEF Replied
  <2>4. pc' \in [Tab -> Waiting \cup {"idle", "provider", "failed"}]
    BY <1>15 DEF Replied, Moves
  <2> QED
    BY <1>15, <2>3, <2>4 DEF Replied, Forget
<1>16. ASSUME NEW t \in Tab, SignedOut(t) PROVE TypeOK'
  BY <1>16 DEF SignedOut, Moves
<1>17. CASE Restart
  <2>1. restarts' \in Key
    BY <1>17 DEF Restart, Key
  <2>2. pc' \in [Tab -> Waiting \cup {"idle", "provider", "failed"}]
    BY <1>17 DEF Restart
  <2> QED
    BY <1>17, <2>1, <2>2 DEF Restart
<1>18. CASE FlowExpires
  BY <1>18 DEF FlowExpires
<1>19. CASE SessionExpires
  <2>1. jar.session \in Session
    BY <1>19 DEF SessionExpires, Accepted
  <2>2. [jar.session EXCEPT !.expired = TRUE] \in Session
    BY <2>1 DEF Session
  <2>3. jar' = [jar EXCEPT !.session = [jar.session EXCEPT !.expired = TRUE]]
    BY <1>19 DEF SessionExpires
  <2>4. jar' \in [flow : Flow \cup {Nil}, session : Session \cup {Nil}]
    BY <2>2, <2>3
  <2> QED
    BY <1>19, <2>4 DEF SessionExpires
<1>20. CASE UNCHANGED vars
  BY <1>20 DEF vars
<1> QED
  BY <1>1, <1>2, <1>3, <1>4, <1>5, <1>6, <1>7, <1>8, <1>9, <1>10,
     <1>11, <1>12, <1>13, <1>14, <1>15, <1>16, <1>17, <1>18, <1>19, <1>20
  DEF Next, User, Lock, Handle, Arrive

(* Only Begin adds a sign-in that waits, and only when it fits.            *)
LEMMA BoundStep == TypeOK /\ BoundInv /\ [Next]_vars => BoundInv'
<1> SUFFICES ASSUME TypeOK, BoundInv, [Next]_vars PROVE BoundInv'
  OBVIOUS
<1> DEFINE Fewer == Logins' \subseteq Logins /\ flows' = flows
<1>0. ASSUME Fewer PROVE BoundInv'
  <2>1. IsFiniteSet(Logins') /\ Cardinality(Logins') <= Cardinality(Logins)
    BY <1>0, FS_Subset DEF BoundInv
  <2>2. Cardinality(Logins) \in Nat /\ Cardinality(Logins') \in Nat
    BY <2>1, FS_CardinalityType DEF BoundInv
  <2> QED
    BY <1>0, <2>1, <2>2, BoundAssumption DEF BoundInv, TypeOK
<1> USE DEF TypeOK, server, times, tabs
<1>1. ASSUME NEW t \in Tab, Begin(t) PROVE BoundInv'
  <2>1. Logins' = Logins \cup {t} /\ t \notin Logins /\ flows' = flows
    BY <1>1 DEF Begin, Logins
  <2>2. flows + Cardinality(Logins) < MaxFlows
    BY <1>1 DEF Begin, Logins
  <2>3. IsFiniteSet(Logins') /\ Cardinality(Logins') = Cardinality(Logins) + 1
    BY <2>1, FS_AddElement DEF BoundInv
  <2>4. Cardinality(Logins) \in Nat
    BY FS_CardinalityType DEF BoundInv
  <2> QED
    BY <2>1, <2>2, <2>3, <2>4, BoundAssumption DEF BoundInv
<1>2. ASSUME NEW t \in Tab, SignOut(t) PROVE BoundInv'
  BY <1>2, <1>0 DEF SignOut, Logins, Moves
<1>3. ASSUME NEW t \in Tab, Leave(t) PROVE BoundInv'
  BY <1>3, <1>0 DEF Leave, Logins, Moves, Forget
<1>4. ASSUME NEW t \in Tab, NEW answer \in {"code", "error"}, Return(t, answer) PROVE BoundInv'
  BY <1>4, <1>0 DEF Return, Logins, Moves
<1>5. ASSUME NEW t \in Tab, Reload(t) PROVE BoundInv'
  BY <1>5, <1>0 DEF Reload, Logins, Moves
<1>6. ASSUME NEW t \in Tab, Fetch(t) PROVE BoundInv'
  BY <1>6, <1>0 DEF Fetch, Logins
<1>7. ASSUME NEW t \in Tab, Login(t) PROVE BoundInv'
  <2>1. Logins' = Logins \ {t} /\ t \in Logins /\ flows' = flows + 1
    BY <1>7 DEF Login, Moves, Logins
  <2>2. IsFiniteSet(Logins') /\ Cardinality(Logins') = Cardinality(Logins) - 1
    BY <2>1, FS_RemoveElement DEF BoundInv
  <2>3. Cardinality(Logins) \in Nat
    BY FS_CardinalityType DEF BoundInv
  <2> QED
    BY <2>1, <2>2, <2>3, BoundAssumption DEF BoundInv
<1>8. ASSUME NEW t \in Tab, Exchange(t) PROVE BoundInv'
  BY <1>8, <1>0 DEF Exchange, Logins, Moves, HasProvider
<1>9. ASSUME NEW t \in Tab, Logout(t) PROVE BoundInv'
  BY <1>9, <1>0 DEF Logout, Logins, Moves, HasProvider
<1>10. ASSUME NEW t \in Tab, FetchFails(t) PROVE BoundInv'
  BY <1>10, <1>0 DEF FetchFails, Logins, Moves
<1>11. ASSUME NEW t \in Tab, Refuse(t) PROVE BoundInv'
  BY <1>11, <1>0 DEF Refuse, Logins, Moves
<1>12. ASSUME NEW t \in Tab, Check(t) PROVE BoundInv'
  BY <1>12, <1>0 DEF Check, Logins, Moves
<1>13. ASSUME NEW t \in Tab, Exchanged(t) PROVE BoundInv'
  BY <1>13, <1>0 DEF Exchanged, Logins, Moves
<1>14. ASSUME NEW t \in Tab, Redirected(t) PROVE BoundInv'
  BY <1>14, <1>0 DEF Redirected, Logins, Moves
<1>15. ASSUME NEW t \in Tab, Replied(t) PROVE BoundInv'
  BY <1>15, <1>0 DEF Replied, Logins, Moves, Forget
<1>16. ASSUME NEW t \in Tab, SignedOut(t) PROVE BoundInv'
  BY <1>16, <1>0 DEF SignedOut, Logins, Moves
<1>17. CASE Restart
  BY <1>17, <1>0 DEF Restart, Logins
<1>18. CASE FlowExpires
  BY <1>18, <1>0 DEF FlowExpires, Logins
<1>19. CASE SessionExpires
  BY <1>19, <1>0 DEF SessionExpires, Logins
<1>20. CASE UNCHANGED vars
  BY <1>0, <1>20 DEF vars, Logins
<1> QED
  BY <1>1, <1>2, <1>3, <1>4, <1>5, <1>6, <1>7, <1>8, <1>9, <1>10,
     <1>11, <1>12, <1>13, <1>14, <1>15, <1>16, <1>17, <1>18, <1>19, <1>20
  DEF Next, User, Lock, Handle, Arrive

-------------------------------------------------------------------------------
LEMMA KeyStep == TypeOK /\ FlowInv /\ BoundInv /\ KeyInv /\ [Next]_vars => KeyInv'
<1> SUFFICES ASSUME TypeOK, FlowInv, BoundInv, KeyInv, [Next]_vars PROVE KeyInv'
  OBVIOUS
<1> USE BoundAssumption DEF TypeOK, KeyInv, Key, Flow, server, times, tabs
<1>1. ASSUME NEW t \in Tab, Begin(t) PROVE KeyInv'
  BY <1>1 DEF Begin, Forget
<1>2. ASSUME NEW t \in Tab, SignOut(t) PROVE KeyInv'
  BY <1>2 DEF SignOut, Moves
<1>3. ASSUME NEW t \in Tab, Leave(t) PROVE KeyInv'
  BY <1>3 DEF Leave, Moves, Forget
<1>4. ASSUME NEW t \in Tab, NEW answer \in {"code", "error"}, Return(t, answer) PROVE KeyInv'
  BY <1>4 DEF Return, Moves
<1>5. ASSUME NEW t \in Tab, Reload(t) PROVE KeyInv'
  BY <1>5 DEF Reload, Moves
<1>6. ASSUME NEW t \in Tab, Fetch(t) PROVE KeyInv'
  BY <1>6 DEF Fetch
<1>7. ASSUME NEW t \in Tab, Login(t) PROVE KeyInv'
  BY <1>7 DEF Login, HasProvider, SealingKey
<1>8. ASSUME NEW t \in Tab, Exchange(t) PROVE KeyInv'
  BY <1>8 DEF Exchange, Moves, HasProvider
<1>9. ASSUME NEW t \in Tab, Logout(t) PROVE KeyInv'
  BY <1>9 DEF Logout, Moves, HasProvider
<1>10. ASSUME NEW t \in Tab, FetchFails(t) PROVE KeyInv'
  BY <1>10 DEF FetchFails, Moves
<1>11. ASSUME NEW t \in Tab, Refuse(t) PROVE KeyInv'
  BY <1>11 DEF Refuse, Moves
<1>12. ASSUME NEW t \in Tab, Check(t) PROVE KeyInv'
  BY <1>12 DEF Check, Moves
<1>13. ASSUME NEW t \in Tab, Exchanged(t) PROVE KeyInv'
  BY <1>13 DEF Exchanged, Moves
<1>14. ASSUME NEW t \in Tab, Redirected(t) PROVE KeyInv'
  BY <1>14 DEF Redirected, Moves
<1>15. ASSUME NEW t \in Tab, Replied(t) PROVE KeyInv'
  BY <1>15 DEF Replied, Moves, Forget
<1>16. ASSUME NEW t \in Tab, SignedOut(t) PROVE KeyInv'
  BY <1>16 DEF SignedOut, Moves
<1>17. CASE Restart
  BY <1>17 DEF Restart
<1>18. CASE FlowExpires
  BY <1>18 DEF FlowExpires
<1>19. CASE SessionExpires
  BY <1>19 DEF SessionExpires
<1>20. CASE UNCHANGED vars
  BY <1>20 DEF vars
<1> QED
  BY <1>1, <1>2, <1>3, <1>4, <1>5, <1>6, <1>7, <1>8, <1>9, <1>10,
     <1>11, <1>12, <1>13, <1>14, <1>15, <1>16, <1>17, <1>18, <1>19, <1>20
  DEF Next, User, Lock, Handle, Arrive

LEMMA OwnCookieStep == TypeOK /\ FlowInv /\ OwnCookieInv /\ [Next]_vars => OwnCookieInv'
<1> SUFFICES ASSUME TypeOK, FlowInv, OwnCookieInv, [Next]_vars PROVE OwnCookieInv'
  OBVIOUS
<1> USE DEF TypeOK, OwnCookieInv, server, times, tabs
<1>1. ASSUME NEW t \in Tab, Begin(t) PROVE OwnCookieInv'
  BY <1>1 DEF Begin, Forget
<1>2. ASSUME NEW t \in Tab, SignOut(t) PROVE OwnCookieInv'
  BY <1>2 DEF SignOut, Moves
<1>3. ASSUME NEW t \in Tab, Leave(t) PROVE OwnCookieInv'
  BY <1>3 DEF Leave, Moves, Forget
<1>4. ASSUME NEW t \in Tab, NEW answer \in {"code", "error"}, Return(t, answer) PROVE OwnCookieInv'
  BY <1>4 DEF Return, Moves
<1>5. ASSUME NEW t \in Tab, Reload(t) PROVE OwnCookieInv'
  BY <1>5 DEF Reload, Moves
<1>6. ASSUME NEW t \in Tab, Fetch(t) PROVE OwnCookieInv'
  BY <1>6 DEF Fetch
<1>7. ASSUME NEW t \in Tab, Login(t) PROVE OwnCookieInv'
  BY <1>7 DEF Login, Moves, HasProvider
<1>8. ASSUME NEW t \in Tab, Exchange(t) PROVE OwnCookieInv'
  BY <1>8 DEF Exchange, Moves, HasProvider
<1>9. ASSUME NEW t \in Tab, Logout(t) PROVE OwnCookieInv'
  BY <1>9 DEF Logout, Moves, HasProvider
<1>10. ASSUME NEW t \in Tab, FetchFails(t) PROVE OwnCookieInv'
  BY <1>10 DEF FetchFails, Moves
<1>11. ASSUME NEW t \in Tab, Refuse(t) PROVE OwnCookieInv'
  BY <1>11 DEF Refuse, Moves
<1>12. ASSUME NEW t \in Tab, Check(t) PROVE OwnCookieInv'
  BY <1>12 DEF Check, Moves
<1>13. ASSUME NEW t \in Tab, Exchanged(t) PROVE OwnCookieInv'
  BY <1>13 DEF Exchanged, Moves
<1>14. ASSUME NEW t \in Tab, Redirected(t) PROVE OwnCookieInv'
  BY <1>14 DEF Redirected, Moves
<1>15. ASSUME NEW t \in Tab, Replied(t) PROVE OwnCookieInv'
  BY <1>15 DEF Replied, Moves, Forget
<1>16. ASSUME NEW t \in Tab, SignedOut(t) PROVE OwnCookieInv'
  BY <1>16 DEF SignedOut, Moves
<1>17. CASE Restart
  BY <1>17 DEF Restart
<1>18. CASE FlowExpires
  BY <1>18 DEF FlowExpires
<1>19. CASE SessionExpires
  BY <1>19 DEF SessionExpires
<1>20. CASE UNCHANGED vars
  BY <1>20 DEF vars
<1> QED
  BY <1>1, <1>2, <1>3, <1>4, <1>5, <1>6, <1>7, <1>8, <1>9, <1>10,
     <1>11, <1>12, <1>13, <1>14, <1>15, <1>16, <1>17, <1>18, <1>19, <1>20
  DEF Next, User, Lock, Handle, Arrive

(* A flow that this process does not open will not be opened by a later    *)
(* one either.                                                             *)
LEMMA UndisturbedStep ==
  TypeOK /\ FlowInv /\ KeyInv /\ OwnCookieInv /\ UndisturbedSucceeds /\ [Next]_vars =>
    UndisturbedSucceeds'
<1> SUFFICES ASSUME TypeOK, FlowInv, KeyInv, OwnCookieInv, UndisturbedSucceeds, [Next]_vars
             PROVE  UndisturbedSucceeds'
  OBVIOUS
<1> USE DEF TypeOK, UndisturbedSucceeds, SealingKey, server, times, tabs
<1>1. ASSUME NEW t \in Tab, Begin(t) PROVE UndisturbedSucceeds'
  BY <1>1 DEF Begin, Forget
<1>2. ASSUME NEW t \in Tab, SignOut(t) PROVE UndisturbedSucceeds'
  BY <1>2 DEF SignOut, Moves
<1>3. ASSUME NEW t \in Tab, Leave(t) PROVE UndisturbedSucceeds'
  BY <1>3 DEF Leave, Moves, Forget
<1>4. ASSUME NEW t \in Tab, NEW answer \in {"code", "error"}, Return(t, answer) PROVE UndisturbedSucceeds'
  BY <1>4 DEF Return, Moves
<1>5. ASSUME NEW t \in Tab, Reload(t) PROVE UndisturbedSucceeds'
  BY <1>5 DEF Reload, Moves
<1>6. ASSUME NEW t \in Tab, Fetch(t) PROVE UndisturbedSucceeds'
  BY <1>6 DEF Fetch
<1>7. ASSUME NEW t \in Tab, Login(t) PROVE UndisturbedSucceeds'
  BY <1>7 DEF Login, Moves, HasProvider
<1>8. ASSUME NEW t \in Tab, Exchange(t) PROVE UndisturbedSucceeds'
  BY <1>8 DEF Exchange, Moves, HasProvider
<1>9. ASSUME NEW t \in Tab, Logout(t) PROVE UndisturbedSucceeds'
  BY <1>9 DEF Logout, Moves, HasProvider
<1>10. ASSUME NEW t \in Tab, FetchFails(t) PROVE UndisturbedSucceeds'
  BY <1>10 DEF FetchFails, Moves
<1>11. ASSUME NEW t \in Tab, Refuse(t) PROVE UndisturbedSucceeds'
  <2>1. ASSUME ~touched[t], Refusal(t) \in {"expired", "mismatch"}
        PROVE  flow[t].id \in old \/ flow[t].key # SealingKey
    BY <1>11, <2>1 DEF Refuse, Moves, Refusal, Opens, OwnCookieInv, FlowInv
  <2> QED
    BY <1>11, <2>1 DEF Refuse, Moves
<1>12. ASSUME NEW t \in Tab, Check(t) PROVE UndisturbedSucceeds'
  BY <1>12 DEF Check, Moves
<1>13. ASSUME NEW t \in Tab, Exchanged(t) PROVE UndisturbedSucceeds'
  BY <1>13 DEF Exchanged, Moves
<1>14. ASSUME NEW t \in Tab, Redirected(t) PROVE UndisturbedSucceeds'
  BY <1>14 DEF Redirected, Moves
<1>15. ASSUME NEW t \in Tab, Replied(t) PROVE UndisturbedSucceeds'
  BY <1>15 DEF Replied, Moves, Forget
<1>16. ASSUME NEW t \in Tab, SignedOut(t) PROVE UndisturbedSucceeds'
  BY <1>16 DEF SignedOut, Moves
<1>17. CASE Restart
  <2>1. ASSUME NEW t \in Tab, pc'[t] = "reply", result'[t] \in {"expired", "mismatch"},
               ~touched'[t], flow'[t].id \notin old'
        PROVE  flow'[t].key # SealingKey'
    <3>1. pc[t] = "reply" /\ flow'[t] = flow[t] /\ flow[t].key # SealingKey
      BY <1>17, <2>1 DEF Restart
    <3>2. flow[t] \in Flow /\ flow[t].key <= restarts
      BY <3>1 DEF FlowInv, KeyInv
    <3> QED
      BY <1>17, <3>1, <3>2, BoundAssumption DEF Restart, Flow, Key
  <2> QED
    BY <2>1
<1>18. CASE FlowExpires
  BY <1>18 DEF FlowExpires
<1>19. CASE SessionExpires
  BY <1>19 DEF SessionExpires
<1>20. CASE UNCHANGED vars
  BY <1>20 DEF vars
<1> QED
  BY <1>1, <1>2, <1>3, <1>4, <1>5, <1>6, <1>7, <1>8, <1>9, <1>10,
     <1>11, <1>12, <1>13, <1>14, <1>15, <1>16, <1>17, <1>18, <1>19, <1>20
  DEF Next, User, Lock, Handle, Arrive

-------------------------------------------------------------------------------
LEMMA IInvStep == IInv /\ [Next]_vars => IInv'
BY TypeStep, FlowStep, BoundStep, KeyStep, OwnCookieStep, UndisturbedStep DEF IInv

LEMMA IInvHolds == Spec => []IInv
BY InitIInv, IInvStep, PTL DEF Spec

(* The cookies, the tabs and the provider's metadata keep the shape        *)
(* oidc.go gives them.                                                     *)
THEOREM TypeCorrect == Spec => []TypeOK
<1>1. IInv => TypeOK
  BY DEF IInv
<1> QED
  BY <1>1, IInvHolds, PTL

(* A sign-in is refused as expired or as a state mismatch only when it is  *)
(* ten minutes old, was sealed before a restart, or another response in    *)
(* the same browser touched its cookie (oidc.go:176-190).                  *)
THEOREM UndisturbedSucceedsHolds == Spec => []UndisturbedSucceeds
<1>1. IInv => UndisturbedSucceeds
  BY DEF IInv
<1> QED
  BY <1>1, IInvHolds, PTL

(* The step form of SessionLasts.                                          *)
LEMMA SessionStep ==
  IInv /\ [Next]_vars =>
    [Accepted /\ ~Accepted' =>
       \/ jar'.session # Nil /\ jar'.session.expired
       \/ \E t \in Tab : pc[t] = "signout" /\ pc'[t] = "idle"
       \/ ~keyed /\ restarts' # 0]_vars
<1> DEFINE Lasts ==
      Accepted /\ ~Accepted' =>
        \/ jar'.session # Nil /\ jar'.session.expired
        \/ \E t \in Tab : pc[t] = "signout" /\ pc'[t] = "idle"
        \/ ~keyed /\ restarts' # 0
<1> SUFFICES ASSUME IInv, Next PROVE Lasts
  OBVIOUS
<1> USE DEF IInv, TypeOK, server, times, tabs, Accepted, SealingKey
<1>1. ASSUME NEW t \in Tab, Begin(t) PROVE Lasts
  BY <1>1 DEF Begin, Forget
<1>2. ASSUME NEW t \in Tab, SignOut(t) PROVE Lasts
  BY <1>2 DEF SignOut, Moves
<1>3. ASSUME NEW t \in Tab, Leave(t) PROVE Lasts
  BY <1>3 DEF Leave, Moves, Forget
<1>4. ASSUME NEW t \in Tab, NEW answer \in {"code", "error"}, Return(t, answer) PROVE Lasts
  BY <1>4 DEF Return, Moves
<1>5. ASSUME NEW t \in Tab, Reload(t) PROVE Lasts
  BY <1>5 DEF Reload, Moves
<1>6. ASSUME NEW t \in Tab, Fetch(t) PROVE Lasts
  BY <1>6 DEF Fetch
<1>7. ASSUME NEW t \in Tab, Login(t) PROVE Lasts
  BY <1>7 DEF Login, Moves, HasProvider
<1>8. ASSUME NEW t \in Tab, Exchange(t) PROVE Lasts
  BY <1>8 DEF Exchange, Moves, HasProvider
<1>9. ASSUME NEW t \in Tab, Logout(t) PROVE Lasts
  BY <1>9 DEF Logout, Moves, HasProvider
<1>10. ASSUME NEW t \in Tab, FetchFails(t) PROVE Lasts
  BY <1>10 DEF FetchFails, Moves
<1>11. ASSUME NEW t \in Tab, Refuse(t) PROVE Lasts
  BY <1>11 DEF Refuse, Moves
<1>12. ASSUME NEW t \in Tab, Check(t) PROVE Lasts
  BY <1>12 DEF Check, Moves
<1>13. ASSUME NEW t \in Tab, Exchanged(t) PROVE Lasts
  BY <1>13 DEF Exchanged, Moves
<1>14. ASSUME NEW t \in Tab, Redirected(t) PROVE Lasts
  BY <1>14 DEF Redirected, Moves
<1>15. ASSUME NEW t \in Tab, Replied(t) PROVE Lasts
  <2>1. CASE result[t] = "ok"
    <3>1. flow[t] \in Flow /\ flow[t].key <= restarts /\ (keyed => flow[t].key = 0)
      BY <1>15 DEF Replied, Moves, FlowInv, KeyInv
    <3>2. jar'.session = [key |-> flow[t].key, expired |-> FALSE]
      BY <1>15, <2>1 DEF Replied
    <3>3. jar'.session # Nil
      <4>1. jar'.session \in Session
        BY <3>1, <3>2 DEF Flow, Session
      <4> QED
        BY <4>1, NilAssumption
    <3>4. keyed' = keyed /\ restarts' = restarts
      BY <1>15 DEF Replied
    <3> QED
      BY <3>1, <3>2, <3>3, <3>4, BoundAssumption DEF Flow, Key
  <2>2. CASE result[t] # "ok"
    BY <1>15, <2>2 DEF Replied
  <2> QED
    BY <2>1, <2>2
<1>16. ASSUME NEW t \in Tab, SignedOut(t) PROVE Lasts
  BY <1>16 DEF SignedOut, Moves
<1>17. CASE Restart
  BY <1>17, BoundAssumption DEF Restart, Key
<1>18. CASE FlowExpires
  BY <1>18 DEF FlowExpires
<1>19. CASE SessionExpires
  <2>1. jar.session \in Session
    BY <1>19 DEF SessionExpires
  <2>2. [jar.session EXCEPT !.expired = TRUE] \in Session
    BY <2>1 DEF Session
  <2>3. jar'.session = [jar.session EXCEPT !.expired = TRUE]
    BY <1>19 DEF SessionExpires
  <2>4. jar'.session # Nil
    <3>1. jar'.session \in Session
      BY <2>2, <2>3
    <3> QED
      BY <3>1, NilAssumption
  <2>5. jar'.session.expired
    BY <2>1, <2>3 DEF Session
  <2> QED
    BY <2>4, <2>5
<1> HIDE DEF IInv, TypeOK, Accepted, SealingKey, Lasts
<1> QED
  BY <1>1, <1>2, <1>3, <1>4, <1>5, <1>6, <1>7, <1>8, <1>9, <1>10,
     <1>11, <1>12, <1>13, <1>14, <1>15, <1>16, <1>17, <1>18, <1>19
  DEF Next, User, Lock, Handle, Arrive

(* A session that is accepted stays accepted until it expires, a sign-out  *)
(* is answered, or the server restarts without a configured secret; failed *)
(* sign-ins in other tabs take nothing from it (oidc.go:171-190).          *)
THEOREM SessionLastsHolds == Spec => SessionLasts
BY IInvHolds, SessionStep, PTL DEF Spec, SessionLasts
===============================================================================
