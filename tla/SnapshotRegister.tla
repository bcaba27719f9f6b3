--------------------------- MODULE SnapshotRegister ---------------------------
(***************************************************************************)
(* What the inventory cache promises its callers, and nothing of how: one  *)
(* register holding the number of the latest snapshot.  Every call takes   *)
(* effect at a single instant, by reading the register or by publishing    *)
(* the next snapshot, and is never told that there is none.                *)
(***************************************************************************)
EXTENDS Naturals

CONSTANT Caller

VARIABLES
  latest, \* the number of snapshots published
  phase,  \* each caller: idle, waiting for its answer, or answered
  got     \* the number of the snapshot it was given

vars == <<latest, phase, got>>

Init ==
  /\ latest = 0
  /\ phase = [c \in Caller |-> "idle"]
  /\ got = [c \in Caller |-> 0]

Invoke(c) ==
  /\ phase[c] = "idle"
  /\ phase' = [phase EXCEPT ![c] = "waiting"]
  /\ UNCHANGED <<latest, got>>

Read(c) ==
  /\ phase[c] = "waiting"
  /\ latest > 0
  /\ phase' = [phase EXCEPT ![c] = "answered"]
  /\ got' = [got EXCEPT ![c] = latest]
  /\ UNCHANGED latest

Publish(c) ==
  /\ phase[c] = "waiting"
  /\ latest' = latest + 1
  /\ phase' = [phase EXCEPT ![c] = "answered"]
  /\ got' = [got EXCEPT ![c] = latest']

Return(c) ==
  /\ phase[c] = "answered"
  /\ phase' = [phase EXCEPT ![c] = "idle"]
  /\ got' = [got EXCEPT ![c] = 0]
  /\ UNCHANGED latest

Next == \E c \in Caller : Invoke(c) \/ Read(c) \/ Publish(c) \/ Return(c)

Spec == Init /\ [][Next]_vars

FairSpec == Spec /\ \A c \in Caller : WF_vars(Read(c) \/ Publish(c))

===============================================================================
