------------------------------ MODULE ConfigSource ------------------------------
(***************************************************************************)
(* What the two ways of feeding pbom serve promise, files that are watched *)
(* and custom resources that are followed, and nothing of how: inputs that *)
(* change on their own, and one service, loaded from a point of each.      *)
(*                                                                         *)
(* What is served loads, is of points that the inputs had reached, and is  *)
(* never behind what was served before, in no input. A reload is reported  *)
(* as failed for inputs since then that do not load or because one could   *)
(* not be read, and then it takes nothing away; that one succeeded is      *)
(* reported as it takes effect.                                            *)
(***************************************************************************)
EXTENDS Naturals

CONSTANTS
  Input,      \* the platform, the components, ...
  Acceptable, \* the combinations of points that load
  NoService   \* nothing is served yet

VARIABLES
  latest, \* the point each input has reached
  served, \* the points that the served service was loaded from
  reload, \* the outcome of the latest load: none, ok, failed
  errors  \* how many loads could not read an input

vars == <<latest, served, reload, errors>>

Init ==
  /\ latest = [i \in Input |-> 1]
  /\ served = NoService
  /\ reload = "none"
  /\ errors = 0

Change(i) ==
  /\ latest' = [latest EXCEPT ![i] = @ + 1]
  /\ UNCHANGED <<served, reload, errors>>

(* What a load may read of an input; of others it may at another moment.   *)
Readable(i) == (IF served = NoService THEN 0 ELSE served[i])..latest[i]

Loads == {points \in [Input -> UNION {Readable(i) : i \in Input}] :
           \A i \in Input : points[i] \in Readable(i)}

Adopt ==
  /\ reload' = "ok"
  /\ served' \in Loads \cap Acceptable
  /\ UNCHANGED <<latest, errors>>

Refuse ==
  /\ reload' = "failed"
  /\ UNCHANGED <<latest, served, errors>>
  /\ ~(Loads \subseteq Acceptable)

Fail ==
  /\ reload' = "failed"
  /\ errors' = errors + 1
  /\ UNCHANGED <<latest, served>>

Next == (\E i \in Input : Change(i)) \/ Adopt \/ Refuse \/ Fail

Spec == Init /\ [][Next]_vars
===============================================================================
