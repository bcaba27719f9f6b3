---------------------------- MODULE MCCompliance ----------------------------
(* Two environments of two components. ingress runs as 1.0.0-rc.1, 1.0.0 or  *)
(* 2.0.0 while upstream is at 2.2 and supports two minors; crds runs as 3 or *)
(* 3.1, the latest, or does not tell its version.                            *)
(*                                                                           *)
(* The kustomization.yaml of the directory is explored beside the platform:  *)
(* each while the other one is where it starts.  They share no state, so     *)
(* that nothing of either is lost.                                           *)
EXTENDS Compliance, Kustomization

V(parts, major, minor, suffix) ==
  [parts |-> parts, major |-> major, minor |-> minor, patch |-> 0, suffix |-> suffix]

rc   == V(3, 1, 0, "rc.1")
one  == V(3, 1, 0, "")
two  == V(3, 2, 0, "")
line == V(2, 1, 0, "")
crd  == V(1, 3, 0, "")
crd1 == V(2, 3, 1, "")

MCSuffixes == {"", "rc.1"}
MCPrereleases == {"rc.1"}
MCComponents == {"ingress", "crds"}
MCFiles == <<rc, one>>
MCOrder == <<"dev", "prod">>
MCProduction == {"prod"}
MCSupportedMinors == [c \in MCComponents |-> IF c = "ingress" THEN 2 ELSE 0]
MCDeployable == [c \in MCComponents |-> IF c = "ingress" THEN {rc, one, two} ELSE {Empty, crd, crd1}]
MCPins == [c \in MCComponents |-> IF c = "ingress" THEN {rc, one, line} ELSE {crd}]
MCLesser == [c \in MCComponents |-> IF c = "ingress" THEN {two} ELSE {}]
MCStart == [e \in Environments |-> [c \in {"ingress"} |-> IF e = "prod" THEN rc ELSE one]]
NoReleases == [n \in {} |-> rc]
OneRelease == [n \in {one} |-> [version |-> one, components |-> [c \in {"ingress"} |-> one]]]
MCStartReleases == {NoReleases, OneRelease}
MCUpstream ==
  [c \in MCComponents |-> IF c = "ingress" THEN <<V(3, 2, 2, ""), V(3, 2, 1, ""), two, one>>
                          ELSE <<V(3, 3, 1, "")>>]

MCReleases == {"r1", "r2", "r3"}

(* The file of a directory without releases, after init has written it. *)
Generated == KustomizationInit /\ directory = {} /\ file = "own"

MCInit == Init /\ Generated
MCNext ==
  \/ Generated /\ Next /\ UNCHANGED kustomizationVars
  \/ Init /\ KustomizationNext /\ UNCHANGED vars

MCSpec == MCInit /\ [][MCNext]_<<vars, kustomizationVars>>
=============================================================================
