---------------------------- MODULE Kustomization ----------------------------
(***************************************************************************)
(* The kustomization.yaml of a platform directory (cli/kustomize.go): what *)
(* kubectl apply -k applies.  pbom init writes it, pbom kustomize and pbom *)
(* release create write it again from the files there are, if it is theirs *)
(* (it starts with kustomizeMarker).  People add and delete files, and     *)
(* write, rearrange and delete this one, between any two steps of a        *)
(* command; reads and writes fail, and a command may be killed.            *)
(*                                                                         *)
(* Of the files that are listed only the releases are modelled.  Commands  *)
(* run one at a time.                                                      *)
(***************************************************************************)
CONSTANTS
  Releases, \* the releases there may be
  Beside,   \* the releases directory is releases/ beside the platform file
  NoRelease \* no release

ASSUME BesideAssumption == Beside \in BOOLEAN
ASSUME NoReleaseAssumption == NoRelease \notin Releases

VARIABLES
  directory, \* the release files
  file,      \* kustomization.yaml: absent, foreign (people wrote it), own
             \* (pbom did), torn (cut short within the marker: empty, mostly)
             \* or damaged (cut short after it)
  resources, \* the releases that it lists, if it is pbom's own
  pc,        \* what the command that is running does next
  creating,  \* the release it has created
  listing,   \* the releases it has found
  outcome,   \* what the latest command told: created (nothing of the
             \* kustomization), updated, refused or error
  told       \* history: releases whose creation told updated

kustomizationVars == <<directory, file, resources, pc, creating, listing, outcome, told>>

Marked == file \in {"own", "damaged"}

KustomizationInit ==
  /\ directory \in SUBSET Releases
  /\ \/ file = "own" /\ resources = directory
     \/ file \in {"absent", "foreign"} /\ resources = {}
  /\ pc = "idle"
  /\ creating = NoRelease
  /\ listing = {}
  /\ outcome = "none"
  /\ told = {}

End(result) ==
  /\ pc' = "idle"
  /\ creating' = NoRelease
  /\ listing' = {}
  /\ outcome' = result

Go(step) == pc' = step /\ UNCHANGED <<creating, outcome>>

-------------------------------------------------------------------------------
(* pbom release create writes the release, an existing one with --force.   *)
Create(n, force) ==
  /\ pc = "idle"
  /\ n \in directory => force
  /\ directory' = directory \cup {n}
  /\ told' = told \ {n}
  /\ creating' = n
  /\ outcome' = "none"
  /\ pc' = "sync"
  /\ UNCHANGED <<file, resources, listing>>

(* That fails, and may leave a file that is cut short. *)
CreateFails(n, force) ==
  /\ pc = "idle"
  /\ n \in directory => force
  /\ directory' \in {directory, directory \cup {n}}
  /\ told' = told \ {n}
  /\ End("error")
  /\ UNCHANGED <<file, resources>>

(* syncKustomization: without a file of pbom's, or if it cannot be read,    *)
(* the command succeeds and tells nothing of it.                           *)
SyncNothing ==
  /\ pc = "sync"
  /\ End("created")
  /\ UNCHANGED <<directory, file, resources, told>>

SyncOwn ==
  /\ pc = "sync"
  /\ Marked
  /\ Go("check")
  /\ UNCHANGED <<directory, file, resources, listing, told>>

(* pbom kustomize. *)
Kustomize ==
  /\ pc = "idle"
  /\ pc' = "check"
  /\ outcome' = "none"
  /\ UNCHANGED <<directory, file, resources, creating, listing, told>>

(* writeKustomization refuses a file it has read that does not start with  *)
(* the marker; one that it cannot read it takes for missing.               *)
Refuse ==
  /\ pc = "check"
  /\ file \in {"foreign", "torn"}
  /\ End("refused")
  /\ UNCHANGED <<directory, file, resources, told>>

Check ==
  /\ pc = "check"
  /\ Marked \/ file = "absent"
  /\ Go("list")
  /\ UNCHANGED <<directory, file, resources, listing, told>>

CheckUnread ==
  /\ pc = "check"
  /\ file # "absent"
  /\ Go("list")
  /\ UNCHANGED <<directory, file, resources, listing, told>>

List ==
  /\ pc = "list"
  /\ listing' = IF Beside THEN directory ELSE {}
  /\ Go("write")
  /\ UNCHANGED <<directory, file, resources, told>>

Writes(kind, lists) ==
  /\ file' = kind
  /\ resources' = lists

(* Mutant: success is told whatever has become of the file. *)
WriteBlindly ==
  /\ pc = "write"
  /\ Writes("own", listing) \/ Writes(file, resources)
  /\ told' = told \cup ({creating} \ {NoRelease})
  /\ End("updated")
  /\ UNCHANGED directory

Write ==
  /\ pc = "write"
  /\ Writes("own", listing)
  /\ told' = told \cup ({creating} \ {NoRelease})
  /\ End("updated")
  /\ UNCHANGED directory

(* The file is truncated first: a disk that is full, or the end of the     *)
(* process, leaves part of it.                                             *)
WriteFails ==
  /\ pc = "write"
  /\ Writes("torn", {}) \/ Writes("damaged", {})
  /\ End("error")
  /\ UNCHANGED <<directory, told>>

(* Another step fails, or the command is killed. *)
Stop ==
  /\ pc # "idle"
  /\ End("error")
  /\ UNCHANGED <<directory, file, resources, told>>

-------------------------------------------------------------------------------
(* People add a release and delete one ...                                 *)
Add(n) ==
  /\ n \notin directory
  /\ directory' = directory \cup {n}
  /\ UNCHANGED <<file, resources, pc, creating, listing, outcome, told>>

Remove(n) ==
  /\ n \in directory
  /\ directory' = directory \ {n}
  /\ told' = told \ {n}
  /\ creating' = IF creating = n THEN NoRelease ELSE creating
  /\ UNCHANGED <<file, resources, pc, listing, outcome>>

(* ... write a kustomization.yaml of their own or delete it, and take       *)
(* releases out of one of pbom's.                                          *)
Replace ==
  /\ file' \in {"foreign", "absent"}
  /\ resources' = {}
  /\ UNCHANGED <<directory, pc, creating, listing, outcome, told>>

Unlist(n) ==
  /\ n \in resources
  /\ resources' = resources \ {n}
  /\ told' = told \ {n}
  /\ UNCHANGED <<directory, file, pc, creating, listing, outcome>>

People ==
  \/ \E n \in Releases : Add(n) \/ Remove(n) \/ Unlist(n)
  \/ Replace

Command ==
  \/ \E n \in Releases, force \in BOOLEAN : Create(n, force) \/ CreateFails(n, force)
  \/ SyncNothing \/ SyncOwn
  \/ Kustomize \/ Refuse \/ Check \/ CheckUnread \/ List \/ Write \/ WriteFails
  \/ Stop

KustomizationNext == Command \/ People

KustomizationSpec == KustomizationInit /\ [][KustomizationNext]_kustomizationVars

-------------------------------------------------------------------------------
KustomizationTypeOK ==
  /\ directory \subseteq Releases
  /\ file \in {"absent", "foreign", "own", "torn", "damaged"}
  /\ resources \subseteq Releases /\ (file # "own" => resources = {})
  /\ pc \in {"idle", "sync", "check", "list", "write"}
  /\ creating \in Releases \cup {NoRelease}
  /\ listing \subseteq Releases
  /\ outcome \in {"none", "created", "updated", "refused", "error"}
  /\ told \subseteq directory

(* A release is applied with the rest of the directory if its creation has *)
(* told that the kustomization was updated, as long as it is there and     *)
(* people have not taken it out, whatever other commands have come since;  *)
(* excepted are a file that is no longer pbom's or was cut short, and      *)
(* releases of another directory than releases/ (cli/kustomize.go:86-99).  *)
UpdatedIsApplied == Beside /\ file = "own" => told \subseteq resources
===============================================================================
