------------------------------ MODULE Versions ------------------------------
(* The loosely semver-shaped versions of internal/version: image tags, Helm *)
(* appVersions, git tags. A string is abstracted to what Parse makes of it:  *)
(* how many numeric components it has, the components (absent ones are 0)    *)
(* and the suffix. A string that does not parse has no components; it keeps  *)
(* only its rank in the order of strings, as its major number.               *)
EXTENDS Integers

CONSTANTS Suffixes,      \* what may follow the numbers
          NoSuffix,      \* nothing follows them
          Prereleases    \* the alpha, beta and rc style suffixes

ASSUME SuffixAssumption ==
  NoSuffix \in Suffixes /\ Prereleases \subseteq Suffixes \ {NoSuffix}

Version ==
  {v \in [parts : 0..3, major : Nat, minor : Nat, patch : Nat, suffix : Suffixes] :
     /\ v.parts < 3 => v.patch = 0
     /\ v.parts < 2 => v.minor = 0
     /\ v.parts = 0 => v.suffix = NoSuffix}

Parsed(v) == v.parts > 0

(* The empty string: no version at all. It is the first of all strings.      *)
Empty == [parts |-> 0, major |-> 0, minor |-> 0, patch |-> 0, suffix |-> NoSuffix]

Prerelease(v) == v.suffix \in Prereleases

Normalize(v) == [v EXCEPT !.suffix = NoSuffix]

(* How a version found is shown: distribution suffixes are dropped.          *)
Display(v) == IF Prerelease(v) THEN v ELSE Normalize(v)

-----------------------------------------------------------------------------
(* Orders: -1, 0 or 1 as the first is before, with or after the second.      *)

Sign(x, y) == IF x < y THEN -1 ELSE IF x > y THEN 1 ELSE 0

Compare(a, b) ==
  IF a.major # b.major THEN Sign(a.major, b.major)
  ELSE IF a.minor # b.minor THEN Sign(a.minor, b.minor)
  ELSE IF a.patch # b.patch THEN Sign(a.patch, b.patch)
  ELSE IF Prerelease(a) /\ ~Prerelease(b) THEN -1
  ELSE IF ~Prerelease(a) /\ Prerelease(b) THEN 1
  ELSE 0

CompareStrings(a, b) ==
  IF ~Parsed(a) /\ ~Parsed(b) THEN Sign(a.major, b.major)
  ELSE IF ~Parsed(a) THEN -1
  ELSE IF ~Parsed(b) THEN 1
  ELSE Compare(a, b)

Newer(a, b) == CompareStrings(a, b) > 0

-----------------------------------------------------------------------------
(* Does the version found satisfy the declared one? A declared version binds *)
(* the components it names; a full one also tells pre-releases apart.        *)

SameNumbers(d, a) ==
  /\ d.major = a.major
  /\ d.parts >= 2 => d.minor = a.minor
  /\ d.parts >= 3 => d.patch = a.patch

(* Mutant: the suffix of the version found is not looked at.                 *)
MatchesLoosely(d, a) ==
  IF Parsed(d) /\ Parsed(a) THEN SameNumbers(d, a) ELSE d = a

(* Mutant: a pre-release satisfies no full version, not even itself.         *)
MatchesFinal(d, a) ==
  IF Parsed(d) /\ Parsed(a)
    THEN SameNumbers(d, a) /\ (d.parts >= 3 => ~Prerelease(a))
    ELSE d = a

Matches(d, a) ==
  IF Parsed(d) /\ Parsed(a)
    THEN /\ SameNumbers(d, a)
         /\ d.parts >= 3 /\ (Prerelease(d) \/ Prerelease(a)) => d.suffix = a.suffix
    ELSE d = a
=============================================================================
