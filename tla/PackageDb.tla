------------------------------ MODULE PackageDb ------------------------------
(***************************************************************************)
(* The part of the piwheels database that decides what is built: the       *)
(* versions known to piwheels, the attempts logged for each of them, and   *)
(* the "builds_pending" view from which TheArchitect takes the build       *)
(* queues.  Every operator here is one transaction, as each call that a    *)
(* task makes through DbClient is one transaction of an Oracle.            *)
(***************************************************************************)
EXTENDS Integers, FiniteSets

CONSTANTS
  Pkgs,       \* package names
  Vers,       \* version names
  NoVer,      \* the "None" that stands for every version of a package
  Abis,       \* the build ABIs, as numbers ordered like their tags
  Released,   \* release order of the versions (the queues are sorted by it)
  Tag         \* the ABI tag of a version's wheels: "native" (the builder's
              \* own), "none" or "abi3"

Builds == Pkgs \X Vers
Keys   == Pkgs \X (Vers \cup {NoVer})

ASSUME DbAssumption ==
  /\ NoVer \notin Vers
  /\ Abis \subseteq Nat
  /\ Released \in [Builds -> Nat]
  /\ \A b, o \in Builds : Released[b] = Released[o] => b = o
  /\ Tag \in [Builds -> {"native", "none", "abi3"}]

\* A removal request names a version, or a package to cover all its versions.
Covers(k, b) == k[1] = b[1] /\ k[2] \in {NoVer, b[2]}

VARIABLES
  versions,   \* "live", "skipped" (a skip reason is set) or "gone" (no row)
  logged      \* per ABI, its rows in "builds": some "bare" of files, one with
              \* the "wheel" (a file belongs to the last build that made it)

dbVars == <<versions, logged>>

DbTypeOK ==
  /\ versions \in [Builds -> {"live", "skipped", "gone"}]
  /\ logged \in [Abis -> [Builds -> SUBSET {"bare", "wheel"}]]

DbInit ==
  /\ versions = [b \in Builds |-> "live"]
  /\ logged = [a \in Abis |-> [b \in Builds |-> {}]]

-----------------------------------------------------------------------------
\* What the query takes for an attempt of b on a: a wheel tagged "none" of any
\* builder, a wheel tagged with that ABI, or a build that owns no file.
CountsFor(a, b) ==
  \/ Tag[b] = "none" /\ \E o \in Abis : "wheel" \in logged[o][b]
  \/ Tag[b] = "native" /\ "wheel" \in logged[a][b]
  \/ "bare" \in logged[a][b]

Unattempted(b) == {a \in Abis : ~CountsFor(a, b)}

\* Mutant of BuildsPending: every ABI that is still to be attempted at once.
BuildsPendingAll ==
  [a \in Abis |-> {b \in Builds : versions[b] = "live" /\ a \in Unattempted(b)}]

\* builds_pending: a version is queued for the lowest such ABI only.
BuildsPending ==
  [a \in Abis |-> {b \in Builds :
                     /\ versions[b] = "live"
                     /\ a \in Unattempted(b)
                     /\ \A o \in Unattempted(b) : a <= o}]

\* log_build: the row in "builds" (and those in "files" on success).  The
\* foreign key on "versions" is what makes it fail once the version is gone;
\* a success without any file passes, as ARRAY_LENGTH of no elements is NULL.
CanLog(b) == versions[b] # "gone"

\* The builders whose wheel of b has the same file name as a's.
SameFile(a, b) == IF Tag[b] = "native" THEN {a} ELSE Abis

\* A new wheel replaces the file of that name, whose build is left bare.
LogBuild(a, b, outcome) ==
  /\ logged' = [o \in Abis |-> [logged[o] EXCEPT ![b] =
                  (IF outcome = "wheel" /\ "wheel" \in @ /\ o \in SameFile(a, b)
                   THEN {"bare"} ELSE @)
                  \cup (IF o = a THEN {outcome} ELSE {})]]
  /\ UNCHANGED versions

SkipVersions(k) ==
  /\ versions' = [b \in Builds |->
                    IF Covers(k, b) /\ versions[b] = "live"
                    THEN "skipped" ELSE versions[b]]
  /\ UNCHANGED logged

\* Deleting the version (or package) cascades to its builds and files.
DeleteVersions(k) ==
  /\ versions' = [b \in Builds |-> IF Covers(k, b) THEN "gone" ELSE versions[b]]
  /\ logged' = [a \in Abis |-> [b \in Builds |->
                    IF Covers(k, b) THEN {} ELSE logged[a][b]]]

\* add_new_package_version: a version that has a row is left as it is.
AddVersion(b) ==
  /\ versions[b] = "gone"
  /\ versions' = [versions EXCEPT ![b] = "live"]
  /\ UNCHANGED logged
=============================================================================
