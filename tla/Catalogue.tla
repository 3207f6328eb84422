------------------------------ MODULE Catalogue ------------------------------
(***************************************************************************)
(* The rows of the piwheels database from which the web pages are made,    *)
(* and the transactions on them, as the tasks call them one after another. *)
(* A version has at most one wheel here, whichever ABI built it.           *)
(***************************************************************************)
EXTENDS Integers, FiniteSets, SequencesExt

CONSTANTS
  Pkgs,    \* package names
  Vers,    \* version names
  NoVer    \* the None that stands for every version of a package

ASSUME CatalogueAssumption == NoVer \notin Vers

Builds == Pkgs \X Vers
Keys   == Pkgs \X (Vers \cup {NoVer})
Package(p) == <<p, NoVer>>

Covers(k, b) == k[1] = b[1] /\ k[2] \in {NoVer, b[2]}
Covered(k) == {b \in Builds : Covers(k, b)}

SkipReasons == {"", "deleted", "binary only", "by hand"}

VARIABLE
  db       \* pkgs and vers: the rows; files and fails: versions with a wheel
           \* and with a failed build; yanked; skip: the reason of each key

CatalogueTypeOK ==
  db \in [pkgs : SUBSET Pkgs, vers : SUBSET Builds, files : SUBSET Builds,
          fails : SUBSET Builds, yanked : SUBSET Builds, skip : [Keys -> SkipReasons]]

CatalogueInit ==
  db = [pkgs |-> {}, vers |-> {}, files |-> {}, fails |-> {}, yanked |-> {},
        skip |-> [k \in Keys |-> ""]]

-----------------------------------------------------------------------------
\* What get_project_data returns: the rows of the versions.  A package that
\* has no row at all is no error; it has no versions.
Status(b) == IF b \in db.files THEN "success"
             ELSE IF b \in db.fails THEN "fail" ELSE "pending"

ProjectData(p) ==
  {[ver     |-> b[2],
    status  |-> Status(b),
    yanked  |-> b \in db.yanked,
    skipped |-> db.skip[b] # "" \/ db.skip[Package(p)] # ""] :
      b \in {v \in db.vers : v[1] = p}}

-----------------------------------------------------------------------------
\* A call of a database function: a statement of a task, executed as one
\* transaction.  Those that answer decide which statements come next.
Test(do, key, arg, yes, no) ==
  [do |-> do, key |-> key, arg |-> arg, yes |-> yes, no |-> no]
Do(do, key) == Test(do, key, "", <<>>, <<>>)

AddNewPackage(k, reason, yes, no) == Test("addpkg", k, reason, yes, no)
AddNewPackageVersion(k, reason, yes, no) == Test("addver", k, reason, yes, no)
AddPackageName(p) == Do("name", Package(p))
SkipPackage(k, reason) == Test("skip", k, reason, <<>>, <<>>)
SkipPackageVersion(k, reason) == Test("skip", k, reason, <<>>, <<>>)
DeletePackageRow(k) == Do("delete", k)
DeleteVersionRow(k) == Do("delete", k)
YankVersion(k) == Do("yank", k)
UnyankVersion(k) == Do("unyank", k)
TestPackage(k, yes, no) == Test("exists", k, "", yes, no)
TestPackageVersion(k, yes, no) == Test("exists", k, "", yes, no)
IfBinaryOnly(k, yes, no) == Test("binary", k, "", yes, no)
DeleteBuild(k) == Do("delbuilds", k)
LogBuild(k, status) == Do(IF status THEN "logged" ELSE "failed", k)

Skip(k, reason) ==
  IF k[2] = NoVer THEN SkipPackage(k, reason) ELSE SkipPackageVersion(k, reason)
DeleteRow(k) == IF k[2] = NoVer THEN DeletePackageRow(k) ELSE DeleteVersionRow(k)

-----------------------------------------------------------------------------
\* What the functions of the database do.
Known(k) == IF k[2] = NoVer THEN k[1] \in db.pkgs ELSE k \in db.vers

\* A foreign key has no row to refer to: the caller gets an IOError.
Refused(s) ==
  \/ s.do \in {"name", "addver"} /\ s.key[1] \notin db.pkgs
  \/ s.do \in {"logged", "failed"} /\ s.key \notin db.vers

Answer(s) ==
  CASE s.do \in {"addpkg", "addver"} -> ~Known(s.key)
    [] s.do = "exists" -> Known(s.key)
    [] s.do = "binary" -> db.skip[s.key] = "binary only"
    [] OTHER -> TRUE

\* The statements that come next: "releases" stands for a loop over versions.
Following(s) ==
  IF s.do # "releases" THEN IF Answer(s) THEN s.yes ELSE s.no
  ELSE LET vs == SetToSeq({v \in db.vers : v[1] = s.key[1]})
       IN [i \in DOMAIN vs |-> DeleteBuild(vs[i])]

PackageAdded(k, reason) ==
  IF Known(k) THEN db ELSE [db EXCEPT !.pkgs = @ \cup {k[1]}, !.skip[k] = reason]
VersionAdded(k, reason) ==
  IF Known(k) THEN db ELSE [db EXCEPT !.vers = @ \cup {k}, !.skip[k] = reason]
Skipped(k, reason) == IF Known(k) THEN [db EXCEPT !.skip[k] = reason] ELSE db
Yanked(k) == [db EXCEPT !.yanked = @ \cup ({k} \cap db.vers)]
Unyanked(k) == [db EXCEPT !.yanked = @ \ {k}]
BuildsDeleted(k) == [db EXCEPT !.files = @ \ {k}, !.fails = @ \ {k}]
SuccessLogged(k) == [db EXCEPT !.files = @ \cup {k}]
FailureLogged(k) == [db EXCEPT !.fails = @ \cup {k}]

\* Rows that go with the version (or package) by ON DELETE CASCADE.
Without(k) ==
  [db EXCEPT !.pkgs = IF k[2] = NoVer THEN @ \ {k[1]} ELSE @,
             !.vers = @ \ Covered(k), !.files = @ \ Covered(k),
             !.fails = @ \ Covered(k), !.yanked = @ \ Covered(k),
             !.skip = [o \in Keys |->
                         IF o = k \/ o \in Covered(k) THEN "" ELSE @[o]]]

Executed(s) ==
  CASE s.do = "addpkg" -> PackageAdded(s.key, s.arg)
    [] s.do = "addver" -> VersionAdded(s.key, s.arg)
    [] s.do = "skip" -> Skipped(s.key, s.arg)
    [] s.do = "yank" -> Yanked(s.key)
    [] s.do = "unyank" -> Unyanked(s.key)
    [] s.do = "delete" -> Without(s.key)
    [] s.do = "delbuilds" -> BuildsDeleted(s.key)
    [] s.do = "logged" -> SuccessLogged(s.key)
    [] s.do = "failed" -> FailureLogged(s.key)
    [] OTHER -> db
=============================================================================
