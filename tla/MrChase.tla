-------------------------------- MODULE MrChase --------------------------------
(***************************************************************************)
(* What MrChase does for a request of the command line tools: piw-add,     *)
(* piw-remove, piw-rebuild and piw-import.  A script ends with its reply:  *)
(* "DONE" or "ERROR" and a code, or "expect", which is SEND after FsClient *)
(* has asked for the first file of an import.                              *)
(***************************************************************************)
EXTENDS CloudGazer, SequencesExt

\* What each tool can be asked for: a package or a version, and the options.
AddRequests ==
  [tool : {"piw-add"}, key : Keys, options : SUBSET {"skip", "unskip", "yank", "unyank"}]

RemoveRequests ==
  [tool : {"piw-remove"}, key : {Package(p) : p \in Pkgs},
   options : SUBSET {"builds", "skip"}] \cup
  [tool : {"piw-remove"}, key : Builds, options : SUBSET {"builds", "skip", "yank"}]

RebuildRequests ==
  [tool : {"piw-rebuild"}, key : {Package(p) : p \in Pkgs},
   options : {o \cup {cmd} : o \in SUBSET {"all"}, cmd \in {"PROJECT", "BOTH"}}]

\* The files of an import may have an ABI that no build has.
ImportRequests == [tool : {"piw-import"}, key : Builds, options : SUBSET {"bad abi"}]

ChaseRequests == AddRequests \cup RemoveRequests \cup RebuildRequests \cup ImportRequests

\* The codes of DONE and of ERROR that a tool knows; any other is an
\* assertion that fails.
AddUnderstands ==
  [DONE |-> {"NEWPKG", "UPDPKG", "NEWVER", "UPDVER"},
   ERROR |-> {"NOPKG", "SKIPPKG", "SKIPVER", "YANKVER"}]
RemoveUnderstands ==
  [DONE |-> {"DELPKG", "DELVER", "DELPKGBLD", "DELVERBLD", "SKIPPKG", "SKIPVER", "YANKVER"},
   ERROR |-> {"NOPKG", "NOVER"}]

Understands(tool, msg, code) ==
  CASE tool = "piw-add" -> code \in AddUnderstands[msg]
    [] tool = "piw-remove" -> code \in RemoveUnderstands[msg]
    [] OTHER -> msg \in {"DONE", "ERROR"}

Done(code, k) == <<Test("DONE", k, code, <<>>, <<>>)>>
Error(code, k) == <<Test("ERROR", k, code, <<>>, <<>>)>>
When(given, statements) == IF given THEN statements ELSE <<>>

-----------------------------------------------------------------------------
\* piw-remove: without options the rows are deleted.
DoRemovePackage(r) ==
  LET k == r.key IN
  <<TestPackage(k,
      (IF r.options = {} THEN <<DeletePackageRow(k)>>
       ELSE When("skip" \in r.options, <<SkipPackage(k, "by hand")>>)
            \o When("builds" \in r.options, <<Do("releases", k)>>))
      \o Announce(k)
      \o Done(IF r.options = {} THEN "DELPKG"
              ELSE IF "builds" \in r.options THEN "DELPKGBLD" ELSE "SKIPPKG", k),
      Error("NOPKG", k))>>

\* The last of the options decides what is announced: a yank alone is not.
DoRemoveVersion(r) ==
  LET k == r.key
      code == IF "builds" \in r.options THEN "DELVERBLD"
              ELSE IF "yank" \in r.options THEN "YANKVER"
              ELSE IF "skip" \in r.options THEN "SKIPVER" ELSE "DELVER"
  IN
  <<TestPackageVersion(k,
      (IF r.options = {} THEN <<DeleteVersionRow(k)>>
       ELSE When("skip" \in r.options, <<SkipPackageVersion(k, "by hand")>>)
            \o When("yank" \in r.options, <<YankVersion(k)>> \o Rewrite("BOTH", k))
            \o When("builds" \in r.options, <<DeleteBuild(k)>>))
      \o When(code # "YANKVER", Announce(k)) \o Done(code, k),
      Error("NOVER", k))>>

SkipReason(r) == IF "skip" \in r.options THEN "by hand" ELSE ""

\* piw-add of a package: a new row, or the skip reason taken off.
DoAddPackage(r) ==
  LET k == r.key
      names == <<AddPackageName(k[1])>>
  IN <<AddNewPackage(k, SkipReason(r),
         names \o Rewrite("BOTH", k) \o Done("NEWPKG", k),
         IF "skip" \in r.options THEN Error("SKIPPKG", k)
         ELSE When("unskip" \in r.options, <<SkipPackage(k, "")>>)
              \o names \o Rewrite("PROJECT", k) \o Done("UPDPKG", k))>>

\* piw-add of a version.
DoAddVersion(r) ==
  LET k == r.key
      names == <<AddPackageName(k[1])>>
      update ==
        IF "skip" \in r.options THEN Error("SKIPVER", k)
        ELSE When("unskip" \in r.options, <<SkipPackageVersion(k, "")>>)
             \o IF "yank" \in r.options THEN Error("YANKVER", k)
                ELSE When("unyank" \in r.options, <<UnyankVersion(k)>>)
                     \o names \o Rewrite("BOTH", k) \o Done("UPDVER", k)
  IN <<TestPackage(Package(k[1]),
         <<AddNewPackageVersion(k, SkipReason(r),
             When("yank" \in r.options, <<YankVersion(k)>>)
             \o names \o Rewrite("PROJECT", k) \o Done("NEWVER", k),
             update)>>,
         Error("NOPKG", k))>>

\* piw-rebuild of the pages of a package, or of all packages.
DoRebuild(r) ==
  LET cmd == CHOOSE c \in r.options : c # "all"
      done == Done("REBUILD", r.key)
  IN IF "all" \in r.options
     THEN [i \in 1..Cardinality(db.pkgs) |-> Do(cmd, Package(SetToSeq(db.pkgs)[i]))] \o done
     ELSE <<TestPackage(r.key, Rewrite(cmd, r.key) \o done,
                 Error("unknown package", r.key))>>

\* piw-import: the build is logged, then its file is asked for.
DoImport(r) ==
  IF "bad abi" \in r.options THEN Error("invalid ABI", r.key)
  ELSE <<TestPackageVersion(r.key, <<LogBuild(r.key, TRUE), Do("expect", r.key)>>,
              Error("unknown version", r.key))>>

ChaseScript(r) ==
  CASE r.tool = "piw-remove" /\ r.key[2] = NoVer -> DoRemovePackage(r)
    [] r.tool = "piw-remove" /\ r.key[2] # NoVer -> DoRemoveVersion(r)
    [] r.tool = "piw-add" /\ r.key[2] = NoVer -> DoAddPackage(r)
    [] r.tool = "piw-add" /\ r.key[2] # NoVer -> DoAddVersion(r)
    [] r.tool = "piw-rebuild" -> DoRebuild(r)
    [] r.tool = "piw-import" -> DoImport(r)

\* A failed log_build is caught, and answered with ERROR.
Caught(s) == s.do = "logged"

-----------------------------------------------------------------------------
\* The file of an import has arrived and is verified.
DoSent(k) == <<Do("LOG", k)>> \o Rewrite("BOTH", k) \o Done("IMPORT", k)
=============================================================================
