------------------------------ MODULE CloudGazer ------------------------------
(***************************************************************************)
(* What CloudGazer does for one event of PyPI: the statements of           *)
(* read_pypi's loop, in order.  "DEL" is DELPKG or DELVER sent to          *)
(* TheSecretary and to SlaveDriver at once; it ends with TheSecretary's    *)
(* answer, and "ack" with SlaveDriver's.                                   *)
(***************************************************************************)
EXTENDS Catalogue

\* An event names a version, or a package alone.
PyPIEvents ==
  [action : {"source", "create"}, key : {Package(p) : p \in Pkgs}] \cup
  [action : {"source", "binary", "yank", "unyank"}, key : Builds] \cup
  [action : {"remove"}, key : Keys]

Announce(k) == <<Do("DEL", k), Do("ack", k)>>

\* Mutant of RemoveScript: the rows go first, as MrChase does it.
RemoveRowsFirst(k) ==
  <<Skip(k, "deleted"), DeleteRow(k)>> \o Announce(k)

\* Mutant of RemoveScript: the rows are not deleted, only marked.
RemoveOnlyMarks(k) == <<Skip(k, "deleted")>> \o Announce(k)

\* A removed version is marked first, so that it is not built meanwhile, then
\* its files and pages go, and its rows last.
RemoveScript(k) ==
  <<Skip(k, "deleted")>> \o Announce(k) \o <<DeleteRow(k)>>

Rewrite(cmd, k) == <<Do(cmd, Package(k[1]))>>

Mark(e) == IF e.action = "yank" THEN YankVersion(e.key) ELSE UnyankVersion(e.key)

\* The version of an event that does not remove it.  A version known only by
\* its binaries is enabled by its first source.
VersionScript(e) ==
  LET k == e.key IN
  CASE e.action \in {"yank", "unyank"} ->
         <<Mark(e)>> \o Rewrite("BOTH", k)
    [] e.action = "source" ->
         <<AddNewPackageVersion(k, "", Rewrite("BOTH", k),
             <<IfBinaryOnly(k, <<SkipPackageVersion(k, "")>> \o Rewrite("PROJECT", k),
                          Rewrite("BOTH", k))>>)>>
    [] OTHER ->
         <<AddNewPackageVersion(k, "binary only",
                Rewrite("BOTH", k), Rewrite("BOTH", k))>>

\* One turn of read_pypi's loop, when "packages" are those it knows of.
EventScript(e, packages) ==
  LET k == e.key
      p == Package(k[1])
      name == AddPackageName(k[1])
  IN  IF e.action = "remove" THEN RemoveScript(k)
      ELSE (IF k[1] \in packages THEN <<>>
            ELSE <<AddNewPackage(p, "", <<name>> \o Rewrite("BOTH", p), <<>>)>>)
           \o <<name>>
           \o (IF k[2] = NoVer THEN <<>> ELSE VersionScript(e))

\* self.packages after it.
PackagesAfter(e, packages) ==
  CASE e.action # "remove" -> packages \cup {e.key[1]}
    [] e.action = "remove" /\ e.key[2] = NoVer -> packages \ {e.key[1]}
    [] OTHER -> packages
=============================================================================
