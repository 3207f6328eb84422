------------------------------- MODULE TheScribe -------------------------------
(***************************************************************************)
(* TheScribe: the web pages and the files beside them.  It works on one    *)
(* request of TheSecretary at a time; between reading a package's data     *)
(* from the database and writing its pages the database may change.        *)
(***************************************************************************)
EXTENDS TheSecretary

CONSTANTS NoPage, NoData

VARIABLES
  stage,     \* "start", "read" or "write": what is next for the request served
  data,      \* what get_project_data returned
  wheels,    \* wheels in the output directory
  simple,    \* per package, the <<version, yanked>> its simple page offers
  project,   \* per package, what its project page and JSON tell
  index,     \* packages in the root index
  cache      \* package_cache

scribeVars == <<stage, data, wheels, simple, project, index, cache>>

Releases == [ver : Vers, status : {"success", "fail", "pending"},
             yanked : BOOLEAN, skipped : BOOLEAN]

ScribeTypeOK ==
  /\ stage \in {"start", "read", "write"}
  /\ data = NoData \/ data \subseteq Releases
  /\ wheels \subseteq Builds
  /\ \A p \in Pkgs : simple[p] = NoPage \/ simple[p] \subseteq Vers \X BOOLEAN
  /\ \A p \in Pkgs : project[p] = NoPage \/ project[p] \subseteq Releases
  /\ index \subseteq Pkgs /\ cache \subseteq Pkgs

ScribeInit ==
  /\ stage = "start" /\ data = NoData
  /\ wheels = {} /\ index = {} /\ cache = {}
  /\ simple = [p \in Pkgs |-> NoPage]
  /\ project = [p \in Pkgs |-> NoPage]

Client  == serving[1]
Command == serving[2]
Key     == serving[3]
Target == Key[1]

-----------------------------------------------------------------------------
\* Only a version that has a wheel is offered.
Offered(releases) ==
  {<<r.ver, r.yanked>> : r \in {o \in releases : o.status = "success"}}

WriteSimpleIndex == index' = cache'
WritePackageIndex(p, releases) == simple' = [simple EXCEPT ![p] = Offered(releases)]
WriteProjectPage(p, releases) == project' = [project EXCEPT ![p] = releases]

\* delete_version: the wheels of the version that the database knows.
DeleteVersion ==
  /\ Command = "DEL" /\ Key[2] # NoVer /\ stage = "start"
  /\ wheels' = wheels \ (Covered(Key) \cap db.files)
  /\ stage' = "read"
  /\ UNCHANGED <<secretaryVars, data, simple, project, index, cache>>

\* Mutant of GetData: a version that is being removed is still shown.
GetDataOfAll ==
  /\ \/ Command \in Rewrites /\ stage = "start"
     \/ Command = "DEL" /\ stage = "read"
  /\ data' = ProjectData(Target)
  /\ stage' = "write"
  /\ UNCHANGED <<secretaryVars, wheels, simple, project, index, cache>>

\* The first half of write_pages: the data, without the version removed.
GetData ==
  /\ \/ Command \in Rewrites /\ stage = "start"
     \/ Command = "DEL" /\ stage = "read"
  /\ data' = {r \in ProjectData(Target) : r.ver # Key[2]}
  /\ stage' = "write"
  /\ UNCHANGED <<secretaryVars, wheels, simple, project, index, cache>>

\* The second half.  A package that the cache does not know puts the root
\* index out of date.
WritePages ==
  /\ stage = "write"
  /\ WriteProjectPage(Target, data)
  /\ IF Command = "PROJECT" THEN UNCHANGED <<simple, index, cache>>
     ELSE /\ WritePackageIndex(Target, data)
          /\ cache' = cache \cup {Target}
          /\ IF Target \in cache THEN UNCHANGED index ELSE WriteSimpleIndex
  /\ stage' = "start" /\ data' = NoData
  /\ HandleDone
  /\ UNCHANGED wheels

\* delete_package: the wheels that the database knows, and all the pages.
DeletePackage ==
  /\ Command = "DEL" /\ Key[2] = NoVer
  /\ cache' = cache \ {Target}
  /\ WriteSimpleIndex
  /\ wheels' = wheels \ (Covered(Key) \cap db.files)
  /\ simple' = [simple EXCEPT ![Target] = NoPage]
  /\ project' = [project EXCEPT ![Target] = NoPage]
  /\ HandleDone
  /\ UNCHANGED <<stage, data>>

\* write_log touches no page.
WriteLog == Command = "LOG" /\ HandleDone /\ UNCHANGED scribeVars

\* handle_index: the request that TheSecretary has passed on.
HandleIndex ==
  /\ ~Idle
  /\ DeleteVersion \/ GetData \/ WritePages \/ DeletePackage \/ WriteLog

\* once: a new cache; the root index is written if there is none.
ScribeOnce ==
  /\ cache' = db.pkgs
  /\ stage' = "start" /\ data' = NoData
  /\ UNCHANGED <<wheels, simple, project, index>>
=============================================================================
