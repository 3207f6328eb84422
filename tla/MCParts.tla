------------------------------- MODULE MCParts -------------------------------
(***************************************************************************)
(* Small instances of the modules that nothing else is composed with.  A   *)
(* behaviour is one of a single part: the variables of the others keep     *)
(* their initial values, in which none of their fair actions is enabled.   *)
(* The modules whose properties are theorems are extended, so that the     *)
(* runs check the very definitions that the proofs are about.              *)
(***************************************************************************)
EXTENDS FileTransfer, EventFeed, BuilderThread

CONSTANT None

VARIABLES
  part,
  map, offset, fetched, written,
  list, arg,
  joined, present, reply, stats, news, toDriver, toBrother, hellos, feed,
  subscribed, synced, listed, view, connected, cursor, bars, page, node, alive

\* What PyPI's log may say.
Event(a, v) == [action |-> a, version |-> v]
Yank == Event("yank", None)
AllEvents ==
  {Yank, Event("create", 1), Event("source", 1), Event("remove", 1),
   Event("create", 2), Event("remove", None)}

\* Seven chunks, the last one shorter.
Missing == INSTANCE TransferMap WITH Size <- 20, ChunkSize <- 3, NoRange <- None

\* All lists of ranges below 6.
Calls == INSTANCE RangeCalls WITH Limit <- 5, NoRange <- None

\* Two slaves; the stick stays on the main page.
Lists == INSTANCE Monitors WITH
  Slaves <- {1, 2}, Master <- 0, Rank <- <<2, 1>>,
  Answers <- {"BUILD", "CONT", "DIE"}, History <- 2, Rows <- 3,
  HasPages <- FALSE, Nobody <- None, NoNode <- None,
  MaxNews <- 1, MaxHellos <- 1, MaxSent <- 3

\* One slave, and all pages.
Pages == INSTANCE Monitors WITH
  Slaves <- {1}, Master <- 0, Rank <- <<1>>,
  Answers <- {"BUILD", "CONT", "DIE"}, History <- 2, Rows <- 3,
  HasPages <- TRUE, Nobody <- None, NoNode <- None,
  MaxNews <- 1, MaxHellos <- 1, MaxSent <- 4

mapVars == <<map, offset, fetched, written>>
callVars == <<list, arg>>
monitorVars == <<joined, present, reply, stats, news, toDriver, toBrother, hellos,
                 feed, subscribed, synced, listed, view, connected, cursor, bars,
                 page, node, alive>>
parts == <<part, vars, mapVars, callVars, feedVars, builderVars, monitorVars>>

\* Of the feed there are two parts: in one all rows are of a kind, and only
\* their times matter; in the other there are four rows of any kind, and two
\* that follow let them be read, a pair at a time.
OneKind == \A k \in DOMAIN changelog' : changelog'[k].action = Yank.action
InPairs ==
  \A k \in DOMAIN changelog' :
    /\ changelog'[k].ts = <<0, 0, 1, 1, 3, 5>>[k]
    /\ changelog'[k].action = Yank.action <=> k > 4

PartsInit ==
  /\ part \in {"upload", "missing", "calls", "times", "kinds", "build", "lists", "pages"}
  /\ Init /\ Missing!MapInit /\ Calls!CallsInit /\ FeedInit /\ BuilderInit
  /\ IF part = "pages" THEN Pages!MonitorInit ELSE Lists!MonitorInit

\* A step of one part; the variables of the others stay.
PartsNext ==
  \/ /\ part = "upload" /\ Next
     /\ UNCHANGED <<part, mapVars, callVars, feedVars, builderVars, monitorVars>>
  \/ /\ part = "missing" /\ Missing!MapNext
     /\ UNCHANGED <<part, vars, callVars, feedVars, builderVars, monitorVars>>
  \/ /\ part = "calls" /\ Calls!CallsNext
     /\ UNCHANGED <<part, vars, mapVars, feedVars, builderVars, monitorVars>>
  \/ /\ part = "times" /\ FeedNext /\ OneKind
     /\ UNCHANGED <<part, vars, mapVars, callVars, builderVars, monitorVars>>
  \/ /\ part = "kinds" /\ FeedNext /\ InPairs
     /\ UNCHANGED <<part, vars, mapVars, callVars, builderVars, monitorVars>>
  \/ /\ part = "build" /\ BuilderNext
     /\ UNCHANGED <<part, vars, mapVars, callVars, feedVars, monitorVars>>
  \/ /\ part = "lists" /\ Lists!MonitorNext
     /\ UNCHANGED <<part, vars, mapVars, callVars, feedVars, builderVars>>
  \/ /\ part = "pages" /\ Pages!MonitorNext
     /\ UNCHANGED <<part, vars, mapVars, callVars, feedVars, builderVars>>

\* Fairness of FileTransfer and BuilderSpec of BuilderThread, restated for the
\* part that runs.
PartsFairness ==
  /\ \A a \in Addrs : WF_vars(part = "upload" /\ HandleFile(a))
  /\ \A s \in Slaves : WF_vars(part = "upload" /\ SlaveStep(s))
  /\ WF_builderVars(part = "build" /\ ThreadStep)
  /\ WF_builderVars(part = "build" /\ (CloseBuild \/ Shutdown))

PartsSpec == PartsInit /\ [][PartsNext]_parts /\ PartsFairness

-----------------------------------------------------------------------------
\* The properties of the parts that have several, or share their variables.
\* The others are those of the modules.

TypesAreRight ==
  /\ TypeOK /\ FeedTypeOK /\ BuilderTypeOK
  /\ IF part = "pages" THEN Pages!MonitorTypeOK ELSE Lists!MonitorTypeOK

\* The functions on ranges are those on sets (RangesAreSets); the map of a
\* transfer is what is missing, and its fetches are chunks of it (MapIsMissing,
\* FetchesAreChunks, FetchesAreUseful).
RangesAreSets ==
  /\ part = "calls" => Calls!RangesAreSets
  /\ part = "missing" =>
       Missing!MapIsMissing /\ Missing!FetchesAreChunks /\ Missing!FetchesAreUseful

\* A monitor shows of the slaves what the master knows.
ViewCatchesUp ==
  /\ part = "pages" => Pages!ViewCatchesUp
  /\ part = "lists" => Lists!ViewCatchesUp

\* The bars are those of the selected entry.
BarsAreSelected ==
  /\ part = "pages" => Pages!BarsAreSelected
  /\ part = "lists" => Lists!BarsAreSelected
=============================================================================
