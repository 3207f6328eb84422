-------------------------------- MODULE Website --------------------------------
(***************************************************************************)
(* The pages of piwheels and everything that changes them: CloudGazer with *)
(* the events of PyPI, MrChase with the requests of the operator and       *)
(* SlaveDriver with the builds write the database and ask TheSecretary for *)
(* pages, which TheScribe writes from the database.                        *)
(***************************************************************************)
EXTENDS TheScribe, MrChase

CONSTANTS
  Worlds    \* what may happen in a behaviour, see World

\* events: actions of PyPI, requests: tools that the operator may run, for
\* some packages and versions; faults: "restart" and "crash" of the master;
\* a bound for each; punctual: removals and requests take less than the
\* minute of the buffer, and than a build.
World == [pkgs : SUBSET Pkgs, vers : SUBSET Vers,
          events : SUBSET {"create", "source", "binary", "yank", "unyank", "remove"},
          maxEvents : Nat,
          requests : SUBSET {"piw-add", "piw-remove", "piw-rebuild", "piw-import"},
          maxRequests : Nat,
          faults : SUBSET {"restart", "crash"}, maxFaults : Nat,
          punctual : BOOLEAN]

NoEvent == [action |-> "none", key |-> <<>>]

ASSUME WebsiteAssumption ==
  /\ Clients = {"gazer", "chase", "driver"}
  /\ Worlds \subseteq World

VARIABLES
  world,     \* the one of this behaviour
  published, \* PyPI: the packages and versions that it lists
  todo,      \* per task, the statements it has still to execute
  acked,     \* tasks whose removal SlaveDriver has taken note of
  event,     \* the event that CloudGazer works on, until its serial is saved
  packages,  \* CloudGazer's set of package names
  sending,   \* builds whose slave is sending its wheel
  excluded,  \* builds that SlaveDriver was told to exclude
  importing, \* builds whose importer is sending its wheel
  asker,     \* the tool whose request MrChase works on, or ""
  touched,   \* MrChase's request has changed the database
  halfdone,  \* history: packages changed by a request that failed
  late,      \* history: packages with a build, or a request, that ended after
             \* their removal or that of the version
  dead,      \* tasks that an exception has ended
  spent      \* events, requests and faults so far

gazerVars == <<published, event, packages>>
driverVars == <<sending, excluded>>
chaseVars == <<importing, asker, touched>>
history == <<halfdone, late>>
webVars == <<secretaryVars, scribeVars>>
vars == <<db, webVars, todo, acked, dead, gazerVars, driverVars, chaseVars, history, spent>>

\* Every tool knows the codes it is answered with: the others are assertions
\* that fail.
ToolsUnderstand ==
  \A i \in DOMAIN todo["chase"] :
    LET s == todo["chase"][i] IN
    i = 1 /\ s.do \in {"DONE", "ERROR"} => Understands(asker, s.do, s.arg)

TypeOK ==
  /\ CatalogueTypeOK /\ SecretaryTypeOK /\ ScribeTypeOK
  /\ DOMAIN todo = Clients
  /\ event \in PyPIEvents \cup {NoEvent} /\ published \subseteq Keys
  /\ packages \subseteq Pkgs /\ late \subseteq Pkgs /\ halfdone \subseteq Pkgs
  /\ sending \subseteq Builds /\ excluded \subseteq Builds /\ importing \subseteq Builds
  /\ acked \subseteq Clients /\ dead \subseteq Clients
  /\ touched \in BOOLEAN
  /\ asker \in {"", "piw-add", "piw-remove", "piw-rebuild", "piw-import"}
  /\ ToolsUnderstand
  /\ world \in Worlds
  /\ spent \in [events : 0..world.maxEvents, requests : 0..world.maxRequests,
               faults : 0..world.maxFaults]

Init ==
  /\ CatalogueInit /\ SecretaryInit /\ ScribeInit
  /\ todo = [c \in Clients |-> <<>>]
  /\ event = NoEvent /\ packages = {} /\ published = {}
  /\ sending = {} /\ excluded = {} /\ importing = {}
  /\ acked = {} /\ asker = "" /\ touched = FALSE /\ late = {} /\ halfdone = {} /\ dead = {}
  /\ world \in Worlds
  /\ spent = [events |-> 0, requests |-> 0, faults |-> 0]

\* Once a task has died the master stops; what comes of that is not followed.
Up == dead = {}
Free(c) == Up /\ todo[c] = <<>>
Current(c) == Head(todo[c])
BusyWith(c, p) == \E i \in 1..Len(todo[c]) : todo[c][i].key[1] = p
Then(c, statements) == todo' = [todo EXCEPT ![c] = statements]
InWorld(key) == key[1] \in world.pkgs /\ key[2] \in world.vers \cup {NoVer}
Spend(what) == spent' = [spent EXCEPT ![what] = @ + 1]

OwnOps == {"ack", "DONE", "ERROR", "expect"}
Asks(c) == Up /\ todo[c] # <<>> /\ Current(c).do \in Commands
Transacts(c) == Up /\ todo[c] # <<>> /\ Current(c).do \notin Commands \cup OwnOps

-----------------------------------------------------------------------------
\* One transaction of a task.  A foreign key that is violated reaches it as
\* an IOError, which ends the task unless it is caught.
Transact(c) ==
  /\ Transacts(c)
  /\ LET s == Current(c) IN
     IF Refused(s)
     THEN IF c = "chase" /\ Caught(s)
          THEN Then(c, Error("failed to log build", s.key)) /\ UNCHANGED <<db, touched, dead>>
          ELSE Then(c, <<>>) /\ dead' = dead \cup {c} /\ UNCHANGED <<db, touched>>
     ELSE /\ db' = Executed(s)
          /\ Then(c, Following(s) \o Tail(todo[c]))
          /\ touched' = IF c = "chase" THEN touched \/ db' # db ELSE touched
          /\ UNCHANGED dead
  /\ UNCHANGED <<webVars, acked, gazerVars, driverVars, importing, asker, history, spent>>

\* The pages of a removed version are gone already, its rows are not yet.
Removing(c) ==
  \E i \in 1..Len(todo[c]) :
    todo[c][i].do = "delete" /\ \A j \in 1..i : todo[c][j].do # "DEL"
Gone(p) ==
  p \notin db.pkgs \/ \E c \in Clients : Removing(c) /\ BusyWith(c, p)

\* TheSecretary takes the request that a task is waiting with.
Ask(c) ==
  /\ Asks(c)
  /\ HandleInput(c, Current(c).do, Current(c).key)
  /\ IF Current(c).do \in Rewrites THEN Then(c, Tail(todo[c])) ELSE UNCHANGED todo
  /\ late' = IF c # "gazer" /\ Gone(Current(c).key[1])
             THEN late \cup {Current(c).key[1]} ELSE late
  /\ UNCHANGED <<db, scribeVars, acked, dead, gazerVars, driverVars, chaseVars, halfdone, spent>>

\* An entry of the buffer is due; none is during a removal that is punctual.
Due ==
  /\ Up
  /\ world.punctual => ~\E c \in Clients : Removing(c)
  /\ HandleOutput
  /\ UNCHANGED <<db, scribeVars, todo, acked, dead, gazerVars, driverVars, chaseVars, history, spent>>

\* TheScribe at work; its DONE releases the task that asked.
Write ==
  /\ Up
  /\ HandleIndex
  /\ IF ~Idle' \/ serving[1] = Itself THEN UNCHANGED todo
     ELSE Then(serving[1], Tail(todo[serving[1]]))
  /\ UNCHANGED <<db, acked, dead, gazerVars, driverVars, chaseVars, history, spent>>

\* SlaveDriver's handle_delete.  A build that is being sent goes on.
Exclude(c) ==
  /\ Free("driver")
  /\ todo[c] # <<>> /\ Current(c).do \in {"DEL", "ack"}
  /\ c \notin acked
  /\ acked' = acked \cup {c}
  /\ excluded' = excluded \cup (Covered(Current(c).key) \ sending)
  /\ late' = late \cup {b[1] : b \in sending \cap Covered(Current(c).key)}
  /\ UNCHANGED <<db, webVars, todo, dead, gazerVars, sending, chaseVars, halfdone, spent>>

Acked(c) ==
  /\ Up
  /\ todo[c] # <<>> /\ Current(c).do = "ack"
  /\ c \in acked
  /\ acked' = acked \ {c}
  /\ Then(c, Tail(todo[c]))
  /\ UNCHANGED <<db, webVars, dead, gazerVars, driverVars, chaseVars, history, spent>>

-----------------------------------------------------------------------------
\* CloudGazer takes the next event; its serial is saved after the last one.
ReadPyPI(e) ==
  /\ Free("gazer") /\ event = NoEvent
  /\ e.action \in world.events /\ InWorld(e.key)
  /\ spent.events < world.maxEvents /\ Spend("events")
  /\ e.action \in {"remove", "yank", "unyank"} => e.key \in published
  /\ published' = IF e.action = "remove"
                  THEN published \ ({e.key} \cup Covered(e.key))
                  ELSE published \cup {e.key, Package(e.key[1])}
  /\ event' = e
  /\ Then("gazer", EventScript(e, packages))
  /\ packages' = PackagesAfter(e, packages)
  /\ excluded' = IF e.action = "remove" THEN excluded ELSE excluded \ {e.key}
  /\ UNCHANGED <<db, webVars, acked, dead, sending, chaseVars, history>>

SetSerial ==
  /\ Free("gazer") /\ event # NoEvent
  /\ event' = NoEvent
  /\ UNCHANGED <<db, webVars, todo, acked, dead, published, packages, driverVars, chaseVars, history, spent>>

-----------------------------------------------------------------------------
\* SlaveDriver: a build succeeds and is sent; it may have been begun before
\* its version was marked, but not after SlaveDriver was told.
\* A build takes longer than a request of the operator, if that is punctual.
Unbuilt(b) ==
  /\ b \in db.vers \ (excluded \cup db.files \cup db.fails \cup sending)
  /\ ~(world.punctual /\ BusyWith("chase", b[1]))

Built(b) ==
  /\ Free("driver") /\ Unbuilt(b)
  /\ sending' = sending \cup {b}
  /\ UNCHANGED <<db, webVars, todo, acked, dead, gazerVars, excluded, chaseVars, history, spent>>

\* Mutant of SentBuild: only the project page is asked for.
SentBuildProject(b) ==
  /\ Free("driver") /\ b \in sending
  /\ sending' = sending \ {b}
  /\ wheels' = wheels \cup {b}
  /\ Then("driver", <<LogBuild(b, TRUE), Do("LOG", b)>> \o Rewrite("PROJECT", b))
  /\ UNCHANGED <<db, secretaryVars, stage, data, simple, project, index, cache, acked, dead, gazerVars,
                 excluded, chaseVars, history, spent>>

\* Its wheel is verified and stored; the build is logged and announced.
SentBuild(b) ==
  /\ Free("driver") /\ b \in sending
  /\ sending' = sending \ {b}
  /\ wheels' = wheels \cup {b}
  /\ Then("driver", <<LogBuild(b, TRUE), Do("LOG", b)>> \o Rewrite("BOTH", b))
  /\ UNCHANGED <<db, secretaryVars, stage, data, simple, project, index, cache, acked, dead, gazerVars,
                 excluded, chaseVars, history, spent>>

FailedBuild(b) ==
  /\ Free("driver") /\ Unbuilt(b)
  /\ Then("driver", <<LogBuild(b, FALSE), Do("LOG", b)>> \o Rewrite("PROJECT", b))
  /\ UNCHANGED <<db, webVars, acked, dead, gazerVars, driverVars, chaseVars, history, spent>>

-----------------------------------------------------------------------------
\* MrChase takes a request of the operator.
HandleImport(r) ==
  /\ Free("chase")
  /\ r.tool \in world.requests /\ InWorld(r.key)
  /\ spent.requests < world.maxRequests /\ Spend("requests")
  /\ Then("chase", ChaseScript(r))
  /\ asker' = r.tool /\ touched' = FALSE
  /\ UNCHANGED <<db, webVars, acked, dead, gazerVars, driverVars, importing, history>>

\* It replies, with DONE, ERROR or SEND.
Reply ==
  /\ Up
  /\ todo["chase"] # <<>>
  /\ LET s == Current("chase") IN
     /\ s.do \in {"DONE", "ERROR", "expect"}
     /\ halfdone' = IF s.do = "ERROR" /\ touched THEN halfdone \cup {s.key[1]} ELSE halfdone
     /\ importing' = IF s.do = "expect" THEN importing \cup {s.key} ELSE importing
  /\ Then("chase", <<>>)
  /\ asker' = "" /\ touched' = FALSE
  /\ UNCHANGED <<db, webVars, acked, dead, gazerVars, driverVars, late, spent>>

\* The build that was logged is gone, or is about to be.
Doomed(b) ==
  b \notin db.files \/ \E c \in Clients : \E i \in 1..Len(todo[c]) :
    todo[c][i].do = "delete" /\ Covers(todo[c][i].key, b)

\* The importer has sent its wheel.
SentImport(b) ==
  /\ Free("chase") /\ b \in importing
  /\ importing' = importing \ {b}
  /\ wheels' = wheels \cup {b}
  /\ Then("chase", DoSent(b))
  /\ asker' = "piw-import"
  /\ late' = IF Doomed(b) THEN late \cup {b[1]} ELSE late
  /\ UNCHANGED <<db, secretaryVars, stage, data, simple, project, index, cache, acked, dead, gazerVars,
                 driverVars, touched, halfdone, spent>>

-----------------------------------------------------------------------------
\* The master starts: what the tasks kept in memory is what the database says.
Start(table) ==
  /\ Load(table) /\ ScribeOnce
  /\ todo' = [c \in Clients |->
                IF c = "gazer" /\ event # NoEvent
                THEN EventScript(event, db.pkgs) ELSE <<>>]
  /\ packages' = IF event = NoEvent THEN db.pkgs ELSE PackagesAfter(event, db.pkgs)
  /\ acked' = {} /\ sending' = {} /\ excluded' = {} /\ importing' = {}
  /\ asker' = "" /\ touched' = FALSE
  /\ halfdone' = halfdone \cup {b[1] : b \in importing}
  /\ UNCHANGED <<db, dead, published, event, late>>

\* It stops in order: the tasks finish what they are doing, and TheSecretary
\* stores its buffer.
Restart ==
  /\ Up /\ Idle /\ \A c \in Clients : todo[c] = <<>>
  /\ "restart" \in world.faults
  /\ spent.faults < world.maxFaults /\ Spend("faults")
  /\ Start(Pending)

\* It is killed: what TheSecretary stored at some earlier stop is loaded.
Crash ==
  /\ Up
  /\ "crash" \in world.faults
  /\ spent.faults < world.maxFaults /\ Spend("faults")
  /\ Start(saved)

\* Nothing left to do.
Settled ==
  /\ Idle /\ buffer = <<>> /\ dead = {} /\ event = NoEvent
  /\ sending = {} /\ importing = {}
  /\ \A c \in Clients : todo[c] = <<>>

\* The bounds are reached, or a task has died.
Over == (Settled \/ ~Up) /\ UNCHANGED vars

Step ==
  \/ \E c \in Clients : Transact(c) \/ Ask(c) \/ Exclude(c) \/ Acked(c)
  \/ Due \/ Write \/ SetSerial \/ Reply
  \/ \E b \in Builds : Built(b) \/ FailedBuild(b) \/ SentBuild(b) \/ SentImport(b)
  \/ \E e \in PyPIEvents : ReadPyPI(e)
  \/ \E r \in ChaseRequests : HandleImport(r)
  \/ Restart \/ Crash
  \/ Over

Next == Step /\ UNCHANGED world

Spec == Init /\ [][Next]_<<vars, world>>

\* Every task goes on with what it has begun.  TheSecretary's socket takes its
\* clients in turn, and its timer comes up between them.
FairSpec ==
  /\ Spec
  /\ \A c \in Clients :
       WF_vars(Transact(c) \/ Exclude(c) \/ Acked(c)) /\ SF_vars(Ask(c))
  /\ SF_vars(Due) /\ WF_vars(Write) /\ WF_vars(SetSerial) /\ WF_vars(Reply)
  /\ \A b \in Builds : SF_vars(SentBuild(b)) /\ SF_vars(SentImport(b))

-----------------------------------------------------------------------------
\* The master is not killed, requests are not slower than the minute of the
\* buffer, and nobody uses piw-remove, which deletes the rows first and pages
\* whose package stays.
Orderly ==
  /\ world.punctual /\ "crash" \notin world.faults
  /\ "piw-remove" \notin world.requests

\* When all is done, the pages of every package tell what the database says:
\* no change was forgotten, however requests were merged, upgraded, erased by
\* a removal, or saved over a restart; and the root index knows every package
\* that has a page of its own (but for one whose first page waits in the buffer
\* over a restart).  A build or an import of a version that is removed and
\* published again meanwhile is left out.
PagesSettle ==
  Orderly /\ Settled => \A p \in db.pkgs \ (halfdone \cup late) :
    /\ project[p] = ProjectData(p)
    /\ simple[p] = Offered(ProjectData(p))
    /\ world.faults = {} /\ simple[p] # NoPage => p \in index

\* A rewrite that waits in the buffer, or is merged into another, when a removal
\* begins does not outlive it: when all is done nothing is left of the package.
\* This says nothing of a package that is `late`: one of its wheels was being
\* sent when SlaveDriver was told to exclude it, or a task other than CloudGazer
\* asked for its pages after they were deleted.  There the code does bring the
\* pages back (Ask after Gone).
GoneStaysGone ==
  Orderly /\ Settled => \A p \in Pkgs \ (db.pkgs \cup late) :
    /\ simple[p] = NoPage /\ project[p] = NoPage /\ p \notin index
    /\ \A b \in wheels : b[1] # p

\* A version that PyPI has removed leaves no wheel behind, again unless the
\* package is `late`.
RemovedWheelsGo ==
  Orderly /\ Settled =>
    \A b \in wheels : b \in db.vers \/ b[1] \in late

\* A simple page offers only wheels that are there.  (What is imported is
\* logged and announced before it is sent.)
OffersAreThere ==
  Orderly /\ "piw-import" \notin world.requests => \A b \in Builds :
    (simple[b[1]] # NoPage /\ \E y \in BOOLEAN : <<b[2], y>> \in simple[b[1]])
    => \/ b \in wheels
       \/ ~Idle /\ Command = "DEL" /\ Covers(Key, b)

\* A wheel that is stored and logged is offered before long, unless its
\* version goes away.
WheelsAreOffered ==
  \A b \in Builds :
    (world.faults = {} /\ b \in wheels \cap db.files) ~>
      (b \notin db.files \/ dead # {} \/ (simple[b[1]] # NoPage
                             /\ \E y \in BOOLEAN : <<b[2], y>> \in simple[b[1]]))

\* A removal that was begun is carried out, over crashes of the master.
RemovalsEnd ==
  \A k \in Keys :
    (event = [action |-> "remove", key |-> k]) ~> ~Known(k) \/ dead # {}
=============================================================================
