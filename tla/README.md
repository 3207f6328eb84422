# A formal model of piwheels

piwheels builds every package version that PyPI publishes for the ABIs of the
Raspberry Pi and serves the wheels as static files. A *master* (`piw-master`,
a process of thirteen tasks, each a thread, that talk over ZeroMQ queues)
decides what to build; any number of *build slaves* (`piw-slave`) build and
upload. This directory holds TLA+ modules of the program, the TLC runs that
check them on small instances, and TLAPS proofs about them. Paths below are
relative to `src/piwheels/` unless they start with `docs/`.

- [Inventory](#inventory): the parts of the system and what makes each correct
- [Modules](#modules): which module models what, and how it maps to the code
- [Runs](#runs): what is checked, the bounds, and what the runs show
- [Fairness](#fairness) · [Disagreements](#disagreements) · [Proofs](#proofs)
- [Not modelled](#not-modelled) · [Plan](#plan)

## Inventory

### The build farm

| Part | State | Operations | Correct when | Module |
|---|---|---|---|---|
| **SlaveDriver** (`master/slave_driver.py`), a `PausingTask` | `slaves` by address, `abi_queues`, `excluded_builds`, `paused` | `handle_slave` (HELLO, IDLE, BUSY, BUILT, SENT, BYE), `handle_build`, `handle_delete`, `handle_control`, `remove_expired` | no version is built twice at once; what PyPI removed is skipped; a result is logged before the build is released; a correct slave is never told to die | SlaveDriver |
| **SlaveState, BuildState** (`states.py`) | last reply, the build being uploaded, flags, last seen | setters used by the driver, `next_file`, `expired` | the remembered reply fits what the slave does | SlaveDriver |
| **Build slave** (`slave/__init__.py`) | `slave_id`, `builder`, the REQ socket | one handler per reply, `MasterTimeout`, SIGTERM | none of its asserts fails; it always gets back to a session | BuildSlave |
| **Builder, Wheel** (`slave/builder.py`, `proc.py`) | thread, child process, status, wheels, the directory | `run`, `stop`, `close`, the scan of each wheel | a stopped build goes; a report is whole | BuilderThread |
| **Slave protocol** (`protocols.py`, `transport.py`) | one REQ connection per session to a ROUTER | send, receive | a request is answered at most once, on its own connection | SlaveProtocol |
| **FileJuggler, TransferState** (`master/file_juggler.py`, `states.py`), `Wheel.transfer` | `pending`, `active`, `complete`; missing ranges, credit | EXPECT, VERIFY, REMOVE; HELLO, FETCH, CHUNK, DONE | chunks lost or stale never give a wrong file; every transfer ends | FileTransfer |
| **Ranges** (`ranges.py`) | – | consolidate, split, exclude, intersect | equal to the set operations | Ranges, TransferMap |
| **Package database** (`master/db.py`, `initdb/sql/`) | packages, versions, builds, files | `builds_pending`, `log_build_*`, `skip_*`, `delete_*`, `add_*` | the queue holds exactly what is still to be attempted, one ABI at a time | PackageDb, Catalogue |
| **TheArchitect** (`master/the_architect.py`) | – | runs the query and pushes the result | – | BuildFarm |

### The web site and its events

| Part | State | Operations | Correct when | Module |
|---|---|---|---|---|
| **PyPIBuffer, PyPIEvents** (`pypi.py`) | buffer, serials, cache of versions | iterate over PyPI's log | no event is lost, out of order, or told wrongly, over restarts | EventFeed |
| **CloudGazer** (`master/cloud_gazer.py`) | packages, serial | add, remove, yank, … | a removal is complete, over crashes | CloudGazer |
| **MrChase** and `piw-import`, `piw-add`, `piw-remove`, `piw-rebuild` | one state per client | imports, additions, removals by hand | as for a build; its tools understand its answers | MrChase |
| **TheSecretary** (`master/the_secretary.py`) | `buffer`, `commands` | PROJECT, BOTH buffered a minute and merged; LOG, DELPKG, DELVER passed on; stored on close | no rewrite is forgotten; none undoes a deletion | TheSecretary |
| **TheScribe** (`master/the_scribe.py`), a `PauseableTask` | pages and files, `package_cache` | write or delete pages | pages match the database | TheScribe |

### The machinery

| Part | State | Operations | Correct when | Module |
|---|---|---|---|---|
| **Seraph, TheOracle, DbClient** | free workers | load-balanced calls to the database | each client gets the reply to its own call | Rpc |
| **Master** (`master/__init__.py`) | the tasks, their control queues | KILL, SKIP, SLEEP, WAKE, QUIT, HELLO; start and shutdown; disk check | orders take effect; starting and stopping end | TaskControl, BuildFarm, Monitors |
| **Task base classes** (`tasks.py`) | `paused`, control queue | PAUSE, RESUME, QUIT | a task always ends; its death is noticed | TaskControl |
| **BigBrother** and the status of slaves (`master/big_brother.py`, `states.py`) | statistics, history | publish, say again for a new monitor | a monitor catches up | Monitors |
| **piw-sense** (`monitor/sense/`) | list of slaves, cursor, pages | messages, the stick, periodic redraw | it shows what the master knows | Monitors |
| **piw-monitor, Lumberjack, logger, audit, configuration, formatting** | – | user interfaces and offline tools | – | – |

### How the parts interact

TheArchitect runs the queue query and pushes QUEUE to SlaveDriver (PUSH/PULL,
one message buffered). Slaves speak REQ to SlaveDriver's ROUTER, and DEALER to
FileJuggler for uploads. SlaveDriver calls FileJuggler (`expect`, `verify`),
the database (through Seraph) and TheSecretary (LOG, PROJECT, BOTH)
synchronously. TheSecretary in turn waits for TheScribe. CloudGazer marks
versions, has TheSecretary and SlaveDriver drop them, and then deletes the
rows. The monitor sends controls to the master, which passes them on to
SlaveDriver or pauses all tasks; what slaves and statistics report is published
to all monitors.

### What is hard

Requests that are judged by a remembered reply while messages are lost,
sessions time out on either side and either side restarts; a queue that is out
of date when it arrives, held against exclusions that expire; removals racing
with queues, builds, uploads and buffered page rewrites; an event log read in
one order and handled in another; synchronous waits on tasks that may be
paused, stopped or dead; a build that is stopped between any two steps of its
thread; a screen whose cursor is a position in a list that changes.
`PROJECT.json` lists each hazard at its line, with the properties that cover
it.

## Modules

```
PackageDb ── SlaveProtocol ─┬─ SlaveDriver ─┬─ BuildFarm ─┬─ MCBuildFarm ── MCFarmScenes
                            └─ BuildSlave ──┘             └─ BuildFarmProofs   (TLAPS)

Catalogue ─┬─ TheSecretary ── TheScribe ─┬─ Website ─┬─ MCWebsite
           └─ CloudGazer ──── MrChase ───┘           └─ WebsiteProofs ── RemovalProofs ── PagesProofs   (TLAPS)

FileCopy (abstract) <── FileTransfer ─┬─ MCFileTransfer
                                      └─ FileTransferProofs   (TLAPS)
RpcService (abstract) <── Rpc ─┬─ RpcProofs   (TLAPS)
TaskControl ───────────────────┴─ MCTasks
BuilderThread ── BuilderThreadProofs   (TLAPS)
EventFeed ── EventFeedProofs   (TLAPS)
Ranges ── TransferMap, RangeCalls ──────┐
FileTransfer, EventFeed, BuilderThread ─┼─ MCParts
Monitors ───────────────────────────────┘
```

The system is modelled in views that each keep what their properties need;
where two views show the same thing, one is an abstraction of the other:

- BuildFarm takes an upload as "expected, then complete, and the copy is good
  or bad"; FileTransfer shows chunk by chunk that this is all the driver can
  see (`ImplementsFileCopy`).
- BuildFarm takes a build as one step with any outcome; BuilderThread shows how
  it comes about, and that it ends when it is stopped.
- BuildFarm, Website and the rest take a database call as one step of the
  caller; Rpc shows that Seraph and the Oracles run each call once and give it
  its own answer (`ImplementsRpcService`, proved).
- Website has what the pages depend on, and of the farm only which builds end
  and when; BuildFarm has the farm, and of the pages only that they are asked
  for.
- FileTransfer has the missing bytes as a set of chunks; TransferMap has them as
  the list of ranges that the code keeps, and shows that the set is right
  (`RangesAreSets`).

**PackageDb** — versions (live, skipped, gone) and, for each ABI and version,
what rows `builds` has: some bare of files, or one that owns the wheel.
`BuildsPending` is the view; `LogBuild`, `SkipVersions`, `DeleteVersions`,
`AddVersion` are the transactions. `CountsFor` is the view's notion of an
attempt, per ABI tag of the wheel. `Tag` and `Released` fix the tags and
release order of each version; ABIs are numbers ordered like their tags.
ABI tags other than the builder's own, "none" and "abi3" do not occur in the
model, and all wheels of one version carry the same tag.

**SlaveProtocol** — the messages and connections. A slave opens a new socket
for each session; `Conns` are the addresses, `wire[c]` the one message that is
on a connection, `conn[s]` the socket that a slave has open. The ROUTER drops
replies to an address that is gone; a request can outlive the socket it was
sent on. A socket name is used again only after both ends have forgotten it.

**SlaveDriver** — one action per request and outcome (`DoIdle` is `IdleDie`,
`IdleSleep` or `IdleBuild`, …) and one per other input of the task. Taking the
request, changing the state and sending the reply are one step, as the task is
single threaded and nothing else reads its state. The exception is the wait for
TheSecretary after a build is logged: other tasks and the slaves run meanwhile,
so it is split in two, with the rest of the work held in `job` (`Announce`).
While `job` is set the driver does nothing else. `excluded` says for each ABI
and key why it is excluded, and whether the expiry time has passed ("lapsed"):
expired entries are pruned by `HandleBuild` only, as in the code. A failed
`log_build` raises IOError in the driver, which ends the task (`up`), and with
it the master.

**BuildSlave** — the reply handlers, each ending in the next request;
`MasterTimeout`, `Exit` (SIGTERM, DIE) and `PowerLoss`, all of which forget the
session. `do_cont` reads the Builder's state at some time in its wait.
`Wheel.transfer` is a state (`sending`) that only the juggler's DONE ends, or a
signal: it has no time-out. The
Builder thread is `BuildEnds`, with any outcome and up to `MaxFiles` wheels.

**BuildFarm** — the composition: the two sides at work, the transfer, timeouts,
TheArchitect (`Schedule`), CloudGazer (`StartRemoval`, `DropRemoved`,
`FinishRemoval`, `AddRemoved`), the operator, faults, the properties, fairness.
Timeouts need no clock: both ends give up after the same five minutes, so
without a fault of kind "delay" an end gives up only when what it waits for
cannot come any more (`NoAnswer`, `Silent`); with one, at any time. `Punctual`
says that an exclusion (three hours for a build, an hour for a removal) lasts
longer than the work on the build and than the time a QUEUE message waits to be
read. Faults are `loss` of any message, `delay` of a message beyond a timeout,
`exit` of a slave and `restart` of the master, at most `MaxFaults` of them in a
behaviour. A restart forgets all that the master had in memory, and leaves the
database and the slaves as they are. An upload ends with DONE (`TransferStep`),
or the wheel is complete but the slave never hears so: a lost DONE counts as a
`loss`, a HELLO repeated too early that takes the next transfer as a `delay`.
After that, and after a restart, the slave is `Stuck`.

**FileCopy, FileTransfer** — FileJuggler's three tables and the TransferState
in each, `Wheel.transfer` and of SlaveDriver what starts and ends a transfer.
An address has a FIFO channel each way. HELLO, FETCH and CHUNK may be lost,
chunks damaged, HELLO delayed (the slave prods again after a timeout that comes
too early), either side restarted, after which `SlaveState.counter` gives the
old numbers to new sessions. A slave that has heard DONE closes its socket, with
whatever is still on its way to it. Credit is spent to the last after every message,
so the model has the number of fetches under way instead of a counter. The
handlers are split by outcome (`HelloStarts`, `HelloIgnored`, `HelloProds`,
`ChunkStored`, `ChunkCompletes`, `ChunkIgnored`).

**Ranges, TransferMap, RangeCalls** — the four functions of `ranges.py` on lists
of pairs; `TransferState._map` under them; and the functions on all lists that
the program can build.

**Catalogue** — the rows that pages are made of, and every transaction on them
that a task makes, as *statements*: records that say which function is called
and which statements follow its answer. A task's handler is then the sequence
of statements it executes (its *script*), one transaction a step, other tasks
running in between. A foreign key that is violated comes back as an IOError
and ends the task, unless it is caught (`Caught`).

**CloudGazer, MrChase** — the scripts of each event of PyPI and of each request
of the command line tools, with all their tests and refusals. `Understands`
says which answers each tool accepts: the others fail an assertion in the tool.

**TheSecretary, TheScribe** — the buffer of page rewrites in the order of their
deadlines, what is passed on at once, the merging and the erasing, the table
kept over a restart; TheScribe's handlers, in the steps between which the
database may change: first the data is read, then the pages are written.

**Website** — the composition. `todo[c]` is what is left of the script of task
`c`; `serving` whom TheSecretary works for. A version has one wheel, whichever
ABI built it. The driver here is reduced to builds that succeed or fail at some
time, unless their version was excluded. Every action first looks whether a
task has died (`Up`); what happens after that is TaskControl's matter.

**TaskControl** — the thirteen tasks are threads of three kinds that call one
another; a call is waiting, taken, answered. The control queue is read only
between two handlers. The master starts the tasks in order, passes on SLEEP and
WAKE, forces sleep when the disk is full, quits and joins in reverse order.

**RpcService, Rpc** — DbClient's REQ sockets, Seraph's front queue and list of
free oracles, the oracles' REQ sockets with their READY. A method ends with OK
or ERROR.

**EventFeed** — PyPI's log (rows dated back by up to `Skew`, as `PYPI_EPOCH` and
the comments in `pypi.py` describe it, and silent for any time), PyPIBuffer's reading and reordering,
PyPIEvents' cache of versions (a list of entries in the order of the
OrderedDict, one for each version) and what it reports, CloudGazer's saving of the
serial and a restart at any time.

**BuilderThread** — the Builder thread, the child process it may have, the main
loop's report, stop and close. Each wait of `proc.py` for a child is a state
(`pip`, `ldd`), and so is every place in which nothing looks at the event.

**Monitors** — the news that SlaveDriver and BigBrother push and say again for a
HELLO, the master's publishing, the list of slaves of piw-sense with its cursor,
the pages of the nodes with their controls.

**MC…** — the instances. Some share one run. In MCWebsite and MCTasks
`world`, chosen at the start and never changed, says what may happen in a
behaviour, so that several small worlds are explored instead of one that is too
large. In MCFarmScenes `scene` does that: for the safety of the farm it is a slave
that is alone, or a socket on which slaves compete; for its liveness it allows faults
or orders, not both. MCTasks and MCParts hold
modules that nothing is composed with: `part` says which one moves; the
variables of the others keep their initial values, where no fair action of theirs is
enabled, and their fairness is restated for the part that runs. It extends the
modules that have theorems, so that the run checks the very definitions that
are proved, and instantiates the others.

The operators called mutants in their comments are wrong variants of the
definition that follows them, the way a plausible bug would have it. Each
property of a passing run is violated when one of them takes the definition's
place; they are not part of the model.

## Runs

Distinct states and times are of TLC with two workers.

| Run | Module | Instance | Checks | Size |
|---|---|---|---|---|
| FarmSafety | MCFarmScenes | 1 slave, 2 sockets, up to 2 wheels; KILL and SKIP; any 2 faults. Or 2 slaves of one ABI, 1 version that PyPI removes, as a version or with its package, and publishes again; 1 loss, delay or exit | `TypeOK`, `SlaveAssertions`, `SessionsAgree`, `NoDuplicateBuilds`, `RemovedBuildsAreSkipped`, `DieOnlyIfKilled` | 505k, 150 s |
| FarmAbis | MCBuildFarm | 2 slaves of ABIs 37 and 39, 2 versions, one with wheels tagged "none"; 1 loss, delay or exit; of `Next` only `FarmStep` | `OneAbiAtATime`, `FinishedBuildsAreLogged` | 868k, 75 s |
| FarmLiveness | MCFarmScenes | 1 slave, 1 version, fairness; 2 sockets and 2 faults, restarts of the master included, or 1 socket and all orders | `AttemptedUnlessOrdered`, `RejoinUnlessOrdered`, `KilledSlavesLeave`, `PausedFarmDrains` | 51k, 100 s |
| FileSlaves | MCFileTransfer | 2 slaves, 4 addresses, 4 ids, 1 wheel of 2 chunks each; any 2 of loss, delay, damage, exit, restart | `ImplementsFileCopy` | 337k, 60–75 s |
| SitePages | MCWebsite | 6 worlds, see below | `TypeOK`, `PagesSettle`, `GoneStaysGone`, `RemovedWheelsGo`, `OffersAreThere` | 1137k, 170 s |
| SiteLiveness | MCWebsite | 2 worlds, fairness | `WheelsAreOffered`, `RemovalsEnd` | 54k, 80 s |
| Tasks | MCTasks | an oracle, TheScribe, TheSecretary and SlaveDriver in 5 worlds; or 3 clients, 2 calls each, 2 oracles; fairness | `StartAndStopEnd`, `SleepersWake`, `DeathIsNoticed`, `OraclesAreShared`, `RepliesMatch`, `ImplementsRpcService`, `EveryCallReturns` | 58k, 165 s |
| Parts | MCParts | 8 parts, see below | 10 invariants, 3 temporal properties | 342k, 60 s |
| ControlPause | MCTasks | SLEEP and a full disk | `ControlsAreSafe`, violated | seconds |
| CorruptWheels | MCParts | the Builder thread | `CorruptWheelsAreReported`, violated | seconds |
| FarmReplaced | MCBuildFarm | 1 slave; 1 restart of the master; fairness | `SlavesOutliveTheMaster`, violated | seconds |
| FeedLosesRows | MCParts | the feed, as in Parts | `NoRowIsMissed`, violated | seconds |

*What they show.*

- `SlaveAssertions`: whatever is lost or delayed and whoever restarts, the next
  reply that a slave gets fits what it is doing, so none of its asserts fails.
  `SessionsAgree` is the reason: slave, wire and driver agree about every
  session that they share. `DieOnlyIfKilled`: the driver never takes a correct
  slave for a broken one.
- `NoDuplicateBuilds`, `OneAbiAtATime`: exclusions make up for a queue that
  knows nothing of builds in progress, also when slaves are expired and return.
  `RemovedBuildsAreSkipped`: once CloudGazer's DELVER or DELPKG is handled,
  every slave that builds the version is marked, and neither the old queue nor
  one that was under way gives it out again. `FinishedBuildsAreLogged`: a slave
  throws its build away only after it is logged and announced.
- `AttemptedUnlessOrdered`, `RejoinUnlessOrdered`: a build that is lost with its
  slave comes back, and the slave does, also after a restart of the master. An
  upload is the exception, since the slave may be stuck in it (`FarmReplaced`
  shows how): both properties leave out slaves of which this is true, and show
  that there is no other way not to return. `KilledSlavesLeave`,
  `PausedFarmDrains`: orders take effect unless revoked.
- `ImplementsFileCopy`: although HELLOs name a transfer by a number that a
  restart gives out again, and chunks may reach another one's file, the driver
  sees one copy arrive at a time and publishes only a whole one: it is the
  verification that makes it so.
- `PagesSettle`: when the master comes to rest every page tells what the
  database says, however rewrites were merged, upgraded, erased by a removal or
  kept over a restart. `GoneStaysGone`, `RemovedWheelsGo`: no rewrite that was
  buffered when a removal began brings anything back, and no wheel is left. They
  say nothing of a package whose wheel was just being sent, or whose pages another
  task asked for while the rows went: there the code does bring pages back
  (`late`). `OffersAreThere`: at no
  time does a page offer a wheel that is not there.
- `WheelsAreOffered`: a wheel that is stored and logged gets onto its page
  although new events keep coming. `RemovalsEnd`: a removal interrupted by a
  crash is carried out by the next start, as the serial was not saved.
- `StartAndStopEnd`: the order of starting and stopping has the tasks that
  others call in `once` and `close` at work. `SleepersWake`: tasks that were
  paused while they waited for one another all get back to work.
  `DeathIsNoticed`: the others do not go on without a task that has ended.
- `OraclesAreShared`, `RepliesMatch`, `ImplementsRpcService`,
  `EveryCallReturns`: only addresses relate replies to calls, and that is
  enough.
- In Parts: `DoneMeansComplete`, `PipelineBounded`, `TransfersEnd` (a transfer
  over a lossy network never takes a hole for a chunk, keeps the fetches under
  way within the pipeline, and ends); `RangesAreSets` (the four functions, and
  the map of a transfer, whose fetches stay on the grid of chunks);
  `FeedIsComplete`, `FeedIsOrdered`, `VersionsAreTold` (reordering loses no row,
  over a restart or without one, but those dated back into a silence of the log,
  and the cache suppresses nothing that matters);
  `NothingIsLeft`, `ReportsAreWhole`, `StoppedBuildsGo` (a build stopped at any
  moment leaves no process, reports all of its wheels or none, and goes);
  `ViewCatchesUp`, `BarsAreSelected` (a monitor that joins late shows what the
  driver knows, and the cursor what it is on); `TypesAreRight`.

*Worlds of the site.* SitePages has one package with two versions, uploads,
removals and a restart (PagesWorld); one version with every event but removal,
four times (EventsWorld); an upload with two of `piw-rebuild` and `piw-import`
and a restart (RequestsWorld); an upload and a removal, or two of either, with one
of `piw-add`, `piw-rebuild` and `piw-import` (AddWorld); all four tools, three
times (ToolsWorld); and two packages with uploads, removals and a crash where
requests may be slower than the buffer's minute (LateWorld). The last two are
not `Orderly`: there `TypeOK` is checked, with which the tools understand
MrChase's answers. In SiteLiveness three events, or two with two crashes or restarts. Tasks has
a calm world, one with SLEEP, one with an exception, one with a slow start, one
with a full disk.

*Parts.* An upload of two wheels of four chunks, the last one shorter, pipeline
2, with two losses or damages; a map of 20 bytes in chunks of 3; all lists of
ranges within 0..5; a feed of six rows of one kind, at any times up to 5, with a
window of 2 and a skew of 1; a feed of four rows of all kinds for two versions,
with a cache of one, that two further rows let be read; a build
with two wheels and two libraries; a monitor with two slaves on the main page,
and with one slave on all pages, three or four messages.

*Bounds.* The driver treats slaves independently but for queues, exclusions
and pauses: one slave shows its session in full, and two show every
competition, which is always between a pair. Two sockets let a late request of
an old session cross the new one; more sockets repeat that, as a name returns
once it is forgotten. One version suffices for exclusion (entries do not
interact) and two for order. Two ABIs give "lowest first" a choice. Two wheels
make a first, a repeated and a last one. Two faults allow a fault during the
recovery from another. Two slaves that restart once each, and a master, confuse
any two ids; two chunks are a first and a last one, four have some in between
with two credits. A buffer entry is merged, upgraded or erased by at most two
further requests; TheSecretary serves one at a time, and three tasks
compete for it. Three clients are more than two oracles. Four tasks have a chain
of three calls, as deep as in the master but for CloudGazer's, which is one
longer. `SYMMETRY` is used in safety runs only, over slaves, sockets and
addresses that nothing orders. Deadlock is checked except in FarmSafety (a
failed `log_build` brings the master down for good) and Parts (the parts end at
their bounds); Website, Rpc and TaskControl have an `Over` step for the states
that may be final, so that every other stop is an error.

*What the runs leave out on purpose.* After a restart of the master the
exclusions are empty while slaves still build: FarmAbis has no restarts, nor has
FarmSafety where slaves compete; these get no orders either, KILL and SKIP being
left to the slave that is alone. FarmAbis has no removals and no SKIP, for
`FinishedBuildsAreLogged` is about builds that nobody asked to skip. In FarmLiveness
faults come without orders, as a slave that is put to sleep builds nothing.
In Website, `Orderly` is a world without crashes (TheSecretary's buffer is lost
by one), without `piw-remove` (which leaves files and pages, see
[disagreements](#disagreements)) and with `punctual` requests: a removal takes
less than the minute of the buffer, and a build more than a request of the
operator. Two history variables say which packages were changed by something
that the code does not follow up, and the properties of the site make an exception
for just these: `halfdone` has a package if MrChase refused a request after some
of its changes, or a restart cut an import off between its log and its file;
`late` has one if a build or an import was stored, or its pages were asked for by
MrChase or the driver, after its removal had deleted the pages.

## Fairness

Each thread runs a poll loop that serves every ready socket, and handlers end;
so every step of a task that is not stuck has weak fairness. Nothing is
assumed of faults, PyPI, the operator, or pip. In particular:

- BuildFarm (`Fairness`): the driver's handling of each connection, the slave's
  and the juggler's steps, expiry of a silent slave and a slave's timeout if no
  answer can come (periodic checks against a clock; a slave inside
  `Wheel.transfer` has none, and none is assumed), the end of an upload by a step that
  is no fault while the juggler has the transfer, the periodic query,
  CloudGazer's further steps, a restart by the service manager. `Announce` only
  while the master is not paused (`Stalled`). That builds end is an assumption
  about the packages. Strong fairness of a transfer that verifies (it may be
  corrupted any number of times, but not for ever) and of `Lapse` (time passes,
  though a build in progress holds it off).
- FileTransfer: HandleFile for each address and the slave's steps, its timeout
  included.
- Website: strong fairness of `Ask` and `Due`, since TheSecretary's REP socket
  takes its clients in turn and its timer is looked at between them, and of the
  end of an upload, which the driver takes between other requests; weak
  fairness of the rest.
- TaskControl: strong fairness of an answer that is waited for and of the control queue,
  for a task polls its queues in turn; weak fairness of the master's loop. A
  task that died makes the master quit.
- Rpc: strong fairness of `HandleFront` for each client, as ROUTER takes its peers
  in turn.
- BuilderThread: the thread goes on, but pip may run for ever, and the main loop
  may take any time before it stops a build.

## Disagreements

Four runs end in a violation that the code really has; `PROJECT.json` quotes the
line that each contradicts.

| Run | Property | What happens |
|---|---|---|
| ControlPause | `ControlsAreSafe` | The operator sleeps the master, then the disk fills: the main loop pauses all tasks again, and a `PauseableTask` that is paused takes a second PAUSE for an unknown control, which ends it and the master. |
| CorruptWheels | `CorruptWheelsAreReported` | pip leaves a file that is no zip file. `zipfile.BadZipFile` is not caught by `Builder.run`: the thread ends with its status still a success. |
| FarmReplaced | `SlavesOutliveTheMaster` | The master is restarted while a slave uploads. The documentation says that slaves reconnect after a time-out; `Wheel.transfer` has none, and the new juggler ignores the HELLO that it repeats. |
| FeedLosesRows | `NoRowIsMissed` | The log is silent, then there is a row, then one dated back by less than the skew. PyPIBuffer has gone on to the row after the silence, so that the last one is before its place in the buffer, and is deleted unseen. |

Others came up while modelling. The model follows the code, and the properties
are stated where they do not bite:

- `master/slave_driver.py:519`: PyPI removes a version while a slave uploads its
  wheels. `handle_delete` skips only slaves whose last reply is BUILD;
  `log_build` fails on the foreign key and the exception ends the driver.
- `initdb/sql/create_piwheels.sql:443`: a wheel tagged `abi3` counts for no ABI
  in `builds_pending`; the version stays queued for the ABI that has just built
  it, and is built a second time.
- `slave/builder.py:362`: the slave stores `build_timeout` and never applies it;
  the exclusion of a longer build expires (`Punctual`).
- `slave/builder.py:306`: `Wheel.transfer` repeats HELLO for ever not only after
  a restart of the master, but also after a lost DONE (`master/file_juggler.py:258`)
  and a HELLO repeated too early that arrives after the transfer
  (`master/file_juggler.py:254`).
- `master/slave_driver.py:394`: SLEEP for one slave sets a flag that `do_idle`
  does not look at. `:485`: while the master is paused, a build that ends has
  the driver wait for TheSecretary and answer nobody.
- `ranges.py:67`: `consolidate` loses the rest of a range that contains the next
  one (`InTurn` in `RangesAreSets`).
- `master/the_scribe.py:106`: a package whose first page is still buffered over
  a restart never gets into the root index. `:324`: `PackageDeleted` is never
  raised; pages are written for a package without rows.
- `master/mr_chase.py:312`: `piw-remove` deletes rows that TheScribe needs to
  find the files. `:302`: without `--builds` a skip leaves the builds. `:273`:
  YANKVER is refused after the skip reason was taken off. `:163`: an import is
  logged before its wheel has arrived, so that a page may offer it too early,
  and a restart before it has arrived leaves a build that no page shows
  (`halfdone`). `:231`, `:373`: `piw-add` or `piw-rebuild` of a package that
  CloudGazer is removing, after its pages are gone and before its rows are, has
  them written once more, and they stay (`late`); so does an import of a version
  that was removed while its file was being sent.
- `master/the_secretary.py:91`: the table of pending rewrites is not emptied on
  restart.
- `master/cloud_gazer.py:117`: after `piw-remove` of a package `self.packages`
  still holds it; its next event violates a foreign key and ends CloudGazer.
- `master/__init__.py:266`: a task that waits for a paused or dead one never
  sees QUIT, and the master joins it for ever. `:247`: the assertion that all
  tasks are ready fails if one takes more than 60 s.
- `pypi.py`: a row before the epoch that is dated later than rows of the margin
  is lost by a restart just after the epoch (`EarlyRowsComeFirst`).
- `monitor/sense/renderers.py:434`: the controls for the master's own entry are
  sent without data, which the protocol refuses (`transport.py:143`), and the
  IOError ends the screen (`ScreenStaysUp`); so do a page of a slave without
  statistics and the uptime of one that never said HELLO.

## Proofs

The theorems hold for any value of the constants that satisfies the assumptions
named in the modules that declare them (`DbAssumption`, `ProtocolAssumption`,
`FarmAssumption`; `RpcAssumption`; `TransferAssumption`, `NothingAssumption`;
`CatalogueAssumption`, `SecretaryAssumption`, `WebsiteAssumption`).
The last column has what a theorem assumes beyond them.

| Module | Theorem | Statement | Under |
|---|---|---|---|
| BuildFarmProofs | `TypeCorrect` | `Spec => []TypeOK` | |
| | `SessionsHold` | `Spec => []SessionsAgree` | |
| | `AssertionsHold` | `Spec => []SlaveAssertions` | |
| | `DieMeansKilled` | `Spec => DieOnlyIfKilled` | |
| | `NoDuplicates` | `Spec => []NoDuplicateBuilds` | `Punctual`, no restart |
| | `RemovalsAreSkipped` | `Spec => []RemovedBuildsAreSkipped` | `Punctual`, no WAKE |
| | `FinishedAreLogged` | `Spec => []FinishedBuildsAreLogged` | no removal, no SKIP, no restart |
| | `AbisTakeTurns` | `Spec => []OneAbiAtATime` | `Punctual`, no restart, `~Readds` |
| FileTransferProofs | `TypesHold` | `Spec => []TypeOK` | |
| | `DoneIsComplete` | `Spec => []DoneMeansComplete` | |
| | `WindowHolds` | `Spec => []PipelineBounded` | |
| | `CopiesFiles` | `Spec => ImplementsFileCopy` | |
| RpcProofs | `OraclesShared` | `Spec => []OraclesAreShared` | |
| | `RepliesMatchCalls` | `Spec => []RepliesMatch` | |
| | `ImplementsService` | `Spec => ImplementsRpcService` | |
| BuilderThreadProofs | `NothingStays` | `BuilderSpec => []NothingIsLeft` | |
| | `ReportsAreAllOrNothing` | `BuilderSpec => []ReportsAreWhole` | |
| WebsiteProofs | `WebsiteTypes` | `Spec => []TypeOK` | |
| RemovalProofs | `WheelsGo` | `Spec => []RemovedWheelsGo` | |
| | `OffersHold` | `Spec => []OffersAreThere` | |
| | `GoneUnlessAskedFor` | `Spec => []GoneStaysGone` | |
| PagesProofs | `PagesHold` | `Spec => []PagesSettle` | |
| EventFeedProofs | `RowsKeepTheirOrder` | `FeedSpec => FeedIsOrdered` | `FeedConstants` |
| | `NoRowIsLost` | `FeedSpec /\ []EarlyRowsComeFirst => []FeedIsComplete` | `FeedConstants`, `WideWindow` |
| | `ReportsTellTheLog` | `FeedSpec => []VersionsAreTold` | `FeedConstants` |

In every module the invariant is proved by one lemma for each action or group of
actions that it concerns, and a lemma named `...Step` that puts them together
over the disjuncts of `Next`; the invariants were checked by TLC on the
instances of the runs first.

*BuildFarmProofs.* Neither `TypeOK` nor `SlaveAssertions` is inductive: that
SEND asks for a wheel the build has depends on what BUILT said earlier, that
CONT finds a Builder on what the driver remembers. The inductive invariant is
`Inv == TypeOK /\ SessionsAgree`. `SessionAgrees(s)` ties together the slave's
state, the message on its connection, the driver's remembered reply and build
— if the driver still knows the session — and the job it may be waiting on. If
the driver has forgotten the session the slave's half still holds, which is why
expiry and restarts are harmless; if the slave has left, the driver's half is
void, since a new session has a new connection. `AssertionsHold` follows from
the invariant; `DieMeansKilled` is an action property: in a state that
satisfies the invariant, the branches of `do_idle`, `do_built` and `do_sent`
that send DIE to a slave not killed are not enabled.

The second half of the module is about who builds what. A session is working on a version (`Working`) from the
BUILD that names it — remembered by the driver, or still on the wire — until
the driver has let go of it and no Builder has it. `WorkIsExcluded` says that
such a version is excluded for that ABI, for a reason that has not lapsed, and
is not in the queue; `OneWorker` that no two sessions of an ABI work on the same
one. `Exclusive`, their conjunction, is inductive together with `Inv`: a slave
gets only what is queued, which is not excluded, and `Punctual` keeps the
exclusion until the work is over. A restart empties `excluded_builds` while slaves
build on, so `NoDuplicates` is about a master that is not restarted; that the
property fails with restarts is among the hazards. For `RemovalsAreSkipped` the
invariant `Removed` adds the queues (`RemovedAreNotQueued`): what CloudGazer has
had dropped is in no queue that is held, and where a queue under way still has
it there is an exclusion that will keep it out (`Punctual` is the hour for
which that lasts). A restart is harmless here: it empties the queues, and
forgets the slaves. WAKE takes any mark off, the one of a removal like the one of a SKIP
(`do_idle` and `handle_control` use one flag), hence no WAKE.

`Kept` follows the result of a build. `BuilderAgrees`: what the
driver remembers is what the slave has built, and a failed build has no files.
`ResultKept`: when a slave is `Leaving`, as the DONE is on its way or the driver
only waits for TheSecretary, the attempt is `Recorded` in the database (which
allows that another ABI's build of the same name has taken the wheel's file, as
`log_build` replaces it). `PagesAreAnnounced`: the pages that are out of date
are those of the job. A skipped build is thrown away without being logged and a
removed one has nothing to be logged to, so the theorem leaves both out, as the
run does. `AbisTakeTurns` needs `Turns` beside `Exclusive`: a version that is
`Live` for an ABI — queued, on its way to the queue, or with its result still
to come — has that ABI for the lowest without an attempt, and is live for no
other. The queue under way must not be older than the end of the exclusion
(`Punctual`). `~Readds` (a removed version does not come back, its attempts gone)
is what the proof uses; TLC found no violation without it in three million
states of FarmAbis with removals, a search that was not finished.

*FileTransferProofs.* The invariant `Upload` has seven parts. `Numbers`,
`OnePlace` and `Tasks` say where a transfer is: in one of the three tables, under
its number, and for the wheel that the slave of that number is to send, if the
driver knows that slave. `Sockets` and `Owners` say that a socket of a slave
the driver knows carries that slave's messages only, and that DONE, or the state
after it, comes with a complete transfer. `Holes` says that `_map` is what was
not written. What makes it hold is that it says nothing of slaves the driver has
forgotten: after a restart they may go on sending under numbers that now belong
to others, to addresses that are nobody's. That `SentMeansComplete` needs the
socket to be emptied when it is closed came out of the proof. For `TypesHold` the offsets
that `fetch` goes through, a recursive function, have to be shown to exist for
every pipeline (`WalkExists`) and to be those of missing chunks
(`OffsetsAreChunks`); both are inductions over a set of numbers by its least
element (`StepByStep`).

`WindowHolds` is about credit that is nowhere written down. `Flow` gives a
message its worth: a FETCH or CHUNK is one, a HELLO is the window that it will
open. The sum at an address is at most one window, and one more for each fault:
`HelloProds` and `HelloStarts` exchange a HELLO for a window, `ChunkStored` and
`FetchAnswered` one for one, losses take away; a slave prods when both channels
are empty, or else too early, which counts as a fault. The lemmas `Count...`
and `Weight...` say what appending, joining, taking and losing do to the sum.

`CopiesFiles` maps a transfer to FileCopy: what the driver waits for is asked, a
complete transfer is an arrived copy, whole if all its chunks are the wheel's.
`Join`, `Built`, `SentVerified`, `SentRejected`, `ChunkCompletes`, `Exit` and
`Restart` have a lemma each (`...Copy`) that names the step of FileCopy; all
others change nothing of it (`CopyKeeps`).

*RpcProofs.* `RpcInv == TypeOK /\ OraclesAreShared /\ RepliesMatch` is
inductive as it stands: that a worker taken
from the list has nothing to do is in the one property, that its client still
waits is in the other. There is one lemma per action
(`ExecuteInv`, `HandleFrontInv`, `HandleDbRequestInv`, `HandleBackInv`,
`ReturnInv`), and two about the list of free oracles, `AppendIsShared` and
`TailIsShared`. For the refinement, a client's phase is read off from whether
it waits and whether its outcome is on its way back; `InitMaps` and `StepMaps`
show that `Execute`, `HandleDbRequest` and `Return` are the three steps of
RpcService, and that Seraph's two are stutters.

*BuilderThreadProofs.* The invariant `Thread`: there is a child process only
while the thread waits for it (`ChildIsAwaited`); the report is made and the
directory removed after the thread's end (`EndComesFirst`); while the thread
goes through the wheels each is looked at, in hand or to do (`WheelsAreKept`);
and a thread that has ended with anything but an exception that nothing caught
leaves all wheels or none (`OutcomeIsWhole`).

*EventFeedProofs.* Three invariants. `Reading` (rows are numbered as they are
published, those buffered and handled were read, and what is still to be yielded
comes after what was) gives the order. `Complete` says that the log is
`Settled` at the saved serial and at the one to resume from: of the rows that had been
read when this row was chosen, the others are from its time on or older than the
window, so that what is still to be published comes before it only if it is
dated into the silence between the two (`DatedIntoSilence`). `BufferIsComplete` and
`HandledSoFar` say where every row is (`Done`: handled, or dated into a silence).
`Telling` relates the cache to the reports: an entry has the state
that the rows gave its version. `FeedConstants` types the constants;
`WideWindow` is `Skew <= Window /\ PypiMargin > 0`, the five minutes and three that
the code has. Nothing is assumed of how long the log is silent; the exemption
of `FeedIsComplete` is tight, as one tick less of it is violated in Parts, and
the run FeedLosesRows shows that the rows it exempts are lost. `EarlyRowsComeFirst`
says that rows from before the epoch, further back than the margin, are dated before any that
comes after it. It cannot be left out, as TLC shows: with rows before the epoch in any
order (window 2, skew 1, epoch 5, margin 3, 7 rows) `FeedIsComplete` fails; with
it, there is no error in the 292,643 states of that instance. In the
instances of Parts it holds, as only the first row is before the margin.

*WebsiteProofs.* `TypeOK` is not inductive: it says nothing of the scripts that
tasks have still to execute, and a statement is data — a record with two
continuations. `TypeInv` adds that every statement of a script is one of a finite
grammar: `Leaves` have no branches, `Tests` branch to leaves, `Statements` to
either, and `Sound` says which of them a task may have (only a removal deletes,
only an import expects a file, each tool gets the answers it knows). The lemmas
about scripts (`...Script`) show that what CloudGazer and MrChase set out to do
is in the grammar, and that executing a statement stays in it. The other parts of
`TypeInv` are the rows (`RowsOK`), the buffer, which has each package once and
one command for it (`BufferOK`), and the request under way (`ServingOK`: TheScribe
works for a task only while that task waits with this very statement).

*RemovalProofs.* `Shape` says where each task is: a removal is at one of five
points (`At(k, n)`: n statements left), a driver that logs a build at one of
four (`Building`), and TheScribe works for who is waiting. `Good` is an orderly
world in which no task has died, all that the properties are about. Then, each
inductive beside `TypeInv` and `Shape`:

- `Wheels`, for `RemovedWheelsGo`. What SlaveDriver has taken note of (`Noted`)
  it neither builds nor is sent (`Excluding`); a wheel belongs to a version
  (`WheelsKnown`); one that is not logged is just going to be, and not noted
  (`WheelsLogged`), so that deleting the files of the logged builds misses none;
  and after this (`Past`) a wheel of the version can only come from a build that
  the driver was logging, which it has announced before the rows go
  (`WheelsLeave`): it takes note of a removal only when it is done.
- `Stores`, for `OffersAreThere`: a logged build has its wheel until it is removed
  (`FilesStored`), a wheel is stored before it is logged (`StoredFirst`), and what
  TheScribe has read of the database is still true when it writes (`ReadStored`).
- `Traces`, for `GoneStaysGone`: what CloudGazer has in memory agrees with the
  database (`Listed`), so that it asks for no pages of a package that is not
  there; pages are had or asked for only of packages that are known (`Traced`);
  and from the deletion of the pages to that of the rows there are none, and none
  is asked for (`Cleared`, `Expunged`), for the deletion has taken the package
  out of the buffer. `Calm` says that TheScribe writes nothing meanwhile.

*PagesProofs.* `PagesUp` says, of every package that stays, that each of its two pages
is `Told` or `Owed`. Told: the page, or what TheScribe has read and is about to
write, tells the rows, less those that a removal has taken off the page and not
yet out of the database (`Hidden`). Owed: its rewrite is still to come. It is
`Promised` by a request in a task's script, or by the error with which MrChase
stops half way; `Awaited` from an importer that is sending a wheel; `Buffered`; being
`Served`, with the rows not yet read; or a removal is `Leaving`, which rewrites the pages
by itself. There is one lemma for how each of these ends (`PromisedStep`,
`AwaitedStep`, `BufferedStep`, `ServedStep`, `LeavingStep`): always in another one, or in a page
that tells. The other half is that a page that tells goes on to (`ToldStep`):
whatever changes the rows has the request for the page behind it in its script.
This takes an invariant about scripts as data: `Tidy` scripts have every
statement that touches a page (`Touching`, `Offering`) followed by what pays for it (`Follows`),
and are so along every branch that an answer may take (`Order2`). The lemmas
`...Tidy` show this of each script that the code sets out with, of joining a
branch to what is left, and of going on by one statement.
Two more invariants are needed: MrChase marks a version as yanked without
rewriting its simple page, which is right only since the version is new
and has no wheel (`YankOk`, by `BuildsKnown`); and the root index is what the cache
knows, which holds while the master is not restarted (`IndexOk`). All of
`PagesUp`, `YankOk`, `BuildsKnown` and `IndexOk` were checked by TLC on the six worlds of
SitePages. `halfdone`, which `PagesSettle` leaves out, is where MrChase has stopped after
a change, with an error that the operator sees, and without the rewrite.

`late` stands for the exceptions in all of these: `PagesHold`, `WheelsGo` and
`GoneUnlessAskedFor` claim nothing of such a package. It is one of which a wheel was
being sent when SlaveDriver was told to exclude it, or an import was, or whose pages another task than
CloudGazer asked for after they were deleted, and the code does bring its pages back; how
it gets there is among the [disagreements](#disagreements). `PagesHold` is also silent
of worlds with a crash, and of the root index where the master is restarted.

*Only model-checked:* all liveness (`AttemptedUnlessOrdered`,
`RejoinUnlessOrdered`, `KilledSlavesLeave`, `PausedFarmDrains`, `TransfersEnd`,
`WheelsAreOffered`, `RemovalsEnd`, the properties of TaskControl,
`EveryCallReturns`, `StoppedBuildsGo`), which with ENABLED is beyond the prover;
`RangesAreSets`, as what the recursive functions of Ranges compute for every
input is an induction over data; what `TypesAreRight` says beyond `TypesHold`; and piw-sense (`ViewCatchesUp`,
`BarsAreSelected`), see the [plan](#plan).

## Not modelled

- *Whole parts:* piw-monitor's console; Lumberjack, the logger and the audit,
  which read logs and compare files and which nothing waits for; configuration,
  formatting, installation of the database. None of them shares state with the
  modelled parts but rows that nothing modelled reads.
- *Contents:* of wheels, metadata, package lists, pages and statistics; what pip
  and apt do, but for outcomes; descriptions, aliases and their links; downloads.
- *FileJuggler:* the link from the armv6l to the armv7l name made on commit,
  temporary files that are left over, wheels of size zero.
- *Catalogue and Website:* a version has one wheel; HOME and SEARCH rewrites;
  the driver's builds are coarse, and what follows the death of a task is
  TaskControl's matter only.
- *TaskControl:* four of the thirteen tasks, which have every kind of pausing and
  of call between them.
- *BuilderThread:* processes that pip starts itself.
- *Monitors:* messages lost at the high-water mark of a PUB socket; a move of the
  stick over several controls is one step.
- *EventFeed:* new packages, their descriptions, rate limits of PyPI.
- *Order and grain:* the queue socket of SlaveDriver holds ten QUEUE messages, BuildFarm's
  one (`Schedule`); the pages of one rewrite are written in one step
  (`WritePages`), so that no crash falls between two of its files; CloudGazer saves the serial
  after each event (`SetSerial`), where the code does after a batch, so that a
  crash repeats one event of the model and several of the code; and in a
  `punctual` world no build of a package ends while MrChase is busy with that package
  (`Unbuilt`).
- *PackageDb:* configured skips and ABIs of `build_abis` that change at run time.
- *MrChase:* two importers at once of the same kind, imports of several files.

## Plan

1. **Done**: the build farm with the proof of its sessions; transfers and their
   refinement; ranges; the site with CloudGazer, MrChase, TheSecretary and
   TheScribe; Seraph and the oracles with the proof of their refinement;
   the control of tasks; PyPI's feed; the builder's thread; piw-sense.
2. **Done**: the proofs of the farm, of transfers with their refinement, of the
   feed, of the builder's thread and of the site.
3. **Proofs that are left**: of piw-sense `BarsAreSelected` and the part of
   `ViewCatchesUp` that is about the order of the news. `AbisTakeTurns` without
   `~Readds`.
4. **More of the system**: piw-monitor's list; aliases; several wheels for a
   version in Catalogue.

To check: `tlc -config FarmAbis.cfg MCBuildFarm.tla` (the table of
[runs](#runs) has the module of each `.cfg`); `tlapm M.tla` for each module `M`
of the table of [proofs](#proofs).
