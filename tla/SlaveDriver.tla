----------------------------- MODULE SlaveDriver -----------------------------
(***************************************************************************)
(* The master's SlaveDriver task: the queues it was given by TheArchitect, *)
(* the builds it must not hand out, and what it believes of every slave    *)
(* (SlaveState).  The task is single threaded: it handles one message,     *)
(* expiry or control at a time, except that after logging a build it still *)
(* has to tell TheSecretary, another task, which pages to rewrite: other   *)
(* tasks and the slaves run in between, and that is what "job" is for.     *)
(***************************************************************************)
EXTENDS SlaveProtocol

CONSTANTS
  NoBuild,    \* SlaveState.build when there is none
  NoQueue,    \* no QUEUE message is waiting to be read
  NoJob       \* the driver is between two messages

VARIABLES
  up,         \* the task's thread is running
  known,      \* addresses with an entry in self.slaves
  reply,      \* per address, SlaveState.reply: the last reply but CONT
  build,      \* per address, SlaveState.build while wheels are being sent:
              \* the version, and how many are still to be verified
  killed, skipped, asleep,  \* addresses with these SlaveState flags set
  paused,     \* PausingTask.paused
  queues,     \* abi_queues, each a set popped in release order
  excluded,   \* excluded_builds: who put the entry there and if it expired
  inbox,      \* the QUEUE message waiting in builds_queue
  job,        \* the build just logged, whose pages are still to be announced
  files,      \* FileJuggler's view of each address: "none" expected,
              \* "pending" or "complete" but not yet verified
  outdated    \* pages that no longer match the database, and that
              \* TheSecretary has not been asked to rewrite

driverVars == <<up, known, reply, build, killed, skipped, asleep, paused,
                queues, excluded, inbox, job, files, outdated>>

BuildStates == [build : Builds, todo : 1..MaxFiles]
Pages == {"simple", "project"} \X Pkgs

DriverTypeOK ==
  /\ up \in BOOLEAN /\ paused \in BOOLEAN
  /\ known \subseteq Conns
  /\ reply \in [Conns -> Replies \cup {Quiet}]
  /\ build \in [Conns -> BuildStates \cup {NoBuild}]
  /\ killed \subseteq known /\ skipped \subseteq known /\ asleep \subseteq known
  /\ queues \in [Abis -> SUBSET Builds]
  /\ excluded \in [Abis -> [Keys -> {"no", "build", "delete", "lapsed"}]]
  /\ inbox \in [Abis -> SUBSET Builds] \cup {NoQueue}
  /\ job \in [conn : Conns, pkg : Pkgs, cmd : {"PROJECT", "BOTH"}] \cup {NoJob}
  /\ files \in [Conns -> {"none", "pending", "complete"}]
  /\ outdated \subseteq Pages

NoBuilds == [a \in Abis |-> {}]
NoExclusions == [a \in Abis |-> [k \in Keys |-> "no"]]

\* A master that has just started remembers nothing.
DriverInit ==
  /\ up = TRUE
  /\ known = {} /\ killed = {} /\ skipped = {} /\ asleep = {}
  /\ reply = [c \in Conns |-> Quiet]
  /\ build = [c \in Conns |-> NoBuild]
  /\ paused = FALSE
  /\ queues = NoBuilds
  /\ excluded = NoExclusions
  /\ inbox = NoQueue
  /\ job = NoJob
  /\ files = [c \in Conns |-> "none"]
  /\ outdated = {}

Ready == up /\ job = NoJob

-----------------------------------------------------------------------------
\* handle_slave.  Each request is taken from the wire and replaced by the
\* reply, in one step.

\* Mutant of Respond: CONT is remembered like any other reply.
RespondRemembersCont(c, m) ==
  /\ Reply(c, m)
  /\ reply' = [reply EXCEPT ![c] = m]
  /\ skipped' = IF m = Plain("DONE") THEN skipped \ {c} ELSE skipped

\* SlaveState.reply is set, and the reply sent.
Respond(c, m) ==
  /\ Reply(c, m)
  /\ reply' = IF m = Plain("CONT") THEN reply ELSE [reply EXCEPT ![c] = m]
  /\ skipped' = IF m = Plain("DONE") THEN skipped \ {c} ELSE skipped

SetBuild(c, value) == build' = [build EXCEPT ![c] = value]

\* del self.slaves[address]
Forget(c) ==
  /\ known' = known \ {c}
  /\ killed' = killed \ {c}
  /\ skipped' = skipped \ {c}
  /\ asleep' = asleep \ {c}
  /\ reply' = [reply EXCEPT ![c] = Quiet]
  /\ build' = [build EXCEPT ![c] = NoBuild]

\* A first message that is not HELLO is logged and gets no reply.
IgnoreUnknown(c) ==
  /\ Ready
  /\ c \notin known
  /\ wire[c] \in Requests /\ wire[c].msg # "HELLO"
  /\ Put(c, Quiet)
  /\ UNCHANGED <<driverVars, dbVars>>

DoHello(c) ==
  /\ Ready
  /\ wire[c].msg = "HELLO"
  /\ known' = known \cup {c}
  /\ Respond(c, Plain("ACK"))
  /\ UNCHANGED <<up, build, killed, asleep, paused, queues, excluded, inbox,
                 job, files, outdated, dbVars>>

\* The request of a slave that has an entry.
Asks(c, kind) == Ready /\ c \in known /\ wire[c].msg = kind

DoBye(c) ==
  /\ Asks(c, "BYE")
  /\ Forget(c)
  /\ Put(c, Quiet)
  /\ UNCHANGED <<up, paused, queues, excluded, inbox, job, files, outdated,
                 dbVars>>

\* do_idle: builds that may be given to the slave, and the first of them.
Offered(c) == {b \in queues[AbiOf(c)] : excluded[AbiOf(c)][b] = "no"}

First(S) == {b \in S : \A o \in S : Released[b] <= Released[o]}

\* Mutant of IdleAccepted: IDLE is refused after DONE.
IdleAcceptedAtFirst(c) == reply[c].msg \in {"ACK", "SLEEP"}

IdleAccepted(c) == reply[c].msg \in {"ACK", "SLEEP", "DONE"}

IdleDie(c) ==
  /\ Asks(c, "IDLE")
  /\ ~IdleAccepted(c) \/ c \in killed
  /\ Respond(c, Plain("DIE"))
  /\ UNCHANGED <<queues, excluded>>

\* Mutant of IdleSleep: the queue is looked at before the kill flag.
IdleSleepFirst(c) ==
  /\ Asks(c, "IDLE")
  /\ IdleAccepted(c)
  /\ paused \/ Offered(c) = {}
  /\ Respond(c, Plain("SLEEP"))
  /\ queues' = IF paused THEN queues ELSE [queues EXCEPT ![AbiOf(c)] = {}]
  /\ UNCHANGED excluded

IdleSleep(c) ==
  /\ Asks(c, "IDLE")
  /\ IdleAccepted(c) /\ c \notin killed
  /\ paused \/ Offered(c) = {}
  /\ Respond(c, Plain("SLEEP"))
  /\ queues' = IF paused THEN queues ELSE [queues EXCEPT ![AbiOf(c)] = {}]
  /\ UNCHANGED excluded

\* Mutant of IdleBuild: what was handed out is not excluded.
IdleBuildAgain(c) ==
  /\ Asks(c, "IDLE")
  /\ IdleAccepted(c) /\ c \notin killed /\ ~paused
  /\ \E b \in First(Offered(c)) :
       /\ Respond(c, Build(b))
       /\ queues' = [queues EXCEPT ![AbiOf(c)] =
                       {o \in @ : Released[o] > Released[b]}]
  /\ UNCHANGED excluded

\* Mutant of IdleBuild: builds are handed out while paused.
IdleBuildPaused(c) ==
  /\ Asks(c, "IDLE")
  /\ IdleAccepted(c) /\ c \notin killed
  /\ \E b \in First(Offered(c)) :
       /\ Respond(c, Build(b))
       /\ queues' = [queues EXCEPT ![AbiOf(c)] =
                       {o \in @ : Released[o] > Released[b]}]
       /\ excluded' = [excluded EXCEPT ![AbiOf(c)][b] = "build"]

\* Everything up to the build that is handed out is popped from the queue.
IdleBuild(c) ==
  /\ Asks(c, "IDLE")
  /\ IdleAccepted(c) /\ c \notin killed /\ ~paused
  /\ \E b \in First(Offered(c)) :
       /\ Respond(c, Build(b))
       /\ queues' = [queues EXCEPT ![AbiOf(c)] =
                       {o \in @ : Released[o] > Released[b]}]
       /\ excluded' = [excluded EXCEPT ![AbiOf(c)][b] = "build"]

DoIdle(c) ==
  /\ IdleDie(c) \/ IdleSleep(c) \/ IdleBuild(c)
  /\ UNCHANGED <<up, known, build, killed, asleep, paused, inbox, job, files,
                 outdated, dbVars>>

DoBusy(c) ==
  /\ Asks(c, "BUSY")
  /\ Respond(c, Plain(IF c \in skipped THEN "DONE" ELSE "CONT"))
  /\ UNCHANGED <<up, known, build, killed, asleep, paused, queues, excluded, inbox,
                 job, files, outdated, dbVars>>

\* db.log_build for the version that connection c was given.  The driver has
\* no handler for the IOError that a failed insertion comes back as: the
\* exception ends the task, which brings the whole master down.
Log(c, b, outcome, pages) ==
  \/ /\ CanLog(b)
     /\ LogBuild(AbiOf(c), b, outcome)
     /\ outdated' = outdated \cup (pages \X {b[1]})
     /\ job' = [conn |-> c, pkg |-> b[1],
                cmd |-> IF "simple" \in pages THEN "BOTH" ELSE "PROJECT"]
     /\ UNCHANGED <<up, wire, reply, skipped>>
  \/ /\ ~CanLog(b)
     /\ up' = FALSE
     /\ UNCHANGED <<outdated, job, wire, reply, skipped, dbVars>>

\* FsClient.expect: the juggler waits for the wheel that SEND asks for.
AskFor(c, b, n) ==
  /\ Respond(c, Send(n))
  /\ SetBuild(c, [build |-> b, todo |-> n])
  /\ files' = [files EXCEPT ![c] = "pending"]

\* do_built.  Only a successful build with wheels goes on to SEND.
BuiltDie(c) ==
  /\ Asks(c, "BUILT") /\ reply[c].msg # "BUILD"
  /\ Respond(c, Plain("DIE"))
  /\ SetBuild(c, NoBuild)
  /\ UNCHANGED <<up, job, files, outdated, dbVars>>

BuiltSkipped(c) ==
  /\ Asks(c, "BUILT") /\ reply[c].msg = "BUILD" /\ c \in skipped
  /\ Respond(c, Plain("DONE"))
  /\ SetBuild(c, NoBuild)
  /\ UNCHANGED <<up, job, files, outdated, dbVars>>

BuiltSend(c) ==
  /\ Asks(c, "BUILT") /\ reply[c].msg = "BUILD" /\ c \notin skipped
  /\ wire[c].status /\ wire[c].files > 0
  /\ AskFor(c, reply[c].build, wire[c].files)
  /\ UNCHANGED <<up, job, outdated, dbVars>>

\* Mutant of BuiltLog: an attempt without wheels leaves no log.
BuiltForget(c) ==
  /\ Asks(c, "BUILT") /\ reply[c].msg = "BUILD" /\ c \notin skipped
  /\ ~(wire[c].status /\ wire[c].files > 0)
  /\ Respond(c, Plain("DONE"))
  /\ UNCHANGED <<up, job, outdated, dbVars, build, files>>

BuiltLog(c) ==
  /\ Asks(c, "BUILT") /\ reply[c].msg = "BUILD" /\ c \notin skipped
  /\ ~(wire[c].status /\ wire[c].files > 0)
  /\ Log(c, reply[c].build, "bare", {"project"})
  /\ UNCHANGED <<build, files>>

DoBuilt(c) ==
  /\ BuiltDie(c) \/ BuiltSkipped(c) \/ BuiltSend(c) \/ BuiltLog(c)
  /\ UNCHANGED <<known, killed, asleep, paused, queues, excluded, inbox>>

\* do_sent.  verify takes the entry from the juggler whatever the outcome;
\* whether a complete file matches its hash is up to the network.
SentDie(c) ==
  /\ Asks(c, "SENT") /\ reply[c].msg # "SEND"
  /\ Respond(c, Plain("DIE"))
  /\ UNCHANGED <<up, build, job, files, outdated, dbVars>>

SentCorrupt(c) ==
  /\ Asks(c, "SENT") /\ reply[c].msg = "SEND"
  /\ AskFor(c, build[c].build, build[c].todo)
  /\ UNCHANGED <<up, job, outdated, dbVars>>

Verified(c) ==
  /\ Asks(c, "SENT") /\ reply[c].msg = "SEND"
  /\ files[c] = "complete"

\* Mutant of SentNext: off by one.
SentNextAlways(c) ==
  /\ Verified(c) /\ build[c].todo >= 1
  /\ AskFor(c, build[c].build, build[c].todo - 1)
  /\ UNCHANGED <<up, job, outdated, dbVars>>

SentNext(c) ==
  /\ Verified(c) /\ build[c].todo > 1
  /\ AskFor(c, build[c].build, build[c].todo - 1)
  /\ UNCHANGED <<up, job, outdated, dbVars>>

SentLast(c) ==
  /\ Verified(c) /\ build[c].todo = 1
  /\ files' = [files EXCEPT ![c] = "none"]
  /\ Log(c, build[c].build, "wheel", {"simple", "project"})
  /\ UNCHANGED build

DoSent(c) ==
  /\ SentDie(c) \/ SentCorrupt(c) \/ SentNext(c) \/ SentLast(c)
  /\ UNCHANGED <<known, killed, asleep, paused, queues, excluded, inbox>>

\* After logging, TheSecretary is asked for the pages and the slave released.
\* BOTH covers the package's simple index and project page.
Announce ==
  /\ up /\ job # NoJob
  /\ outdated' = outdated \ ((IF job.cmd = "BOTH" THEN {"simple", "project"}
                                                  ELSE {"project"}) \X {job.pkg})
  /\ Respond(job.conn, Plain("DONE"))
  /\ SetBuild(job.conn, NoBuild)
  /\ job' = NoJob
  /\ UNCHANGED <<up, known, killed, asleep, paused, queues, excluded, inbox,
                 files, dbVars>>

HandleSlave(c) ==
  \/ IgnoreUnknown(c) \/ DoHello(c) \/ DoBye(c)
  \/ DoIdle(c) \/ DoBusy(c) \/ DoBuilt(c) \/ DoSent(c)

-----------------------------------------------------------------------------
\* The other inputs of the task.

\* remove_expired, for one slave whose last request is too long ago.
RemoveExpired(c) ==
  /\ Ready
  /\ c \in known
  /\ Forget(c)
  /\ UNCHANGED <<up, paused, queues, excluded, inbox, job, files, outdated,
                 wire, dbVars>>

\* Mutant of HandleBuild: expired exclusions are never pruned.
HandleBuildKeeps ==
  /\ Ready
  /\ inbox # NoQueue
  /\ queues' = [a \in Abis |-> {b \in inbox[a] :
                  \A k \in {b, <<b[1], NoVer>>} : excluded[a][k] = "no"}]
  /\ inbox' = NoQueue
  /\ UNCHANGED <<up, known, reply, build, killed, skipped, asleep, paused, job,
                 excluded, files, outdated, wire, dbVars>>

\* handle_build: expired exclusions are pruned here and nowhere else, then
\* the queues are replaced by what was received, less what is excluded.
HandleBuild ==
  /\ Ready
  /\ inbox # NoQueue
  /\ excluded' = [a \in Abis |-> [k \in Keys |->
                    IF excluded[a][k] = "lapsed" THEN "no" ELSE excluded[a][k]]]
  /\ queues' = [a \in Abis |-> {b \in inbox[a] :
                  \A k \in {b, <<b[1], NoVer>>} : excluded[a][k] \in {"no", "lapsed"}}]
  /\ inbox' = NoQueue
  /\ UNCHANGED <<up, known, reply, build, killed, skipped, asleep, paused, job,
                 files, outdated, wire, dbVars>>

\* Mutant of Building: a removed package is not matched with its versions.
BuildingVersion(k) == {c \in known : reply[c].msg = "BUILD" /\ reply[c].build = k}

\* The slaves that are building a version covered by k: not those that are
\* sending its wheels, whose last reply is SEND.
Building(k) == {c \in known : reply[c].msg = "BUILD" /\ Covers(k, reply[c].build)}

\* handle_delete, for a DELVER or a DELPKG.
HandleDelete(k) ==
  /\ Ready
  /\ excluded' = [a \in Abis |-> [excluded[a] EXCEPT ![k] = "delete"]]
  /\ queues' = [a \in Abis |-> {b \in queues[a] : ~Covers(k, b)}]
  /\ skipped' = skipped \cup Building(k)
  /\ UNCHANGED <<up, known, reply, build, killed, asleep, paused, inbox, job,
                 files, outdated, wire, dbVars>>

\* handle_control, for the slaves C: one of them, or all when data is None.
Kill(C) == killed' = killed \cup C /\ UNCHANGED <<skipped, asleep, paused>>
Skip(C) == skipped' = skipped \cup C /\ UNCHANGED <<killed, asleep, paused>>

\* SLEEP and WAKE for all are preceded by a PAUSE or RESUME of every task.
Sleep(C, all) ==
  /\ asleep' = asleep \cup C
  /\ paused' = (all \/ paused)
  /\ UNCHANGED <<killed, skipped>>

Wake(C, all) ==
  /\ killed' = killed \ C
  /\ skipped' = skipped \ C
  /\ asleep' = asleep \ C
  /\ paused' = (~all /\ paused)

HandleControl(op) ==
  /\ Ready
  /\ \E C \in {{c} : c \in known} \cup {known} :
       \/ op = "KILL" /\ Kill(C)
       \/ op = "SKIP" /\ Skip(C)
       \/ op = "SLEEP" /\ \E all \in {C = known, FALSE} : Sleep(C, all)
       \/ op = "WAKE" /\ \E all \in {C = known, FALSE} : Wake(C, all)
  /\ UNCHANGED <<up, known, reply, build, queues, excluded, inbox, job, files,
                 outdated, wire, dbVars>>
=============================================================================
