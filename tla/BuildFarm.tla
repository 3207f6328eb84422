------------------------------ MODULE BuildFarm ------------------------------
(***************************************************************************)
(* SlaveDriver and the build slaves together, with what surrounds them:    *)
(* TheArchitect filling the queues, CloudGazer removing versions, the      *)
(* operator's monitor, clocks, and the faults that the two sides must      *)
(* survive.                                                                *)
(***************************************************************************)
EXTENDS SlaveDriver, BuildSlave

CONSTANTS
  NoRemoval,  \* CloudGazer is not removing anything
  Removals,   \* versions and packages (Keys) that PyPI may remove
  Readds,     \* PyPI may publish a removed version again
  Controls,   \* what the operator may send: KILL, SKIP, SLEEP, WAKE
  Faults,     \* what may go wrong: "loss" of a message, "delay" beyond a
              \* timeout, "exit" of a slave, "restart" of the master
  MaxFaults,  \* bound: faults in one behaviour
  Punctual    \* builds and queue messages take less time than exclusions

ASSUME FarmAssumption ==
  /\ Removals \subseteq Keys
  /\ Readds \in BOOLEAN /\ Punctual \in BOOLEAN
  /\ Controls \subseteq {"KILL", "SKIP", "SLEEP", "WAKE"}
  /\ Faults \subseteq {"loss", "delay", "exit", "restart"}
  /\ MaxFaults \in Nat
  /\ NoConn \notin Conns
  /\ NoBuild \notin BuildStates
  /\ NoBuilder \notin BuilderStates
  /\ NoQueue \notin [Abis -> SUBSET Builds]
  /\ NoJob \notin [conn : Conns, pkg : Pkgs, cmd : {"PROJECT", "BOTH"}]
  /\ NoRemoval \notin [key : Keys, acked : BOOLEAN]

VARIABLES
  removal,    \* the removal that CloudGazer is carrying out
  faults      \* how many faults have happened

vars == <<dbVars, wire, driverVars, slaveVars, removal, faults>>

TypeOK ==
  /\ DbTypeOK /\ WireTypeOK /\ DriverTypeOK /\ SlaveTypeOK
  /\ removal \in [key : Keys, acked : BOOLEAN] \cup {NoRemoval}
  /\ faults \in 0..MaxFaults

Init ==
  /\ DbInit /\ WireInit /\ DriverInit /\ SlaveInit
  /\ removal = NoRemoval
  /\ faults = 0

\* The step needs a fault of this kind to have happened.
Fault(kind) ==
  /\ kind \in Faults
  /\ faults < MaxFaults
  /\ faults' = faults + 1

-----------------------------------------------------------------------------
\* The driver and the slaves at work.

DriverStep(c) ==
  /\ HandleSlave(c)
  /\ UNCHANGED <<slaveVars, removal, faults>>

AnnounceStep ==
  /\ Announce
  /\ UNCHANGED <<slaveVars, removal, faults>>

SlaveStep(s) ==
  /\ \/ Receive(s)
     \/ \E c \in Conns : c \notin known /\ Connect(s, c)
  /\ files' = [c \in Conns |-> IF conn[s] = NoConn /\ conn'[s] = c
                               THEN "none" ELSE files[c]]
  /\ UNCHANGED <<up, known, reply, build, killed, skipped, asleep, paused,
                 queues, excluded, inbox, job, outdated, dbVars, removal, faults>>

BuilderStep(s) ==
  /\ \E ok \in BOOLEAN, n \in 0..MaxFiles : BuildEnds(s, ok, n)
  /\ UNCHANGED <<driverVars, dbVars, removal, faults>>

\* The juggler serves a transfer that it was told to expect.  It knows the
\* slave by an identifier that a later session of the slave does not share.
\* Its DONE is the end of the transfer for the juggler whether it arrives or
\* not: to the HELLO that a slave repeats after a DONE that is lost, or after
\* a restart of the master, it does not answer.  Nor does it if a HELLO repeated
\* in an earlier upload comes so late that it takes the transfer for its own
\* address (here in any upload, also the first).
TransferStep(s) ==
  /\ s \in sending /\ files[conn[s]] = "pending"
  /\ files' = [files EXCEPT ![conn[s]] = "complete"]
  /\ \/ Transferred(s) /\ UNCHANGED faults
     \/ (Fault("loss") \/ Fault("delay")) /\ UNCHANGED <<slaveVars, wire>>
  /\ UNCHANGED <<up, known, reply, build, killed, skipped, asleep, paused,
                 queues, excluded, inbox, job, outdated, dbVars, removal>>

-----------------------------------------------------------------------------
\* Timeouts.  Both ends give up after the same five minutes; without a delay
\* that is only when the message they wait for cannot come any more.

\* The driver waits for TheScribe to file a build log.  TheScribe is paused
\* together with the master, and answers nothing until it is resumed.  As a
\* WAKE may reach TheScribe before the driver sees it, the answer is possible
\* in that state, but nothing promises it.
Stalled == job # NoJob /\ paused

NoAnswer(s) ==
  /\ conn[s] # NoConn
  /\ \/ wire[conn[s]] = Quiet
     \/ (~up \/ Stalled) /\ wire[conn[s]] \in Requests

GiveUp(s) ==
  /\ MasterTimeout(s)
  /\ (NoAnswer(s) /\ UNCHANGED faults) \/ (~NoAnswer(s) /\ Fault("delay"))
  /\ UNCHANGED <<driverVars, dbVars, removal>>

Silent(c) ==
  \/ conn[c[1]] # c
  \/ wire[c] = Quiet /\ ~(c[1] \in sending /\ files[c] = "pending")

Expire(c) ==
  /\ RemoveExpired(c)
  /\ (Silent(c) /\ UNCHANGED faults) \/ (~Silent(c) /\ Fault("delay"))
  /\ UNCHANGED <<slaveVars, removal>>

\* Slave s builds b, or is about to.
Holds(s, b) ==
  \/ builder[s] # NoBuilder /\ builder[s].build = b /\ builder[s].state = "running"
  \/ conn[s] # NoConn /\ wire[conn[s]] = Build(b)

\* Some session has b in hand, from the BUILD to the logging of its result.
AtWork(c, b) ==
  \/ c \in known /\ reply[c] = Build(b)
  \/ build[c] # NoBuild /\ build[c].build = b
  \/ wire[c] = Build(b)
  \/ builder[c[1]] # NoBuilder /\ builder[c[1]].build = b

\* An exclusion expires: build_timeout (three hours by default) after the
\* BUILD, or an hour after a removal.  If all is punctual, that is longer than
\* the work on the build takes, and than a QUEUE message waits to be read.
Lapse(a, k) ==
  /\ excluded[a][k] \in {"build", "delete"}
  /\ Punctual => \A b \in {o \in Builds : Covers(k, o)} :
       /\ inbox # NoQueue => b \notin inbox[a]
       /\ \A c \in Conns : AbiOf(c) = a => ~AtWork(c, b)
  /\ excluded' = [excluded EXCEPT ![a][k] = "lapsed"]
  /\ UNCHANGED <<up, known, reply, build, killed, skipped, asleep, paused,
                 queues, inbox, job, files, outdated, slaveVars, dbVars, wire,
                 removal, faults>>

-----------------------------------------------------------------------------
\* The other tasks of the master.

\* TheArchitect runs the builds_pending query and pushes the result.
Schedule ==
  /\ up
  /\ inbox = NoQueue
  /\ inbox' = BuildsPending
  /\ UNCHANGED <<up, known, reply, build, killed, skipped, asleep, paused,
                 queues, excluded, job, files, outdated, slaveVars, dbVars,
                 wire, removal, faults>>

ScheduledBuild ==
  /\ HandleBuild
  /\ UNCHANGED <<slaveVars, removal, faults>>

\* CloudGazer, on a "remove" event: mark the version, have every task drop
\* it, and only then delete it.
StartRemoval(k) ==
  /\ up /\ removal = NoRemoval
  /\ SkipVersions(k)
  /\ removal' = [key |-> k, acked |-> FALSE]
  /\ UNCHANGED <<driverVars, slaveVars, wire, faults>>

DropRemoved ==
  /\ removal # NoRemoval /\ ~removal.acked
  /\ HandleDelete(removal.key)
  /\ removal' = [removal EXCEPT !.acked = TRUE]
  /\ UNCHANGED <<slaveVars, faults>>

FinishRemoval ==
  /\ removal # NoRemoval /\ removal.acked
  /\ DeleteVersions(removal.key)
  /\ removal' = NoRemoval
  /\ UNCHANGED <<driverVars, slaveVars, wire, faults>>

\* ... and on the event of a version that has no row.
AddRemoved(b) ==
  /\ Readds /\ up /\ removal = NoRemoval
  /\ AddVersion(b)
  /\ UNCHANGED <<driverVars, slaveVars, wire, removal, faults>>

Operator ==
  /\ \E op \in Controls : HandleControl(op)
  /\ UNCHANGED <<slaveVars, removal, faults>>

-----------------------------------------------------------------------------
\* Faults.

LoseMessage(c) ==
  /\ wire[c] # Quiet
  /\ Put(c, Quiet)
  /\ Fault("loss")
  /\ UNCHANGED <<driverVars, slaveVars, dbVars, removal>>

SlaveExit(s) ==
  /\ SigTerm(s) \/ PowerLoss(s)
  /\ Fault("exit")
  /\ UNCHANGED <<driverVars, dbVars, removal>>

Crash ==
  /\ up
  /\ up' = FALSE
  /\ Fault("restart")
  /\ UNCHANGED <<known, reply, build, killed, skipped, asleep, paused, queues,
                 excluded, inbox, job, files, outdated, slaveVars, dbVars,
                 wire, removal>>

\* What was in memory is gone, the database and the slaves are as they were.
Restart ==
  /\ "restart" \in Faults
  /\ ~up
  /\ up' = TRUE
  /\ known' = {} /\ killed' = {} /\ skipped' = {} /\ asleep' = {}
  /\ reply' = [c \in Conns |-> Quiet]
  /\ build' = [c \in Conns |-> NoBuild]
  /\ paused' = FALSE
  /\ queues' = NoBuilds
  /\ excluded' = NoExclusions
  /\ inbox' = NoQueue
  /\ job' = NoJob
  /\ files' = [c \in Conns |-> "none"]
  /\ removal' = NoRemoval
  /\ UNCHANGED <<outdated, slaveVars, dbVars, wire, faults>>

-----------------------------------------------------------------------------
\* What the farm does while nothing is removed, nobody gives orders and the
\* master stays up.
FarmStep ==
  \/ \E c \in Conns : DriverStep(c) \/ Expire(c) \/ LoseMessage(c)
  \/ \E s \in Slaves :
       SlaveStep(s) \/ BuilderStep(s) \/ TransferStep(s) \/ GiveUp(s) \/ SlaveExit(s)
  \/ AnnounceStep \/ Schedule \/ ScheduledBuild
  \/ \E a \in Abis, k \in Keys : Lapse(a, k)

RemovalStep ==
  \/ \E k \in Removals : StartRemoval(k)
  \/ DropRemoved \/ FinishRemoval
  \/ \E b \in Builds : AddRemoved(b)

Next == FarmStep \/ RemovalStep \/ Operator \/ Crash \/ Restart

Spec == Init /\ [][Next]_vars

-----------------------------------------------------------------------------
(* Safety.                                                                 *)

\* The asserts of piw-slave never fail, whatever is lost or delayed and
\* whenever either side restarts: each reply a slave can receive fits what
\* the slave is doing (do_ack, do_sleep, do_build, do_cont, do_send, do_done),
\* SEND asks for a wheel that the build produced, and a slave that may go idle
\* has no build left.
ReplyFits(s, m) ==
  /\ m.msg = "ACK" <=> s \notin acked
  /\ m.msg \in {"ACK", "SLEEP", "BUILD"} => builder[s] = NoBuilder
  /\ m.msg \in {"CONT", "DONE", "SEND"} => builder[s] # NoBuilder
  /\ m.msg = "SEND" =>
       builder[s].state = "ok" /\ m.file <= builder[s].files

SlaveAssertions ==
  \A s \in Slaves :
    conn[s] # NoConn /\ wire[conn[s]] \in Replies /\ wire[conn[s]].msg # "DIE"
      => ReplyFits(s, wire[conn[s]])

\* The two ends of a session agree, which is why the assertions hold: what the
\* slave is doing fits the message on the wire, and both fit the last reply
\* that the driver remembers, for as long as it remembers the session at all.
\* That includes a reply that is late because the driver still waits for the
\* other tasks (job).
SlaveFits(s, m) ==
  /\ m.msg # "BYE"
  /\ m.msg \in {"HELLO", "IDLE"} => builder[s] = NoBuilder
  /\ m.msg = "HELLO" <=> s \notin acked /\ m \in Requests
  /\ m.msg \in {"BUSY", "BUILT", "SENT"} => builder[s] # NoBuilder
  /\ m.msg = "BUILT" =>
       /\ builder[s].state = (IF m.status THEN "ok" ELSE "failed")
       /\ builder[s].files = m.files
  /\ m.msg = "SENT" => builder[s].state = "ok"
  /\ m \in Replies /\ m.msg # "DIE" => ReplyFits(s, m)
  /\ s \in sending =>
       m = Quiet /\ s \in acked /\ builder[s] # NoBuilder /\ builder[s].state = "ok"

DriverFits(s, c, m) ==
  /\ m.msg # "HELLO"
  /\ m.msg = "IDLE" => IdleAccepted(c)
  /\ m.msg \in {"BUSY", "CONT", "BUILT"} => reply[c].msg = "BUILD"
  /\ m.msg = "SENT" \/ s \in sending => reply[c].msg = "SEND"
  /\ m \in Replies /\ m.msg # "CONT" => m = reply[c]
  /\ reply[c].msg = "SEND" =>
       /\ s \in acked /\ builder[s] # NoBuilder
       /\ builder[s].state = "ok" /\ build[c].todo <= builder[s].files

JobFits(s, m) ==
  m.msg \in {"BUILT", "SENT", "none"} /\ s \in acked \ sending /\ builder[s] # NoBuilder

SessionAgrees(s) ==
  LET c == conn[s] IN
  IF c = NoConn
  THEN s \notin acked \cup sending /\ builder[s] = NoBuilder
  ELSE /\ SlaveFits(s, wire[c])
       /\ c \in known => DriverFits(s, c, wire[c])
       /\ job # NoJob /\ job.conn = c => JobFits(s, wire[c])

SessionsAgree ==
  /\ \A s \in Slaves : SessionAgrees(s)
  /\ \A c \in known : reply[c].msg = "SEND" => build[c] # NoBuild
  /\ job # NoJob => job.conn \in known

\* A slave that follows the protocol is never told to die for breaking it
\* (do_idle, do_built, do_sent): DIE means that the operator killed it.
DieOnlyIfKilled ==
  [][\A c \in Conns : wire[c] \in Requests /\ wire'[c].msg = "DIE"
                        => c \in killed]_vars

\* No version is being built by two slaves of an ABI at the same time: this
\* is what handle_build and do_idle keep excluded_builds for, although the
\* database does not know of builds in progress and slaves come and go.
NoDuplicateBuilds ==
  \A s, t \in Slaves : \A b \in Builds :
    s # t /\ Abi[s] = Abi[t] /\ Holds(s, b) => ~Holds(t, b)

\* Nor by slaves of different ABIs, since builds_pending offers a version to
\* one ABI until its attempt is logged.
OneAbiAtATime ==
  \A s, t \in Slaves : \A b \in Builds :
    Abi[s] # Abi[t] /\ Holds(s, b) => ~Holds(t, b)

\* Once all tasks have dropped a version, every slave still building it is
\* marked to be skipped (handle_delete), and the version is not handed out
\* again from a queue made up before the removal (handle_build).
Dropped(b) ==
  \/ versions[b] = "gone"
  \/ removal # NoRemoval /\ removal.acked /\ Covers(removal.key, b)

RemovedBuildsAreSkipped ==
  \A c \in known : \A b \in Builds :
    reply[c] = Build(b) /\ Dropped(b) => c \in skipped

\* The attempt that left n wheels is in the database: its row, and a file of
\* that name, which a later build may have replaced by its own.
Recorded(a, b, n) ==
  IF n = 0 THEN "bare" \in logged[a][b]
  ELSE logged[a][b] # {} /\ \E o \in SameFile(a, b) : "wheel" \in logged[o][b]

\* A slave is told to throw a finished build away (DONE) only after the
\* attempt has been logged, unless the build was to be skipped; and whatever is
\* logged is announced to TheSecretary before the driver does anything else, so
\* the pages are out of date only while it is at it.  Stated where nothing is
\* skipped and nothing removed.
FinishedBuildsAreLogged ==
  /\ outdated # {} => job # NoJob
  /\ \A s \in Slaves :
       conn[s] # NoConn /\ wire[conn[s]] = Plain("DONE") /\ builder[s].state # "running"
       => Recorded(Abi[s], builder[s].build, builder[s].files)

-----------------------------------------------------------------------------
(* Liveness.  Every task polls its sockets in turn, so a message that waits *)
(* is handled, unless the task is stuck; a slave acts on each reply; builds *)
(* end; a transfer that the juggler serves finishes (one that it does not   *)
(* serve any more need not) and none is corrupted for ever; the periodic    *)
(* work (expiry, the queue query) is repeated, and time passes, so          *)
(* exclusions lapse; a reset slave connects again.  Nothing is assumed of   *)
(* faults, of PyPI, or of the operator.                                     *)

Fairness ==
  /\ \A c \in Conns :
       /\ WF_vars(DriverStep(c))
       /\ SF_vars(Verified(c) /\ DoSent(c) /\ ~SentCorrupt(c)
                  /\ UNCHANGED <<slaveVars, removal, faults>>)
       /\ WF_vars(Silent(c) /\ Expire(c))
  /\ \A s \in Slaves :
       /\ WF_vars(SlaveStep(s)) /\ WF_vars(BuilderStep(s))
       /\ WF_vars(TransferStep(s) /\ UNCHANGED faults)
       /\ WF_vars(NoAnswer(s) /\ GiveUp(s))
  /\ WF_vars(~Stalled /\ AnnounceStep) /\ WF_vars(Schedule) /\ WF_vars(ScheduledBuild)
  /\ \A a \in Abis, k \in Keys : SF_vars(Lapse(a, k))
  /\ WF_vars(DropRemoved) /\ WF_vars(FinishRemoval)
  /\ WF_vars(Restart)

FairSpec == Spec /\ Fairness

\* The slave repeats the HELLO of an upload of which the juggler knows nothing
\* any more.  Wheel.transfer has no timeout, so only a signal ends that.
Stuck(s) == s \in sending /\ files[conn[s]] # "pending"

\* No build is lost for good: as long as some slave has the ABI that a version
\* is queued for, the version is attempted there in the end, though slaves
\* crash while building it and messages get lost (handle_build's docstring:
\* "a future re-run of the build queue query will return these packages again").
EveryBuildIsAttempted ==
  \A a \in Abis : \A b \in Builds :
    b \in BuildsPending[a] ~>
      b \notin BuildsPending[a] \/ \A s \in Slaves : Abi[s] = a => Stuck(s)

\* A slave always gets back to a session that the master knows of, unless it
\* is stuck in an upload: a timeout ends whatever else it waits for.
SlavesRejoin ==
  \A s \in Slaves : []<>(conn[s] \in known \/ Stuck(s))

\* What the developer documentation says of a master that is restarted or
\* replaced: that the slaves need not be, as their timeout (main_loop) "will
\* then effectively restart the slave".
SlavesOutliveTheMaster ==
  \A s \in Slaves : []<>(conn[s] \in known)

\* KILL takes effect whatever the slave is doing: the session ends, unless a
\* WAKE takes the order back or the master is paused (SlaveState.kill, do_idle,
\* do_die, do_bye, remove_expired).
KilledSlavesLeave ==
  \A c \in Conns : c \in killed ~> c \notin killed \/ paused

\* A master that stays paused ends up with no build running anywhere: those in
\* progress are finished, skipped or given up, and no new ones start (do_idle).
PausedFarmDrains ==
  <>[]paused => <>[](\A s \in Slaves : builder[s] = NoBuilder)
=============================================================================
