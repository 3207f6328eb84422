--------------------------- MODULE BuildFarmProofs ---------------------------
(***************************************************************************)
(* Proofs about BuildFarm, for any number of packages, ABIs, slaves and    *)
(* faults.                                                                 *)
(***************************************************************************)
EXTENDS BuildFarm, TLAPS

Fields(m) == /\ m.msg = "BUILD" => m.build \in Builds
             /\ m.msg = "SEND" => m.file \in 1..MaxFiles
             /\ m.msg = "BUILT" => m.status \in BOOLEAN /\ m.files \in 0..MaxFiles

\* What a message may hold follows from its kind, which also tells whether it
\* is a request or a reply.
LEMMA Kinds ==
  /\ \A m \in Requests \cup Replies \cup {Quiet} :
       /\ Fields(m)
       /\ m \in Requests <=> m.msg \in {"HELLO", "IDLE", "BUSY", "BUILT", "SENT", "BYE"}
       /\ m \in Replies <=> m.msg \in {"ACK", "SLEEP", "CONT", "DONE", "DIE", "BUILD", "SEND"}
       /\ m = Quiet <=> m.msg = "none"
BY DEF Requests, Replies, Quiet, Plain, Built, Build, Send, Fields

LEMMA Makes ==
  /\ \A k \in {"HELLO", "IDLE", "BUSY", "SENT", "BYE"} : Plain(k) \in Requests
  /\ \A k \in {"ACK", "SLEEP", "CONT", "DONE", "DIE"} : Plain(k) \in Replies
  /\ \A ok \in BOOLEAN, n \in 0..MaxFiles : Built(ok, n) \in Requests
  /\ \A b \in Builds : Build(b) \in Replies
  /\ \A n \in 1..MaxFiles : Send(n) \in Replies
<1>1. \A k \in {"HELLO", "IDLE", "BUSY", "SENT", "BYE"} : Plain(k) \in Requests
  BY DEF Requests, Plain
<1>2. \A k \in {"ACK", "SLEEP", "CONT", "DONE", "DIE"} : Plain(k) \in Replies
  BY DEF Replies, Plain
<1>3. \A ok \in BOOLEAN, n \in 0..MaxFiles : Built(ok, n) \in Requests
  BY DEF Requests
<1>4. \A b \in Builds : Build(b) \in Replies
  BY Zenon DEF Replies
<1>5. \A n \in 1..MaxFiles : Send(n) \in Replies
  BY Zenon DEF Replies
<1> QED BY <1>1, <1>2, <1>3, <1>4, <1>5

\* A driver that waits for a wheel knows which one (AskFor).
SendsHaveBuild == \A c \in known : reply[c].msg = "SEND" => build[c] # NoBuild

LEMMA InitType == Init => TypeOK
<1> SUFFICES ASSUME Init PROVE TypeOK OBVIOUS
<1> USE DEF Init, TypeOK
<1>1. DbTypeOK BY DEF DbInit, DbTypeOK
<1>2. WireTypeOK BY DEF WireInit, WireTypeOK
<1>3. DriverTypeOK BY DEF DriverInit, DriverTypeOK, NoBuilds, NoExclusions
<1>4. SlaveTypeOK BY DEF SlaveInit, SlaveTypeOK
<1> QED BY <1>1, <1>2, <1>3, <1>4, FarmAssumption

LEMMA WireType ==
  ASSUME WireTypeOK, NEW c \in Conns, NEW m \in Requests \cup Replies \cup {Quiet},
         UNCHANGED conn, Put(c, m) \/ Reply(c, m)
  PROVE  WireTypeOK'
BY DEF WireTypeOK, Put, Reply

LEMMA RespondType ==
  ASSUME WireTypeOK, DriverTypeOK, NEW c \in Conns, NEW m \in Replies,
         UNCHANGED conn, Respond(c, m)
  PROVE  /\ WireTypeOK'
         /\ reply' \in [Conns -> Replies \cup {Quiet}]
         /\ skipped' \subseteq skipped
<1>1. WireTypeOK' BY WireType DEF Respond
<1>2. reply' \in [Conns -> Replies \cup {Quiet}] BY DEF Respond, DriverTypeOK
<1>3. skipped' \subseteq skipped BY DEF Respond
<1> QED BY <1>1, <1>2, <1>3

LEMMA AskForType ==
  ASSUME WireTypeOK, DriverTypeOK, NEW c \in Conns, NEW b \in Builds,
         NEW n \in 1..MaxFiles, UNCHANGED conn, AskFor(c, b, n)
  PROVE  /\ WireTypeOK'
         /\ reply' \in [Conns -> Replies \cup {Quiet}]
         /\ skipped' \subseteq skipped
         /\ build' \in [Conns -> BuildStates \cup {NoBuild}]
         /\ files' \in [Conns -> {"none", "pending", "complete"}]
<1>1. Send(n) \in Replies BY Makes
<1>2. /\ WireTypeOK'
      /\ reply' \in [Conns -> Replies \cup {Quiet}]
      /\ skipped' \subseteq skipped
  BY <1>1, RespondType DEF AskFor
<1>3. [build |-> b, todo |-> n] \in BuildStates BY DEF BuildStates
<1>4. build' \in [Conns -> BuildStates \cup {NoBuild}]
  BY <1>3 DEF AskFor, SetBuild, DriverTypeOK
<1>5. files' \in [Conns -> {"none", "pending", "complete"}]
  BY DEF AskFor, DriverTypeOK
<1> QED BY <1>2, <1>4, <1>5

LEMMA LogType ==
  ASSUME DbTypeOK, WireTypeOK, DriverTypeOK, UNCHANGED conn, NEW c \in Conns,
         NEW b \in Builds, NEW outcome \in {"bare", "wheel"},
         NEW pages \in SUBSET {"simple", "project"}, Log(c, b, outcome, pages)
  PROVE  /\ DbTypeOK' /\ WireTypeOK'
         /\ up' \in BOOLEAN /\ outdated' \subseteq Pages
         /\ job' \in [conn : Conns, pkg : Pkgs, cmd : {"PROJECT", "BOTH"}] \cup {NoJob}
         /\ UNCHANGED <<wire, reply, skipped>>
<1>1. AbiOf(c) \in Abis BY ProtocolAssumption DEF AbiOf, Conns
<1>2. DbTypeOK'
  <2>1. CASE LogBuild(AbiOf(c), b, outcome)
    <3>1. ASSUME NEW o \in Abis
          PROVE  logged'[o] \in [Builds -> SUBSET {"bare", "wheel"}]
      BY <2>1 DEF LogBuild, DbTypeOK
    <3>2. logged' \in [Abis -> [Builds -> SUBSET {"bare", "wheel"}]]
      BY <2>1, <3>1 DEF LogBuild
    <3> QED BY <2>1, <3>2 DEF LogBuild, DbTypeOK
  <2>2. CASE UNCHANGED dbVars BY <2>2 DEF DbTypeOK, dbVars
  <2> QED BY <2>1, <2>2 DEF Log
<1>3. WireTypeOK' BY DEF Log, WireTypeOK
<1>4. b[1] \in Pkgs BY DEF Builds
<1>5. outdated' \subseteq Pages BY <1>4 DEF Log, Pages, DriverTypeOK
<1>6. job' \in [conn : Conns, pkg : Pkgs, cmd : {"PROJECT", "BOTH"}] \cup {NoJob}
  BY <1>4 DEF Log, DriverTypeOK
<1>7. up' \in BOOLEAN BY DEF Log, DriverTypeOK
<1> QED BY <1>2, <1>3, <1>5, <1>6, <1>7 DEF Log

\* The handlers of a slave's requests keep the types.  Only SENT relies on
\* more than the types: the wheel asked for is the one that the build is at.
LEMMA HandleSlaveType ==
  ASSUME DbTypeOK, WireTypeOK, DriverTypeOK, SendsHaveBuild, UNCHANGED conn,
         NEW c \in Conns, HandleSlave(c)
  PROVE  DbTypeOK' /\ WireTypeOK' /\ DriverTypeOK'
<1> USE DEF HandleSlave
<1>0. /\ wire[c] \in Requests \cup Replies \cup {Quiet}
      /\ reply[c] \in Replies \cup {Quiet}
      /\ Fields(wire[c]) /\ Fields(reply[c])
  BY Kinds DEF WireTypeOK, DriverTypeOK
<1>1. CASE IgnoreUnknown(c)
  <2>1. WireTypeOK' BY <1>1, WireType DEF IgnoreUnknown
  <2> QED BY <1>1, <2>1 DEF IgnoreUnknown, driverVars, dbVars, DbTypeOK, DriverTypeOK
<1>2. CASE DoHello(c)
  <2>1. Plain("ACK") \in Replies BY Makes
  <2>2. /\ WireTypeOK'
        /\ reply' \in [Conns -> Replies \cup {Quiet}]
        /\ skipped' \subseteq skipped
    BY <1>2, <2>1, RespondType DEF DoHello
  <2> QED BY <1>2, <2>2 DEF DoHello, dbVars, DbTypeOK, DriverTypeOK
<1>3. CASE DoBye(c)
  <2>1. WireTypeOK' BY <1>3, WireType DEF DoBye
  <2> QED BY <1>3, <2>1 DEF DoBye, Forget, dbVars, DbTypeOK, DriverTypeOK
<1>4. CASE DoIdle(c)
  <2> USE <1>4 DEF DoIdle
  <2>1. /\ WireTypeOK'
        /\ reply' \in [Conns -> Replies \cup {Quiet}]
        /\ skipped' \subseteq skipped
    <3>1. \A k \in {"DIE", "SLEEP"} : Plain(k) \in Replies BY Makes
    <3>2. CASE IdleDie(c) BY <3>1, <3>2, RespondType DEF IdleDie
    <3>3. CASE IdleSleep(c) BY <3>1, <3>3, RespondType DEF IdleSleep
    <3>4. CASE IdleBuild(c)
      <4>1. PICK b \in First(Offered(c)) : Respond(c, Build(b)) BY <3>4 DEF IdleBuild
      <4>2. b \in Builds BY ProtocolAssumption DEF First, Offered, DriverTypeOK, AbiOf, Conns
      <4> QED BY <4>1, <4>2, Makes, RespondType
    <3> QED BY <3>2, <3>3, <3>4
  <2>2. /\ queues' \in [Abis -> SUBSET Builds]
        /\ excluded' \in [Abis -> [Keys -> {"no", "build", "delete", "lapsed"}]]
    <3>1. CASE IdleDie(c) BY <3>1 DEF IdleDie, DriverTypeOK
    <3>2. CASE IdleSleep(c) BY <3>2 DEF IdleSleep, DriverTypeOK
    <3>3. CASE IdleBuild(c)
      <4>1. PICK b \in First(Offered(c)) :
              /\ queues' = [queues EXCEPT ![AbiOf(c)] =
                              {o \in @ : Released[o] > Released[b]}]
              /\ excluded' = [excluded EXCEPT ![AbiOf(c)][b] = "build"]
        BY <3>3 DEF IdleBuild
      <4>2. AbiOf(c) \in Abis BY ProtocolAssumption DEF AbiOf, Conns
      <4> QED BY <4>1, <4>2 DEF DriverTypeOK
    <3> QED BY <3>1, <3>2, <3>3
  <2> QED BY <2>1, <2>2 DEF dbVars, DbTypeOK, DriverTypeOK
<1>5. CASE DoBusy(c)
  <2>1. Plain(IF c \in skipped THEN "DONE" ELSE "CONT") \in Replies BY Makes
  <2>2. /\ WireTypeOK'
        /\ reply' \in [Conns -> Replies \cup {Quiet}]
        /\ skipped' \subseteq skipped
    BY <1>5, <2>1, RespondType DEF DoBusy
  <2> QED BY <1>5, <2>2 DEF DoBusy, dbVars, DbTypeOK, DriverTypeOK
<1>6. CASE DoBuilt(c)
  <2> USE <1>6 DEF DoBuilt
  <2>1. CASE BuiltDie(c)
    <3>1. Plain("DIE") \in Replies BY Makes
    <3>2. /\ WireTypeOK'
          /\ reply' \in [Conns -> Replies \cup {Quiet}]
          /\ skipped' \subseteq skipped
      BY <2>1, <3>1, RespondType DEF BuiltDie
    <3> QED BY <2>1, <3>2 DEF BuiltDie, SetBuild, dbVars, DbTypeOK, DriverTypeOK
  <2>2. CASE BuiltSkipped(c)
    <3>1. Plain("DONE") \in Replies BY Makes
    <3>2. /\ WireTypeOK'
          /\ reply' \in [Conns -> Replies \cup {Quiet}]
          /\ skipped' \subseteq skipped
      BY <2>2, <3>1, RespondType DEF BuiltSkipped
    <3> QED BY <2>2, <3>2 DEF BuiltSkipped, SetBuild, dbVars, DbTypeOK, DriverTypeOK
  <2>3. CASE BuiltSend(c)
    <3>1. wire[c].files \in 1..MaxFiles /\ reply[c].build \in Builds
      BY <1>0, <2>3 DEF BuiltSend, Asks, Fields
    <3>2. AskFor(c, reply[c].build, wire[c].files) BY <2>3 DEF BuiltSend
    <3> QED BY <2>3, <3>1, <3>2, AskForType DEF BuiltSend, dbVars, DbTypeOK, DriverTypeOK
  <2>4. CASE BuiltLog(c)
    <3>1. reply[c].build \in Builds BY <1>0, <2>4 DEF BuiltLog, Fields
    <3>2. Log(c, reply[c].build, "bare", {"project"}) BY <2>4 DEF BuiltLog
    <3> QED BY <2>4, <3>1, <3>2, LogType DEF BuiltLog, DriverTypeOK
  <2> QED BY <2>1, <2>2, <2>3, <2>4
<1>7. CASE DoSent(c)
  <2> USE <1>7 DEF DoSent
  <2>1. CASE SentDie(c)
    <3>1. Plain("DIE") \in Replies BY Makes
    <3>2. /\ WireTypeOK'
          /\ reply' \in [Conns -> Replies \cup {Quiet}]
          /\ skipped' \subseteq skipped
      BY <2>1, <3>1, RespondType DEF SentDie
    <3> QED BY <2>1, <3>2 DEF SentDie, dbVars, DbTypeOK, DriverTypeOK
  <2>2. Verified(c) \/ SentCorrupt(c) =>
          /\ build[c] \in BuildStates
          /\ build[c].build \in Builds /\ build[c].todo \in 1..MaxFiles
    BY DEF Verified, SentCorrupt, Asks, SendsHaveBuild, DriverTypeOK, BuildStates
  <2>3. CASE SentCorrupt(c)
    <3>1. AskFor(c, build[c].build, build[c].todo) BY <2>3 DEF SentCorrupt
    <3> QED BY <2>2, <2>3, <3>1, AskForType DEF SentCorrupt, dbVars, DbTypeOK, DriverTypeOK
  <2>4. CASE SentNext(c)
    <3>1. build[c].todo - 1 \in 1..MaxFiles
      BY <2>2, <2>4, ProtocolAssumption DEF SentNext
    <3>2. AskFor(c, build[c].build, build[c].todo - 1) BY <2>4 DEF SentNext
    <3> QED BY <2>2, <2>4, <3>1, <3>2, AskForType DEF SentNext, dbVars, DbTypeOK, DriverTypeOK
  <2>5. CASE SentLast(c)
    <3>1. Log(c, build[c].build, "wheel", {"simple", "project"}) BY <2>5 DEF SentLast
    <3>2. build[c].build \in Builds BY <2>2, <2>5 DEF SentLast
    <3> QED BY <2>5, <3>1, <3>2, LogType DEF SentLast, DriverTypeOK
  <2> QED BY <2>1, <2>3, <2>4, <2>5
<1> QED BY <1>1, <1>2, <1>3, <1>4, <1>5, <1>6, <1>7

\* So do the slave's own handlers, and the ends of a build or a session: here
\* CONT relies on there being a build, and the transfer on a connection.
LEMMA SlaveType ==
  ASSUME WireTypeOK, SlaveTypeOK, NEW s \in Slaves,
         Gets(s, "CONT") => builder[s] # NoBuilder,
         s \in sending => conn[s] # NoConn,
         \/ Receive(s) \/ Transferred(s) \/ PowerLoss(s) \/ SigTerm(s) \/ MasterTimeout(s)
         \/ \E ok \in BOOLEAN, n \in 0..MaxFiles : BuildEnds(s, ok, n)
         \/ \E c \in Conns : Connect(s, c)
  PROVE  WireTypeOK' /\ SlaveTypeOK'
<1>1. /\ conn[s] # NoConn => conn[s] \in Conns /\ wire[conn[s]] \in Requests \cup Replies \cup {Quiet}
      /\ conn[s] # NoConn => Fields(wire[conn[s]])
      /\ builder[s] # NoBuilder => builder[s] \in BuilderStates
  BY Kinds DEF WireTypeOK, SlaveTypeOK
<1>2. ASSUME NEW m \in Requests \cup {Quiet}, conn[s] # NoConn, Put(conn[s], m),
             UNCHANGED conn \/ conn' = [conn EXCEPT ![s] = NoConn]
      PROVE  WireTypeOK'
  BY <1>1, <1>2 DEF Put, WireTypeOK
<1>3. ASSUME Reset(s) PROVE SlaveTypeOK'
  BY <1>3 DEF Reset, SetBuilder, SlaveTypeOK
<1>4. ASSUME conn[s] # NoConn, Close(s) PROVE WireTypeOK'
  BY <1>1, <1>4 DEF Close, Put, WireTypeOK
<1>5. Quiet \in Requests \cup {Quiet} OBVIOUS
<1>6. CASE DoAck(s)
  <2>1. Plain("IDLE") \in Requests BY Makes
  <2>2. WireTypeOK' BY <1>2, <1>6, <2>1 DEF DoAck, Gets, Ask
  <2> QED BY <1>6, <2>2 DEF DoAck, SlaveTypeOK
<1>7. CASE DoSleep(s)
  <2>1. Plain("IDLE") \in Requests BY Makes
  <2>2. WireTypeOK' BY <1>2, <1>7, <2>1 DEF DoSleep, Gets, Ask
  <2> QED BY <1>7, <2>2 DEF DoSleep, SlaveTypeOK
<1>8. CASE DoBuild(s)
  <2>1. Plain("BUSY") \in Requests BY Makes
  <2>2. WireTypeOK' BY <1>2, <1>8, <2>1 DEF DoBuild, Gets, Ask
  <2>3. wire[conn[s]].build \in Builds BY <1>1, <1>8 DEF DoBuild, Gets, Fields
  <2>4. [build |-> wire[conn[s]].build, state |-> "running", files |-> 0] \in BuilderStates
    BY <2>3, ProtocolAssumption DEF BuilderStates
  <2> QED BY <1>8, <2>2, <2>4 DEF DoBuild, SetBuilder, SlaveTypeOK
<1>9. CASE DoCont(s)
  <2>1. SlaveTypeOK' BY <1>9 DEF DoCont, SlaveTypeOK
  <2>2. Built(builder[s].state = "ok", builder[s].files) \in Requests
    BY <1>1, <1>9, Makes DEF BuilderStates, DoCont
  <2> QED BY <1>2, <1>9, <2>1, <2>2, Makes DEF DoCont, Gets, Ask
<1>10. CASE DoSend(s)
  <2>1. WireTypeOK' BY <1>2, <1>5, <1>10 DEF DoSend, Gets
  <2> QED BY <1>10, <2>1 DEF DoSend, SlaveTypeOK
<1>11. CASE DoDone(s)
  <2>1. Plain("IDLE") \in Requests BY Makes
  <2>2. WireTypeOK' BY <1>2, <1>11, <2>1 DEF DoDone, Gets, Ask
  <2> QED BY <1>11, <2>2 DEF DoDone, SetBuilder, SlaveTypeOK
<1>12. CASE DoDie(s) \/ SigTerm(s)
  <2>1. Plain("BYE") \in Requests BY Makes
  <2> QED BY <1>2, <1>3, <1>12, <2>1 DEF DoDie, SigTerm, Exit, Gets
<1>13. CASE PowerLoss(s) \/ MasterTimeout(s)
  BY <1>3, <1>4, <1>13 DEF PowerLoss, MasterTimeout
<1>14. CASE Transferred(s)
  <2>1. Plain("SENT") \in Requests BY Makes
  <2> QED BY <1>2, <1>14, <2>1 DEF Transferred, Ask, SlaveTypeOK
<1>15. ASSUME NEW ok \in BOOLEAN, NEW n \in 0..MaxFiles, BuildEnds(s, ok, n)
       PROVE  WireTypeOK' /\ SlaveTypeOK'
  <2>1. [builder[s] EXCEPT !.state = IF ok THEN "ok" ELSE "failed", !.files = n] \in BuilderStates
    BY <1>1, <1>15 DEF BuildEnds, BuilderStates
  <2> QED BY <1>15, <2>1 DEF BuildEnds, SetBuilder, SlaveTypeOK, WireTypeOK
<1>16. ASSUME NEW c \in Conns, Connect(s, c) PROVE WireTypeOK' /\ SlaveTypeOK'
  <2>1. Plain("HELLO") \in Requests BY Makes
  <2> QED BY <1>16, <2>1 DEF Connect, Put, WireTypeOK, SlaveTypeOK
<1> QED BY <1>6, <1>7, <1>8, <1>9, <1>10, <1>11, <1>12, <1>13, <1>14, <1>15, <1>16
  DEF Receive

-----------------------------------------------------------------------------
\* Everything else that happens.

Inv == TypeOK /\ SessionsAgree

LEMMA TypeStep == Inv /\ [Next]_vars => TypeOK'
<1> SUFFICES ASSUME Inv, [Next]_vars PROVE TypeOK' OBVIOUS
<1> USE DEF Inv, TypeOK
<1>0. SendsHaveBuild BY DEF SessionsAgree, SendsHaveBuild
<1>1. ASSUME UNCHANGED vars PROVE TypeOK'
  BY <1>1 DEF vars, dbVars, driverVars, slaveVars, DbTypeOK, WireTypeOK, DriverTypeOK, SlaveTypeOK
<1>2. ASSUME NEW c \in Conns, DriverStep(c) PROVE TypeOK'
  <2>1. DbTypeOK' /\ WireTypeOK' /\ DriverTypeOK'
    BY <1>0, <1>2, HandleSlaveType DEF DriverStep, slaveVars
  <2> QED BY <1>2, <2>1 DEF DriverStep, slaveVars, SlaveTypeOK
<1>3. ASSUME NEW c \in Conns, Expire(c) PROVE TypeOK'
  <2>1. faults' \in 0..MaxFaults BY <1>3, FarmAssumption DEF Expire, Fault
  <2> QED BY <1>3, <2>1 DEF Expire, RemoveExpired, Forget, slaveVars, dbVars, DbTypeOK,
                         WireTypeOK, DriverTypeOK, SlaveTypeOK
<1>4. ASSUME NEW c \in Conns, LoseMessage(c) PROVE TypeOK'
  <2>1. WireTypeOK' BY <1>4, WireType DEF LoseMessage, slaveVars
  <2>2. faults' \in 0..MaxFaults BY <1>4, FarmAssumption DEF LoseMessage, Fault
  <2> QED BY <1>4, <2>1, <2>2 DEF LoseMessage, driverVars, slaveVars, dbVars, DbTypeOK,
                         DriverTypeOK, SlaveTypeOK
<1>5. ASSUME NEW s \in Slaves
      PROVE  /\ Gets(s, "CONT") => builder[s] # NoBuilder
             /\ s \in sending => conn[s] # NoConn
  BY Kinds DEF SessionsAgree, SessionAgrees, SlaveFits, ReplyFits, Gets, WireTypeOK
<1>6. ASSUME NEW s \in Slaves, SlaveStep(s) PROVE TypeOK'
  <2>1. WireTypeOK' /\ SlaveTypeOK' BY <1>5, <1>6, SlaveType DEF SlaveStep
  <2> QED BY <1>6, <2>1 DEF SlaveStep, dbVars, DbTypeOK, DriverTypeOK
<1>7. ASSUME NEW s \in Slaves, BuilderStep(s) PROVE TypeOK'
  <2>1. WireTypeOK' /\ SlaveTypeOK' BY <1>5, <1>7, SlaveType DEF BuilderStep
  <2> QED BY <1>7, <2>1 DEF BuilderStep, driverVars, dbVars, DbTypeOK, DriverTypeOK
<1>8. ASSUME NEW s \in Slaves, TransferStep(s) PROVE TypeOK'
  <2>1. WireTypeOK' /\ SlaveTypeOK'
    <3>1. CASE Transferred(s) BY <1>5, <3>1, SlaveType
    <3>2. CASE UNCHANGED <<slaveVars, wire>>
      BY <3>2 DEF slaveVars, WireTypeOK, SlaveTypeOK
    <3> QED BY <1>8, <3>1, <3>2 DEF TransferStep
  <2>2. faults' \in 0..MaxFaults BY <1>8, FarmAssumption DEF TransferStep, Fault
  <2> QED BY <1>8, <2>1, <2>2 DEF TransferStep, dbVars, DbTypeOK, DriverTypeOK
<1>9. ASSUME NEW s \in Slaves, GiveUp(s) PROVE TypeOK'
  <2>1. WireTypeOK' /\ SlaveTypeOK' BY <1>5, <1>9, SlaveType DEF GiveUp
  <2>2. faults' \in 0..MaxFaults BY <1>9, FarmAssumption DEF GiveUp, Fault
  <2> QED BY <1>9, <2>1, <2>2 DEF GiveUp, driverVars, dbVars, DbTypeOK, DriverTypeOK
<1>10. ASSUME NEW s \in Slaves, SlaveExit(s) PROVE TypeOK'
  <2>1. WireTypeOK' /\ SlaveTypeOK' BY <1>5, <1>10, SlaveType DEF SlaveExit
  <2>2. faults' \in 0..MaxFaults BY <1>10, FarmAssumption DEF SlaveExit, Fault
  <2> QED BY <1>10, <2>1, <2>2 DEF SlaveExit, driverVars, dbVars, DbTypeOK, DriverTypeOK
<1>11. ASSUME AnnounceStep PROVE TypeOK'
  <2>1. job.conn \in Conns /\ Plain("DONE") \in Replies
    BY <1>11, Makes DEF AnnounceStep, Announce, DriverTypeOK
  <2>2. /\ WireTypeOK'
        /\ reply' \in [Conns -> Replies \cup {Quiet}]
        /\ skipped' \subseteq skipped
    BY <1>11, <2>1, RespondType DEF AnnounceStep, Announce, slaveVars
  <2>3. DriverTypeOK'
    BY <1>11, <2>1, <2>2 DEF AnnounceStep, Announce, SetBuild, DriverTypeOK
  <2> QED BY <1>11, <2>2, <2>3 DEF AnnounceStep, Announce, slaveVars, dbVars, DbTypeOK, SlaveTypeOK
<1>12. ASSUME Schedule PROVE TypeOK'
  <2>1. BuildsPending \in [Abis -> SUBSET Builds] BY DEF BuildsPending
  <2> QED BY <1>12, <2>1 DEF Schedule, slaveVars, dbVars, DbTypeOK, WireTypeOK, DriverTypeOK, SlaveTypeOK
<1>13. ASSUME ScheduledBuild PROVE TypeOK'
  <2>1. DriverTypeOK'
    <3>1. inbox \in [Abis -> SUBSET Builds]
      BY <1>13 DEF ScheduledBuild, HandleBuild, DriverTypeOK
    <3>2. queues' \in [Abis -> SUBSET Builds]
      BY <1>13, <3>1 DEF ScheduledBuild, HandleBuild
    <3>3. excluded' \in [Abis -> [Keys -> {"no", "build", "delete", "lapsed"}]]
      BY <1>13 DEF ScheduledBuild, HandleBuild, DriverTypeOK
    <3> QED BY <1>13, <3>2, <3>3 DEF ScheduledBuild, HandleBuild, DriverTypeOK
  <2> QED BY <1>13, <2>1 DEF ScheduledBuild, HandleBuild, slaveVars, dbVars, DbTypeOK,
                             WireTypeOK, SlaveTypeOK
<1>14. ASSUME NEW a \in Abis, NEW k \in Keys, Lapse(a, k) PROVE TypeOK'
  <2>1. DriverTypeOK' BY <1>14 DEF Lapse, DriverTypeOK
  <2> QED BY <1>14, <2>1 DEF Lapse, slaveVars, dbVars, DbTypeOK, WireTypeOK, SlaveTypeOK
<1>15. ASSUME NEW k \in Removals, StartRemoval(k) PROVE TypeOK'
  <2>1. k \in Keys BY FarmAssumption
  <2>2. DbTypeOK' BY <1>15 DEF StartRemoval, SkipVersions, DbTypeOK
  <2> QED BY <1>15, <2>1, <2>2 DEF StartRemoval, driverVars, slaveVars, WireTypeOK,
                                   DriverTypeOK, SlaveTypeOK
<1>16. ASSUME DropRemoved PROVE TypeOK'
  <2>1. removal.key \in Keys BY <1>16 DEF DropRemoved
  <2>2. DriverTypeOK'
    <3>1. excluded' \in [Abis -> [Keys -> {"no", "build", "delete", "lapsed"}]]
      BY <1>16, <2>1 DEF DropRemoved, HandleDelete, DriverTypeOK
    <3>2. queues' \in [Abis -> SUBSET Builds]
      BY <1>16 DEF DropRemoved, HandleDelete, DriverTypeOK
    <3>3. skipped' \subseteq known
      BY <1>16 DEF DropRemoved, HandleDelete, Building, DriverTypeOK
    <3> QED BY <1>16, <3>1, <3>2, <3>3 DEF DropRemoved, HandleDelete, DriverTypeOK
  <2>3. removal' \in [key : Keys, acked : BOOLEAN] BY <1>16 DEF DropRemoved
  <2> QED BY <1>16, <2>2, <2>3 DEF DropRemoved, HandleDelete, slaveVars, dbVars, DbTypeOK,
                                   WireTypeOK, SlaveTypeOK
<1>17. ASSUME FinishRemoval PROVE TypeOK'
  <2>1. DbTypeOK' BY <1>17 DEF FinishRemoval, DeleteVersions, DbTypeOK
  <2> QED BY <1>17, <2>1 DEF FinishRemoval, driverVars, slaveVars, WireTypeOK, DriverTypeOK, SlaveTypeOK
<1>18. ASSUME NEW b \in Builds, AddRemoved(b) PROVE TypeOK'
  <2>1. DbTypeOK' BY <1>18 DEF AddRemoved, AddVersion, DbTypeOK
  <2> QED BY <1>18, <2>1 DEF AddRemoved, driverVars, slaveVars, WireTypeOK, DriverTypeOK, SlaveTypeOK
<1>19. ASSUME Operator PROVE TypeOK'
  <2>1. PICK op \in Controls : HandleControl(op) BY <1>19 DEF Operator
  <2>2. DriverTypeOK' BY <2>1 DEF HandleControl, Kill, Skip, Sleep, Wake, DriverTypeOK
  <2> QED BY <1>19, <2>1, <2>2 DEF Operator, HandleControl, slaveVars, dbVars, DbTypeOK,
                                   WireTypeOK, SlaveTypeOK
<1>20. ASSUME Crash PROVE TypeOK'
  <2>1. faults' \in 0..MaxFaults BY <1>20, FarmAssumption DEF Crash, Fault
  <2> QED BY <1>20, <2>1 DEF Crash, slaveVars, dbVars, DbTypeOK, WireTypeOK, DriverTypeOK, SlaveTypeOK
<1>21. ASSUME Restart PROVE TypeOK'
  <2>1. DriverTypeOK' BY <1>21 DEF Restart, NoBuilds, NoExclusions, DriverTypeOK
  <2> QED BY <1>21, <2>1 DEF Restart, slaveVars, dbVars, DbTypeOK, WireTypeOK, SlaveTypeOK
<1> QED BY <1>1, <1>2, <1>3, <1>4, <1>6, <1>7, <1>8, <1>9, <1>10, <1>11, <1>12, <1>13,
           <1>14, <1>15, <1>16, <1>17, <1>18, <1>19, <1>20, <1>21 DEF Next, FarmStep, RemovalStep

-----------------------------------------------------------------------------
\* The two ends of every session agree.

\* A session stays as it is when only other sessions are concerned.
LEMMA Others ==
  ASSUME NEW s \in Slaves, SessionAgrees(s), UNCHANGED slaveVars,
         conn[s] # NoConn =>
           /\ wire'[conn[s]] = wire[conn[s]]
           /\ reply'[conn[s]] = reply[conn[s]] /\ build'[conn[s]] = build[conn[s]]
           /\ conn[s] \in known' => conn[s] \in known
           /\ job' # NoJob /\ job'.conn = conn[s] => job' = job
  PROVE  SessionAgrees(s)'
BY DEF SessionAgrees, SlaveFits, DriverFits, JobFits, ReplyFits, IdleAccepted, slaveVars

\* The driver answers a slave with something that fits what the slave is doing.
LEMMA Answered ==
  ASSUME Inv, NEW c \in Conns, NEW m \in Replies, Respond(c, m), UNCHANGED slaveVars,
         known' \subseteq known \cup {c},
         \A o \in Conns \ {c} : build'[o] = build[o],
         job' # NoJob => job' = job /\ job'.conn # c,
         NEW s \in Slaves,
         conn[s] = c =>
           /\ s \notin sending
           /\ m.msg # "DIE" => ReplyFits(s, m)
           /\ m.msg = "CONT" => reply[c].msg = "BUILD"
           /\ m.msg = "SEND" => build'[c].todo <= builder[s].files
  PROVE  SessionAgrees(s)'
<1>0. /\ m.msg \in {"ACK", "SLEEP", "CONT", "DONE", "DIE", "BUILD", "SEND"}
      /\ m = Plain("CONT") <=> m.msg = "CONT"
      /\ m \notin Requests
      /\ m # Quiet
  BY Kinds DEF Replies, Plain, Build, Send
<1>1. CASE conn[s] = c
  <2>1. wire'[c] = m BY <1>1, FarmAssumption DEF Respond, Reply, Put, Inv, TypeOK, WireTypeOK
  <2>2. reply'[c] = IF m.msg = "CONT" THEN reply[c] ELSE m
    BY <1>0 DEF Respond, Inv, TypeOK, DriverTypeOK
  <2>3. c # NoConn BY FarmAssumption
  <2>4. SlaveFits(s, m)'
    BY <1>0, <1>1 DEF SlaveFits, ReplyFits, slaveVars
  <2>5. DriverFits(s, c, m)'
    BY <1>0, <1>1, <2>2 DEF DriverFits, ReplyFits, IdleAccepted, slaveVars
  <2> QED BY <1>1, <2>1, <2>3, <2>4, <2>5 DEF SessionAgrees, slaveVars
<1>2. CASE conn[s] # c
  <2>1. SessionAgrees(s) BY DEF Inv, SessionsAgree
  <2>2. conn[s] # NoConn => conn[s] \in Conns BY DEF Inv, TypeOK, WireTypeOK
  <2> QED BY <1>2, <2>1, <2>2, Others
      DEF Respond, Reply, Put, Inv, TypeOK, WireTypeOK, DriverTypeOK
<1> QED BY <1>1, <1>2

\* A driver that goes on to log the result first says nothing.
LEMMA Logging ==
  ASSUME Inv, NEW c \in known, Ready, wire[c].msg \in {"BUILT", "SENT"},
         NEW b, NEW outcome, NEW pages, Log(c, b, outcome, pages),
         UNCHANGED slaveVars, UNCHANGED known, UNCHANGED build,
         NEW s \in Slaves
  PROVE  SessionAgrees(s)'
<1> USE DEF Inv, TypeOK
<1>1. UNCHANGED <<wire, reply>> BY DEF Log
<1>2. SessionAgrees(s) BY DEF SessionsAgree
<1>3. CASE conn[s] = c
  <2>1. c # NoConn /\ c \in Conns BY FarmAssumption DEF DriverTypeOK
  <2>2. SlaveFits(s, wire[c]) /\ DriverFits(s, c, wire[c])
    BY <1>2, <1>3, <2>1 DEF SessionAgrees
  <2>3. wire[c] \in Requests /\ wire[c] # Quiet BY <2>1, Kinds DEF WireTypeOK
  <2>4. JobFits(s, wire[c])' BY <1>1, <1>3, <2>2, <2>3 DEF SlaveFits, JobFits, slaveVars
  <2>5. SlaveFits(s, wire[c])' /\ DriverFits(s, c, wire[c])'
    BY <1>1, <2>2 DEF SlaveFits, DriverFits, ReplyFits, IdleAccepted, slaveVars
  <2> QED BY <1>1, <1>3, <2>1, <2>4, <2>5 DEF SessionAgrees, slaveVars
<1>4. CASE conn[s] # c
  <2>1. CASE CanLog(b)
    <3>1. job' = [conn |-> c, pkg |-> b[1],
                  cmd |-> IF "simple" \in pages THEN "BOTH" ELSE "PROJECT"]
      BY <2>1 DEF Log
    <3> QED BY <1>1, <1>2, <1>4, <3>1, Others
  <2>2. CASE ~CanLog(b)
    <3>1. job' = NoJob BY <2>2 DEF Log, Ready
    <3> QED BY <1>1, <1>2, <1>4, <3>1, Others
  <2> QED BY <2>1, <2>2
<1> QED BY <1>3, <1>4

\* A SEND asks for a wheel that the build has.
LEMMA Asking ==
  ASSUME Inv, NEW c \in known, Ready, UNCHANGED slaveVars, UNCHANGED <<known, job>>,
         NEW b \in Builds, NEW n \in 1..MaxFiles, AskFor(c, b, n),
         \A s \in Slaves : conn[s] = c =>
           /\ s \in acked \ sending /\ builder[s] # NoBuilder
           /\ builder[s].state = "ok" /\ n <= builder[s].files
  PROVE  SessionsAgree'
<1> USE DEF Inv, TypeOK
<1>1. c \in Conns BY DEF DriverTypeOK
<1>2. Send(n) \in Replies /\ Send(n).msg = "SEND" /\ Send(n).file = n
  BY Makes DEF Send
<1>3. /\ build'[c] = [build |-> b, todo |-> n]
      /\ \A d \in Conns \ {c} : build'[d] = build[d]
  BY <1>1 DEF AskFor, SetBuild, DriverTypeOK
<1>4. build'[c] # NoBuild BY <1>3, FarmAssumption DEF BuildStates
<1>5. ASSUME NEW s \in Slaves PROVE SessionAgrees(s)'
  <2>1. conn[s] = c => /\ s \notin sending /\ ReplyFits(s, Send(n))
                       /\ build'[c].todo <= builder[s].files
    BY <1>2, <1>3 DEF ReplyFits
  <2> QED BY <1>1, <1>2, <1>3, <2>1, Answered DEF AskFor, Ready
<1>6. \A d \in Conns \ {c} : reply'[d] = reply[d]
  BY <1>1 DEF AskFor, Respond, DriverTypeOK
<1> QED BY <1>3, <1>4, <1>5, <1>6 DEF Ready, SessionsAgree, DriverTypeOK

LEMMA HandleSlaveAgrees ==
  ASSUME Inv, NEW c \in Conns, HandleSlave(c), UNCHANGED slaveVars
  PROVE  SessionsAgree'
<1> USE DEF Inv, TypeOK
<1>0. /\ wire[c] \in Requests \cup Replies \cup {Quiet}
      /\ reply[c] \in Replies \cup {Quiet}
      /\ Fields(wire[c]) /\ Fields(reply[c])
      /\ wire[c] \in Requests <=> wire[c].msg \in {"HELLO", "IDLE", "BUSY", "BUILT", "SENT", "BYE"}
      /\ wire[c] = Quiet <=> wire[c].msg = "none"
  BY Kinds DEF WireTypeOK, DriverTypeOK
\* What is known of the slave if it still has the connection open.
<1>1. ASSUME NEW s \in Slaves, conn[s] = c
      PROVE  /\ SlaveFits(s, wire[c])
             /\ c \in known => DriverFits(s, c, wire[c])
  <2>1. SessionAgrees(s) BY DEF SessionsAgree
  <2> QED BY <1>1, <2>1, FarmAssumption DEF SessionAgrees
<1>2. \A d \in known : reply[d].msg = "SEND" => build[d] # NoBuild
  BY DEF SessionsAgree
<1>3. CASE IgnoreUnknown(c)
  <2>1. ASSUME NEW s \in Slaves PROVE SessionAgrees(s)'
    <3>1. CASE conn[s] = c
      <4>1. wire'[c] = Quiet BY <1>3 DEF IgnoreUnknown, Put, WireTypeOK
      <4>2. SlaveFits(s, Quiet)'
        BY <1>0, <1>1, <1>3, <3>1, Kinds DEF IgnoreUnknown, SlaveFits, slaveVars
      <4> QED BY <1>3, <3>1, <4>1, <4>2, FarmAssumption
          DEF IgnoreUnknown, SessionAgrees, Ready, driverVars, slaveVars
    <3>2. CASE conn[s] # c
      BY <1>3, <3>2, Others DEF IgnoreUnknown, Put, SessionsAgree, WireTypeOK, driverVars
    <3> QED BY <3>1, <3>2
  <2> QED BY <1>3, <2>1 DEF IgnoreUnknown, SessionsAgree, driverVars
<1>4. CASE DoHello(c)
  <2> DEFINE m == Plain("ACK")
  <2>1. m \in Replies /\ m.msg = "ACK" BY Makes DEF Plain
  <2>2. ASSUME NEW s \in Slaves PROVE SessionAgrees(s)'
    <3>1. conn[s] = c => s \notin sending /\ ReplyFits(s, m)
      BY <1>0, <1>1, <1>4, <2>1 DEF DoHello, SlaveFits, ReplyFits
    <3> QED BY <1>4, <2>1, <3>1, Answered DEF DoHello, Ready
  <2>3. reply'[c].msg = "ACK" BY <1>4, <2>1 DEF DoHello, Respond, DriverTypeOK, Plain
  <2> QED BY <1>2, <1>4, <2>2, <2>3 DEF DoHello, Respond, Ready, SessionsAgree, DriverTypeOK
<1>5. CASE DoBye(c)
  <2>1. \A s \in Slaves : conn[s] # c BY <1>1, <1>5 DEF DoBye, Asks, SlaveFits
  <2>2. ASSUME NEW s \in Slaves PROVE SessionAgrees(s)'
    BY <1>5, <2>1, Others
    DEF DoBye, Forget, Put, SessionsAgree, WireTypeOK, DriverTypeOK
  <2> QED BY <1>5, <2>2 DEF DoBye, Asks, Forget, Ready, SessionsAgree, DriverTypeOK
<1>6. CASE DoIdle(c)
  <2> USE DEF DoIdle, IdleDie, IdleSleep, IdleBuild, Asks, Ready
  <2>1. PICK m \in Replies : m.msg \in {"DIE", "SLEEP", "BUILD"} /\ Respond(c, m)
    <3>1. CASE IdleDie(c) BY <3>1, Makes DEF Plain
    <3>2. CASE IdleSleep(c) BY <3>2, Makes DEF Plain
    <3>3. CASE IdleBuild(c)
      <4>1. PICK b \in First(Offered(c)) : Respond(c, Build(b)) BY <3>3
      <4>2. b \in Builds BY ProtocolAssumption DEF First, Offered, DriverTypeOK, AbiOf, Conns
      <4> QED BY <4>1, <4>2, Makes DEF Build
    <3> QED BY <1>6, <3>1, <3>2, <3>3
  <2>2. ASSUME NEW s \in Slaves PROVE SessionAgrees(s)'
    <3>1. conn[s] = c => s \notin sending /\ ReplyFits(s, m)
      BY <1>0, <1>1, <1>6, <2>1 DEF SlaveFits, ReplyFits
    <3> QED BY <1>6, <2>1, <3>1, Answered
  <2>3. reply'[c].msg # "SEND" /\ \A d \in Conns \ {c} : reply'[d] = reply[d]
    BY <2>1 DEF Respond, DriverTypeOK, Plain
  <2> QED BY <1>2, <1>6, <2>2, <2>3 DEF SessionsAgree, DriverTypeOK
<1>7. CASE DoBusy(c)
  <2> DEFINE m == Plain(IF c \in skipped THEN "DONE" ELSE "CONT")
  <2> USE DEF DoBusy, Asks, Ready
  <2>1. m \in Replies /\ m.msg \in {"DONE", "CONT"} BY Makes DEF Plain
  <2>2. ASSUME NEW s \in Slaves PROVE SessionAgrees(s)'
    <3>1. conn[s] = c =>
            s \notin sending /\ ReplyFits(s, m) /\ reply[c].msg = "BUILD"
      BY <1>0, <1>1, <1>7, <2>1 DEF SlaveFits, DriverFits, ReplyFits
    <3>2. Respond(c, m) BY <1>7
    <3> QED BY <1>7, <2>1, <3>1, <3>2, Answered
  <2>3. reply'[c].msg = "SEND" => reply'[c] = reply[c]
    BY <1>7 DEF Respond, DriverTypeOK, Plain
  <2>4. \A d \in Conns \ {c} : reply'[d] = reply[d] BY <1>7 DEF Respond, DriverTypeOK
  <2> QED BY <1>2, <1>7, <2>2, <2>3, <2>4 DEF SessionsAgree, DriverTypeOK
<1>8. CASE DoBuilt(c)
  <2> USE DEF DoBuilt, BuiltDie, BuiltSkipped, BuiltSend, BuiltLog, Asks, Ready
  <2>1. CASE BuiltDie(c) \/ BuiltSkipped(c)
    <3>1. PICK m \in Replies : m.msg \in {"DIE", "DONE"} /\ Respond(c, m)
      BY <2>1, Makes DEF Plain
    <3>2. ASSUME NEW s \in Slaves PROVE SessionAgrees(s)'
      <4>1. conn[s] = c => s \notin sending /\ (m.msg # "DIE" => ReplyFits(s, m))
        BY <1>0, <1>1, <2>1, <3>1 DEF SlaveFits, ReplyFits
      <4>2. \A o \in Conns \ {c} : build'[o] = build[o]
        BY <2>1 DEF SetBuild, DriverTypeOK
      <4> QED BY <1>8, <2>1, <3>1, <4>1, <4>2, Answered
    <3>3. reply'[c].msg # "SEND" /\ \A d \in Conns \ {c} : reply'[d] = reply[d]
      BY <3>1 DEF Respond, DriverTypeOK, Plain
    <3> QED BY <1>2, <1>8, <2>1, <3>2, <3>3 DEF SessionsAgree, SetBuild, DriverTypeOK
  <2>2. CASE BuiltSend(c)
    <3>1. wire[c].files \in 1..MaxFiles /\ reply[c].build \in Builds
      BY <1>0, <2>2 DEF Fields
    <3>2. \A s \in Slaves : conn[s] = c =>
            /\ s \in acked \ sending /\ builder[s] # NoBuilder
            /\ builder[s].state = "ok" /\ wire[c].files <= builder[s].files
      BY <1>0, <1>1, <2>2, <3>1 DEF SlaveFits
    <3> QED BY <1>8, <2>2, <3>1, <3>2, Asking
  <2>3. CASE BuiltLog(c)
    <3>1. Log(c, reply[c].build, "bare", {"project"}) BY <2>3
    <3>2. \A s \in Slaves : SessionAgrees(s)' BY <1>8, <2>3, <3>1, Logging
    <3>3. UNCHANGED reply /\ (job' = job \/ job'.conn = c) BY <3>1 DEF Log
    <3> QED BY <1>2, <1>8, <2>3, <3>2, <3>3 DEF SessionsAgree
  <2> QED BY <1>8, <2>1, <2>2, <2>3
<1>9. CASE DoSent(c)
  <2> USE DEF DoSent, SentDie, SentCorrupt, Verified, SentNext, SentLast, Asks, Ready
  <2>1. CASE SentDie(c)
    <3>1. Plain("DIE") \in Replies /\ Plain("DIE").msg = "DIE" BY Makes DEF Plain
    <3>2. ASSUME NEW s \in Slaves PROVE SessionAgrees(s)'
      <4>1. conn[s] = c => s \notin sending BY <1>0, <1>1, <2>1 DEF SlaveFits
      <4> QED BY <1>9, <2>1, <3>1, <4>1, Answered
    <3>3. reply'[c].msg # "SEND" /\ \A d \in Conns \ {c} : reply'[d] = reply[d]
      BY <2>1, <3>1 DEF Respond, DriverTypeOK, Plain
    <3> QED BY <1>2, <1>9, <2>1, <3>2, <3>3 DEF SessionsAgree, DriverTypeOK
  <2>2. SentCorrupt(c) \/ SentNext(c) =>
          /\ build[c].build \in Builds /\ build[c].todo \in 1..MaxFiles
          /\ \A s \in Slaves : conn[s] = c =>
               /\ s \in acked \ sending /\ builder[s] # NoBuilder
               /\ builder[s].state = "ok" /\ build[c].todo <= builder[s].files
               /\ builder[s].files \in Nat
    BY <1>0, <1>1, <1>2, ProtocolAssumption
    DEF SlaveFits, DriverFits, DriverTypeOK, BuildStates, SlaveTypeOK, BuilderStates
  <2>3. CASE SentCorrupt(c) BY <1>9, <2>2, <2>3, Asking
  <2>4. CASE SentNext(c)
    <3>1. build[c].todo - 1 \in 1..MaxFiles BY <2>2, <2>4, ProtocolAssumption
    <3>2. \A s \in Slaves : conn[s] = c => build[c].todo - 1 <= builder[s].files
      BY <2>2, <2>4
    <3>3. AskFor(c, build[c].build, build[c].todo - 1) BY <2>4
    <3> QED BY <1>9, <2>2, <2>4, <3>1, <3>2, <3>3, Asking
  <2>5. CASE SentLast(c)
    <3>1. Log(c, build[c].build, "wheel", {"simple", "project"}) BY <2>5
    <3>2. \A s \in Slaves : SessionAgrees(s)' BY <1>9, <2>5, <3>1, Logging
    <3>3. UNCHANGED reply /\ (job' = job \/ job'.conn = c) BY <3>1 DEF Log
    <3> QED BY <1>2, <1>9, <2>5, <3>2, <3>3 DEF SessionsAgree
  <2> QED BY <1>9, <2>1, <2>3, <2>4, <2>5
<1> QED BY <1>3, <1>4, <1>5, <1>6, <1>7, <1>8, <1>9 DEF HandleSlave

\* What a slave does leaves the sessions of the others alone.
LEMMA OtherSlaves ==
  ASSUME Inv, NEW s \in Slaves, UNCHANGED <<known, reply, build, job>>,
         \A d \in Conns : d[1] # s => wire'[d] = wire[d],
         \A t \in Slaves \ {s} :
           /\ conn'[t] = conn[t] /\ builder'[t] = builder[t]
           /\ t \in acked' <=> t \in acked
           /\ t \in sending' <=> t \in sending,
         SessionAgrees(s)'
  PROVE  SessionsAgree'
<1> USE DEF Inv, TypeOK
<1>1. ASSUME NEW t \in Slaves, t # s PROVE SessionAgrees(t)'
  <2>1. SessionAgrees(t) BY DEF SessionsAgree
  <2>2. conn[t] # NoConn => conn[t] \in Conns /\ conn[t][1] = t BY DEF WireTypeOK
  <2>3. conn[t] # NoConn => wire'[conn[t]] = wire[conn[t]] BY <1>1, <2>2
  <2> QED BY <1>1, <2>1, <2>3
      DEF SessionAgrees, SlaveFits, DriverFits, JobFits, ReplyFits, IdleAccepted
<1> QED BY <1>1 DEF SessionsAgree

LEMMA SlaveAgrees ==
  ASSUME Inv, NEW s \in Slaves, UNCHANGED <<known, reply, build, job>>,
         \/ Receive(s) \/ Transferred(s) \/ PowerLoss(s) \/ SigTerm(s) \/ MasterTimeout(s)
         \/ \E ok \in BOOLEAN, n \in 0..MaxFiles : BuildEnds(s, ok, n)
         \/ \E c \in Conns : c \notin known /\ Connect(s, c)
  PROVE  SessionsAgree'
<1> USE DEF Inv, TypeOK
<1>c. PICK c : c = conn[s] OBVIOUS
<1> USE <1>c
<1>0. SessionAgrees(s) BY DEF SessionsAgree
<1>1. c # NoConn =>
      /\ c \in Conns /\ c[1] = s
      /\ wire[c] \in Requests \cup Replies \cup {Quiet}
      /\ Fields(wire[c])
      /\ wire[c] \in Requests <=> wire[c].msg \in {"HELLO", "IDLE", "BUSY", "BUILT", "SENT", "BYE"}
      /\ wire[c] \in Replies <=> wire[c].msg \in {"ACK", "SLEEP", "CONT", "DONE", "DIE", "BUILD", "SEND"}
      /\ wire[c] = Quiet <=> wire[c].msg = "none"
  BY Kinds DEF WireTypeOK
<1>2. c # NoConn =>
      /\ SlaveFits(s, wire[c])
      /\ c \in known => DriverFits(s, c, wire[c])
      /\ job # NoJob /\ job.conn = c => JobFits(s, wire[c])
  BY <1>0 DEF SessionAgrees
\* A slave that answers a reply: the driver remembers that reply, if anything.
<1>3. ASSUME c # NoConn, wire[c] \in Replies
      PROVE  /\ ~(job # NoJob /\ job.conn = c)
             /\ c \in known => /\ wire[c].msg # "CONT" => reply[c] = wire[c]
                               /\ wire[c].msg = "CONT" => reply[c].msg = "BUILD"
             /\ s \notin sending
             /\ wire[c].msg # "DIE" => ReplyFits(s, wire[c])
  BY <1>1, <1>2, <1>3 DEF SlaveFits, DriverFits, JobFits
\* A session that ends, or a process.
<1>4. ASSUME Reset(s), conn' = [conn EXCEPT ![s] = NoConn],
             \A d \in Conns : d # c => wire'[d] = wire[d], c # NoConn
      PROVE  SessionsAgree'
  <2>1. SessionAgrees(s)'
    BY <1>4 DEF Reset, SetBuilder, SessionAgrees, WireTypeOK, SlaveTypeOK
  <2> QED BY <1>1, <1>4, <2>1, OtherSlaves DEF Reset, SetBuilder, WireTypeOK, SlaveTypeOK
<1>5. CASE DoDie(s) \/ SigTerm(s)
  <2>1. c # NoConn /\ Exit(s) BY <1>5 DEF DoDie, SigTerm, Gets
  <2> QED BY <1>4, <2>1 DEF Exit, Put, WireTypeOK
<1>6. CASE PowerLoss(s) \/ MasterTimeout(s)
  BY <1>4, <1>6 DEF PowerLoss, MasterTimeout, Close, Put, WireTypeOK
\* A request goes out on the connection that the slave has.
<1>7. ASSUME NEW m \in Requests \cup {Quiet}, c # NoConn, Put(c, m), conn' = conn,
             \A t \in Slaves \ {s} :
               /\ builder'[t] = builder[t]
               /\ t \in acked' <=> t \in acked
               /\ t \in sending' <=> t \in sending,
             SlaveFits(s, m)', c \in known => DriverFits(s, c, m)',
             ~(job # NoJob /\ job.conn = c)
      PROVE  SessionsAgree'
  <2>1. wire'[c] = m /\ \A d \in Conns : d # c => wire'[d] = wire[d]
    BY <1>1, <1>7 DEF Put, WireTypeOK
  <2>2. SessionAgrees(s)' BY <1>7, <2>1 DEF SessionAgrees
  <2>3. \A d \in Conns : d[1] # s => wire'[d] = wire[d] BY <1>1, <1>7, <2>1
  <2>4. \A t \in Slaves \ {s} :
          /\ conn'[t] = conn[t] /\ builder'[t] = builder[t]
          /\ t \in acked' <=> t \in acked
          /\ t \in sending' <=> t \in sending
    BY <1>7
  <2> QED BY <2>2, <2>3, <2>4, OtherSlaves
<1>8. CASE DoAck(s)
  <2> DEFINE m == Plain("IDLE")
  <2>1. m \in Requests /\ m.msg = "IDLE" BY Makes DEF Plain
  <2>2. c # NoConn /\ wire[c].msg = "ACK" BY <1>8 DEF DoAck, Gets
  <2>3. SlaveFits(s, m)'
    BY <1>1, <1>2, <1>3, <1>8, <2>1, <2>2, Kinds DEF DoAck, SlaveFits, ReplyFits
  <2>4. c \in known => DriverFits(s, c, m)'
    BY <1>1, <1>2, <1>3, <1>8, <2>1, <2>2, Kinds DEF DoAck, Ask, DriverFits, IdleAccepted
  <2> QED BY <1>1, <1>3, <1>7, <1>8, <2>1, <2>2, <2>3, <2>4 DEF DoAck, Ask
<1>9. CASE DoSleep(s)
  <2> DEFINE m == Plain("IDLE")
  <2>1. m \in Requests /\ m.msg = "IDLE" BY Makes DEF Plain
  <2>2. c # NoConn /\ wire[c].msg = "SLEEP" BY <1>9 DEF DoSleep, Gets
  <2>3. SlaveFits(s, m)'
    BY <1>1, <1>2, <1>3, <1>9, <2>1, <2>2, Kinds DEF DoSleep, SlaveFits, ReplyFits
  <2>4. c \in known => DriverFits(s, c, m)'
    BY <1>1, <1>2, <1>3, <1>9, <2>1, <2>2, Kinds DEF DoSleep, Ask, DriverFits, IdleAccepted
  <2> QED BY <1>1, <1>3, <1>7, <1>9, <2>1, <2>2, <2>3, <2>4 DEF DoSleep, Ask
<1>10. CASE DoBuild(s)
  <2> DEFINE m == Plain("BUSY")
  <2>1. m \in Requests /\ m.msg = "BUSY" BY Makes DEF Plain
  <2>2. c # NoConn /\ wire[c].msg = "BUILD" BY <1>10 DEF DoBuild, Gets
  <2>3. /\ builder'[s] # NoBuilder
        /\ \A t \in Slaves \ {s} : builder'[t] = builder[t]
    <3>1. [build |-> wire[c].build, state |-> "running", files |-> 0] \in BuilderStates
      BY <1>1, <2>2, ProtocolAssumption DEF Fields, BuilderStates
    <3> QED BY <1>10, <3>1, FarmAssumption DEF DoBuild, SetBuilder, SlaveTypeOK
  <2>4. SlaveFits(s, m)'
    BY <1>1, <1>2, <1>3, <1>10, <2>1, <2>2, <2>3, Kinds DEF DoBuild, SlaveFits, ReplyFits
  <2>5. c \in known => DriverFits(s, c, m)'
    BY <1>1, <1>2, <1>3, <1>10, <2>1, <2>2, Kinds DEF DoBuild, Ask, DriverFits, IdleAccepted
  <2> QED BY <1>1, <1>3, <1>7, <1>10, <2>1, <2>2, <2>3, <2>4, <2>5 DEF DoBuild, Ask
<1>11. CASE DoCont(s)
  <2>1. c # NoConn /\ wire[c].msg = "CONT" BY <1>11 DEF DoCont, Gets
  <2>2. builder[s] \in BuilderStates
    BY <1>1, <1>3, <2>1 DEF ReplyFits, SlaveTypeOK
  <2>3. PICK m : m = IF builder[s].state = "running" THEN Plain("BUSY")
                     ELSE Built(builder[s].state = "ok", builder[s].files)
    OBVIOUS
  <2>4. /\ m \in Requests /\ m.msg \in {"BUSY", "BUILT"}
        /\ m.msg = "BUILT" => /\ builder[s].state = (IF m.status THEN "ok" ELSE "failed")
                              /\ builder[s].files = m.files
    BY <2>2, <2>3, Makes DEF Plain, Built, BuilderStates
  <2>5. SlaveFits(s, m)'
    BY <1>1, <1>2, <1>3, <1>11, <2>1, <2>4, Kinds DEF DoCont, SlaveFits, ReplyFits
  <2>6. c \in known => DriverFits(s, c, m)'
    BY <1>1, <1>2, <1>3, <1>11, <2>1, <2>4, Kinds DEF DoCont, Ask, DriverFits, IdleAccepted
  <2> QED BY <1>1, <1>3, <1>7, <1>11, <2>1, <2>3, <2>4, <2>5, <2>6 DEF DoCont, Ask
<1>12. CASE DoSend(s)
  <2>1. c # NoConn /\ wire[c].msg = "SEND" BY <1>12 DEF DoSend, Gets
  <2>2. Quiet.msg = "none" BY DEF Quiet, Plain
  <2>3. SlaveFits(s, Quiet)'
    BY <1>1, <1>2, <1>3, <1>12, <2>1, <2>2, Kinds DEF DoSend, SlaveFits, ReplyFits
  <2>4. c \in known => DriverFits(s, c, Quiet)'
    BY <1>1, <1>2, <1>3, <1>12, <2>1, <2>2, Kinds DEF DoSend, DriverFits, IdleAccepted
  <2> QED BY <1>1, <1>3, <1>7, <1>12, <2>1, <2>3, <2>4 DEF DoSend
<1>13. CASE DoDone(s)
  <2> DEFINE m == Plain("IDLE")
  <2>1. m \in Requests /\ m.msg = "IDLE" BY Makes DEF Plain
  <2>2. c # NoConn /\ wire[c].msg = "DONE" BY <1>13 DEF DoDone, Gets
  <2>3. /\ builder'[s] = NoBuilder
        /\ \A t \in Slaves \ {s} : builder'[t] = builder[t]
    BY <1>13 DEF DoDone, SetBuilder, SlaveTypeOK
  <2>4. SlaveFits(s, m)'
    BY <1>1, <1>2, <1>3, <1>13, <2>1, <2>2, <2>3, Kinds DEF DoDone, SlaveFits, ReplyFits
  <2>5. c \in known => DriverFits(s, c, m)'
    BY <1>1, <1>2, <1>3, <1>13, <2>1, <2>2, Kinds DEF DoDone, Ask, DriverFits, IdleAccepted
  <2> QED BY <1>1, <1>3, <1>7, <1>13, <2>1, <2>2, <2>3, <2>4, <2>5 DEF DoDone, Ask
<1>14. CASE Transferred(s)
  <2> DEFINE m == Plain("SENT")
  <2>1. m \in Requests /\ m.msg = "SENT" BY Makes DEF Plain
  <2>2. s \in sending BY <1>14 DEF Transferred
  <2>3. c # NoConn BY <1>0, <2>2 DEF SessionAgrees
  <2>4. ~(job # NoJob /\ job.conn = c) BY <1>2, <2>2, <2>3 DEF JobFits
  <2>5. SlaveFits(s, m)'
    BY <1>2, <1>14, <2>1, <2>2, <2>3, Kinds DEF Transferred, SlaveFits
  <2>6. c \in known => DriverFits(s, c, m)'
    BY <1>2, <1>14, <2>1, <2>2, <2>3, Kinds DEF Transferred, Ask, DriverFits, IdleAccepted
  <2> QED BY <1>7, <1>14, <2>1, <2>3, <2>4, <2>5, <2>6 DEF Transferred, Ask
\* The build ends when nothing depends on its outcome yet.
<1>15. ASSUME NEW ok \in BOOLEAN, NEW n \in 0..MaxFiles, BuildEnds(s, ok, n)
       PROVE  SessionsAgree'
  <2>1. /\ builder[s] \in BuilderStates /\ builder[s].state = "running"
        /\ UNCHANGED <<wire, conn, acked, sending>>
    BY <1>15 DEF BuildEnds, SlaveTypeOK
  <2>2. /\ builder'[s] # NoBuilder
        /\ \A t \in Slaves \ {s} : builder'[t] = builder[t]
    <3>1. [builder[s] EXCEPT !.state = IF ok THEN "ok" ELSE "failed", !.files = n] \in BuilderStates
      BY <2>1 DEF BuilderStates
    <3> QED BY <1>15, <3>1, FarmAssumption DEF BuildEnds, SetBuilder, SlaveTypeOK
  <2>3. c # NoConn BY <1>0, <1>15 DEF SessionAgrees, BuildEnds
  <2>4. SlaveFits(s, wire[c])'
    BY <1>1, <1>2, <1>15, <2>1, <2>2, <2>3 DEF SlaveFits, ReplyFits, BuildEnds
  <2>5. c \in known => DriverFits(s, c, wire[c])'
    BY <1>1, <1>2, <1>15, <2>1, <2>2, <2>3 DEF DriverFits, IdleAccepted, BuildEnds
  <2>6. job # NoJob /\ job.conn = c => JobFits(s, wire[c])'
    BY <1>1, <1>2, <2>1, <2>2, <2>3 DEF JobFits
  <2>7. SessionAgrees(s)' BY <2>1, <2>3, <2>4, <2>5, <2>6 DEF SessionAgrees
  <2> QED BY <2>1, <2>2, <2>7, OtherSlaves
<1>16. ASSUME NEW d \in Conns, d \notin known, Connect(s, d) PROVE SessionsAgree'
  <2> DEFINE m == Plain("HELLO")
  <2>1. m \in Requests /\ m.msg = "HELLO" /\ m # Quiet BY Makes DEF Plain, Quiet
  <2>2. /\ c = NoConn /\ d[1] = s
        /\ conn'[s] = d /\ \A t \in Slaves \ {s} : conn'[t] = conn[t]
        /\ wire'[d] = m /\ \A o \in Conns : o # d => wire'[o] = wire[o]
        /\ UNCHANGED <<acked, sending, builder>>
    BY <1>16 DEF Connect, Put, WireTypeOK
  <2>3. s \notin acked \cup sending /\ builder[s] = NoBuilder
    BY <1>0, <2>2 DEF SessionAgrees
  <2>4. SlaveFits(s, m)' BY <2>1, <2>2, <2>3, Kinds DEF SlaveFits, ReplyFits
  <2>5. ~(job # NoJob /\ job.conn = d) BY <1>16 DEF SessionsAgree
  <2>6. SessionAgrees(s)'
    BY <1>16, <2>2, <2>4, <2>5, FarmAssumption DEF SessionAgrees
  <2> QED BY <2>2, <2>6, OtherSlaves
<1> QED BY <1>5, <1>6, <1>8, <1>9, <1>10, <1>11, <1>12, <1>13, <1>14, <1>15, <1>16
  DEF Receive

LEMMA AnnounceAgrees ==
  ASSUME Inv, AnnounceStep
  PROVE  SessionsAgree'
<1> USE DEF Inv, TypeOK, AnnounceStep, Announce
<1> DEFINE m == Plain("DONE")
<1>1. m \in Replies /\ m.msg = "DONE" BY Makes DEF Plain
<1>2. PICK c \in Conns : c = job.conn BY DEF DriverTypeOK
<1>3. ASSUME NEW s \in Slaves PROVE SessionAgrees(s)'
  <2>1. conn[s] = c => s \notin sending /\ ReplyFits(s, m)
    <3>1. SessionAgrees(s) BY DEF SessionsAgree
    <3> QED BY <1>1, <1>2, <3>1, FarmAssumption DEF SessionAgrees, JobFits, ReplyFits
  <2>2. \A o \in Conns \ {c} : build'[o] = build[o]
    BY <1>2 DEF SetBuild, DriverTypeOK
  <2>3. Respond(c, m) BY <1>2
  <2> QED BY <1>1, <2>1, <2>2, <2>3, Answered
<1>4. /\ reply'[c].msg # "SEND"
      /\ \A d \in Conns \ {c} : reply'[d] = reply[d] /\ build'[d] = build[d]
  BY <1>1, <1>2 DEF Respond, SetBuild, DriverTypeOK, Plain
<1> QED BY <1>3, <1>4 DEF SessionsAgree, DriverTypeOK

\* The driver forgets a session between two messages.
LEMMA ExpireAgrees ==
  ASSUME Inv, NEW c \in Conns, Expire(c)
  PROVE  SessionsAgree'
<1> USE DEF Inv, TypeOK, Expire, RemoveExpired, Ready
<1>1. /\ \A d \in known' : d \in known /\ reply'[d] = reply[d] /\ build'[d] = build[d]
      /\ \A d \in Conns \ {c} : reply'[d] = reply[d] /\ build'[d] = build[d]
      /\ c \notin known'
  BY DEF Forget, DriverTypeOK
<1>2. ASSUME NEW s \in Slaves PROVE SessionAgrees(s)'
  <2>1. SessionAgrees(s) BY DEF SessionsAgree
  <2> QED BY <1>1, <2>1 DEF SessionAgrees, SlaveFits, DriverFits, JobFits, ReplyFits,
                            IdleAccepted, slaveVars
<1> QED BY <1>1, <1>2 DEF SessionsAgree

LEMMA LossAgrees ==
  ASSUME Inv, NEW c \in Conns, LoseMessage(c)
  PROVE  SessionsAgree'
<1> USE DEF Inv, TypeOK, LoseMessage
<1>1. wire'[c] = Quiet /\ \A d \in Conns \ {c} : wire'[d] = wire[d]
  BY DEF Put, WireTypeOK
<1>2. Quiet.msg = "none" /\ Quiet \notin Requests /\ Quiet \notin Replies
  BY Kinds DEF Quiet, Plain
<1>3. ASSUME NEW s \in Slaves PROVE SessionAgrees(s)'
  <2>1. SessionAgrees(s) BY DEF SessionsAgree
  <2>2. CASE conn[s] = c
    <3>1. c # NoConn BY FarmAssumption
    <3>2. /\ SlaveFits(s, wire[c])
          /\ c \in known => DriverFits(s, c, wire[c])
          /\ job # NoJob /\ job.conn = c => JobFits(s, wire[c])
      BY <2>1, <2>2, <3>1 DEF SessionAgrees
    <3>3. SlaveFits(s, Quiet)'
      BY <1>2, <3>2 DEF SlaveFits, slaveVars
    <3>4. c \in known => DriverFits(s, c, Quiet)'
      BY <1>2, <3>2 DEF DriverFits, IdleAccepted, slaveVars, driverVars
    <3>5. job # NoJob /\ job.conn = c => JobFits(s, Quiet)'
      BY <1>2, <3>2 DEF JobFits, slaveVars
    <3> QED BY <1>1, <2>2, <3>1, <3>3, <3>4, <3>5 DEF SessionAgrees, slaveVars, driverVars
  <2>3. CASE conn[s] # c
    <3>1. conn[s] # NoConn => conn[s] \in Conns BY DEF WireTypeOK
    <3> QED BY <1>1, <2>1, <2>3, <3>1, Others DEF driverVars
  <2> QED BY <2>2, <2>3
<1> QED BY <1>3 DEF SessionsAgree, driverVars

\* A step that touches neither the wire nor what the driver knows of a session.
LEMMA Elsewhere ==
  ASSUME SessionsAgree, UNCHANGED <<wire, slaveVars, known, reply, build, job>>
  PROVE  SessionsAgree'
<1>1. ASSUME NEW s \in Slaves PROVE SessionAgrees(s)'
  <2>1. SessionAgrees(s) BY DEF SessionsAgree
  <2> QED BY <2>1, Others
<1> QED BY <1>1 DEF SessionsAgree

\* A master that starts anew knows no session, so that only the slave's own
\* part is left to agree.
LEMMA RestartAgrees ==
  ASSUME Inv, Restart
  PROVE  SessionsAgree'
<1>1. ASSUME NEW s \in Slaves PROVE SessionAgrees(s)'
  <2>1. SessionAgrees(s) BY DEF Inv, SessionsAgree
  <2> QED BY <2>1 DEF Restart, SessionAgrees, SlaveFits, ReplyFits, slaveVars
<1> QED BY <1>1 DEF Restart, SessionsAgree

LEMMA SessionsStep == Inv /\ [Next]_vars => SessionsAgree'
<1> SUFFICES ASSUME Inv, [Next]_vars PROVE SessionsAgree' OBVIOUS
<1>0. SessionsAgree BY DEF Inv
<1>1. CASE UNCHANGED vars
  BY <1>0, <1>1, Elsewhere DEF vars, driverVars, slaveVars
<1>2. ASSUME NEW c \in Conns, DriverStep(c) PROVE SessionsAgree'
  BY <1>2, HandleSlaveAgrees DEF DriverStep
<1>3. ASSUME NEW c \in Conns, Expire(c) PROVE SessionsAgree'
  BY <1>3, ExpireAgrees
<1>4. ASSUME NEW c \in Conns, LoseMessage(c) PROVE SessionsAgree'
  BY <1>4, LossAgrees
<1>5. ASSUME NEW s \in Slaves, SlaveStep(s) PROVE SessionsAgree'
  BY <1>5, SlaveAgrees DEF SlaveStep
<1>6. ASSUME NEW s \in Slaves, BuilderStep(s) PROVE SessionsAgree'
  BY <1>6, SlaveAgrees DEF BuilderStep, driverVars
<1>7. ASSUME NEW s \in Slaves, TransferStep(s) PROVE SessionsAgree'
  <2>1. CASE Transferred(s) BY <1>7, <2>1, SlaveAgrees DEF TransferStep
  <2>2. CASE UNCHANGED <<slaveVars, wire>>
    BY <1>0, <1>7, <2>2, Elsewhere DEF TransferStep
  <2> QED BY <1>7, <2>1, <2>2 DEF TransferStep
<1>8. ASSUME NEW s \in Slaves, GiveUp(s) PROVE SessionsAgree'
  BY <1>8, SlaveAgrees DEF GiveUp, driverVars
<1>9. ASSUME NEW s \in Slaves, SlaveExit(s) PROVE SessionsAgree'
  BY <1>9, SlaveAgrees DEF SlaveExit, driverVars
<1>10. CASE AnnounceStep BY <1>10, AnnounceAgrees
<1>11. CASE Schedule BY <1>0, <1>11, Elsewhere DEF Schedule
<1>12. CASE ScheduledBuild
  BY <1>0, <1>12, Elsewhere DEF ScheduledBuild, HandleBuild
<1>13. ASSUME NEW a \in Abis, NEW k \in Keys, Lapse(a, k) PROVE SessionsAgree'
  BY <1>0, <1>13, Elsewhere DEF Lapse
<1>14. ASSUME NEW k \in Removals, StartRemoval(k) PROVE SessionsAgree'
  BY <1>0, <1>14, Elsewhere DEF StartRemoval, driverVars
<1>15. CASE DropRemoved
  BY <1>0, <1>15, Elsewhere DEF DropRemoved, HandleDelete
<1>16. CASE FinishRemoval
  BY <1>0, <1>16, Elsewhere DEF FinishRemoval, driverVars
<1>17. ASSUME NEW b \in Builds, AddRemoved(b) PROVE SessionsAgree'
  BY <1>0, <1>17, Elsewhere DEF AddRemoved, driverVars
<1>18. CASE Operator
  BY <1>0, <1>18, Elsewhere DEF Operator, HandleControl
<1>19. CASE Crash BY <1>0, <1>19, Elsewhere DEF Crash
<1>20. CASE Restart BY <1>20, RestartAgrees
<1> QED BY <1>1, <1>2, <1>3, <1>4, <1>5, <1>6, <1>7, <1>8, <1>9, <1>10, <1>11, <1>12,
           <1>13, <1>14, <1>15, <1>16, <1>17, <1>18, <1>19, <1>20 DEF Next, FarmStep, RemovalStep

LEMMA InitAgrees == Init => SessionsAgree
BY DEF Init, WireInit, DriverInit, SlaveInit, SessionsAgree, SessionAgrees

LEMMA InvHolds == Spec => []Inv
<1>1. Init => Inv BY InitType, InitAgrees DEF Inv
<1>2. Inv /\ [Next]_vars => Inv' BY TypeStep, SessionsStep DEF Inv
<1> QED BY <1>1, <1>2, PTL DEF Spec

-----------------------------------------------------------------------------
\* Every variable keeps its type.  That is not only a matter of types: the
\* wheels still to be sent stay within those that were announced (do_built,
\* do_sent), and flags are set only for slaves that the driver knows.
THEOREM TypeCorrect == Spec => []TypeOK
<1>1. Inv => TypeOK BY DEF Inv
<1> QED BY <1>1, InvHolds, PTL

\* However messages are lost or delayed, and whenever slaves and master exit
\* and come back, the two ends of every session agree on what they are doing.
THEOREM SessionsHold == Spec => []SessionsAgree
<1>1. Inv => SessionsAgree BY DEF Inv
<1> QED BY <1>1, InvHolds, PTL

\* None of the asserts in piw-slave's handlers can fail.
THEOREM AssertionsHold == Spec => []SlaveAssertions
<1>1. Inv => SlaveAssertions
  BY Kinds DEF Inv, TypeOK, WireTypeOK, SessionsAgree, SessionAgrees, SlaveAssertions, SlaveFits
<1> QED BY <1>1, InvHolds, PTL

-----------------------------------------------------------------------------
\* A slave sends nothing but requests, and DIE is not one.
LEMMA SlavesOnlyAsk ==
  ASSUME Inv, NEW s \in Slaves, NEW c \in Conns, wire[c] \in Requests,
         \/ Receive(s) \/ Transferred(s) \/ PowerLoss(s) \/ SigTerm(s) \/ MasterTimeout(s)
         \/ \E ok \in BOOLEAN, n \in 0..MaxFiles : BuildEnds(s, ok, n)
         \/ \E d \in Conns : Connect(s, d)
  PROVE  wire'[c].msg # "DIE"
<1> USE DEF Inv, TypeOK
<1>1. WireTypeOK' BY SlaveType, Kinds
      DEF SessionsAgree, SessionAgrees, SlaveFits, ReplyFits, Gets, WireTypeOK
<1>2. \A k \in {"HELLO", "IDLE", "BUSY", "SENT", "BYE"} : Plain(k).msg # "DIE"
  BY DEF Plain
<1>3. /\ wire[c].msg # "DIE" /\ Quiet.msg # "DIE"
      /\ \A ok, n : Built(ok, n).msg # "DIE"
  BY Kinds DEF Quiet, Plain, Built
<1>4. conn[s] # NoConn => conn[s] \in Conns BY DEF WireTypeOK
<1>5. ASSUME NEW d, NEW m, Put(d, m), m.msg # "DIE" PROVE wire'[c].msg # "DIE"
  BY <1>3, <1>5 DEF Put, WireTypeOK
<1>6. CASE Receive(s)
  <2>1. CASE DoAck(s) \/ DoSleep(s) \/ DoBuild(s) \/ DoCont(s) \/ DoDone(s)
    BY <1>2, <1>3, <1>5, <2>1 DEF DoAck, DoSleep, DoBuild, DoCont, DoDone, Ask
  <2>2. CASE DoSend(s) BY <1>3, <1>5, <2>2 DEF DoSend
  <2>3. CASE DoDie(s) BY <1>2, <1>5, <2>3 DEF DoDie, Exit
  <2> QED BY <1>6, <2>1, <2>2, <2>3 DEF Receive
<1>7. CASE Transferred(s) BY <1>2, <1>5, <1>7 DEF Transferred, Ask
<1>8. CASE SigTerm(s) BY <1>2, <1>5, <1>8 DEF SigTerm, Exit
<1>9. CASE PowerLoss(s) \/ MasterTimeout(s)
  BY <1>3, <1>9 DEF PowerLoss, MasterTimeout, Close, Put, WireTypeOK
<1>10. ASSUME NEW ok \in BOOLEAN, NEW n \in 0..MaxFiles, BuildEnds(s, ok, n)
       PROVE  wire'[c].msg # "DIE"
  BY <1>3, <1>10 DEF BuildEnds
<1>11. ASSUME NEW d \in Conns, Connect(s, d) PROVE wire'[c].msg # "DIE"
  BY <1>2, <1>5, <1>11 DEF Connect
<1> QED BY <1>6, <1>7, <1>8, <1>9, <1>10, <1>11

\* The driver answers DIE to a slave that is still there only if the operator
\* asked for it: the session agrees, so nothing out of order was requested.
LEMMA DriverKillsOnlyKilled ==
  ASSUME Inv, NEW d \in Conns, HandleSlave(d), UNCHANGED slaveVars,
         NEW c \in Conns, wire[c] \in Requests, wire'[c].msg = "DIE"
  PROVE  c \in killed
<1> USE DEF Inv, TypeOK
<1>0. wire[c].msg # "DIE" /\ Quiet.msg # "DIE" BY Kinds DEF Quiet, Plain
<1>1. ASSUME NEW m, Put(d, m) PROVE d = c /\ m.msg = "DIE"
  BY <1>0, <1>1 DEF Put, WireTypeOK
<1>2. ASSUME NEW m, Respond(d, m) PROVE d = c /\ conn[c[1]] = c /\ m.msg = "DIE"
  BY <1>0, <1>1, <1>2 DEF Respond, Reply
<1>3. \A k : Plain(k).msg = k BY DEF Plain
<1>4. /\ \A b : Build(b).msg # "DIE"
      /\ \A n : Send(n).msg # "DIE"
  BY DEF Build, Send
<1>5. ASSUME conn[c[1]] = c, c \in known PROVE DriverFits(c[1], c, wire[c])
  <2>1. c[1] \in Slaves /\ c # NoConn BY FarmAssumption DEF Conns
  <2>2. SessionAgrees(c[1]) BY <2>1 DEF SessionsAgree
  <2> QED BY <1>5, <2>1, <2>2 DEF SessionAgrees
<1>6. CASE IgnoreUnknown(d) BY <1>0, <1>1, <1>6 DEF IgnoreUnknown
<1>7. CASE DoHello(d) BY <1>2, <1>3, <1>7 DEF DoHello
<1>8. CASE DoBye(d) BY <1>0, <1>1, <1>8 DEF DoBye
<1>9. CASE DoIdle(d)
  <2>1. CASE IdleDie(d)
    BY <1>2, <1>5, <2>1 DEF IdleDie, Asks, DriverFits
  <2>2. CASE IdleSleep(d) BY <1>2, <1>3, <2>2 DEF IdleSleep
  <2>3. CASE IdleBuild(d) BY <1>2, <1>4, <2>3 DEF IdleBuild
  <2> QED BY <1>9, <2>1, <2>2, <2>3 DEF DoIdle
<1>10. CASE DoBusy(d) BY <1>2, <1>3, <1>10 DEF DoBusy
<1>11. CASE DoBuilt(d)
  <2>1. CASE BuiltDie(d) BY <1>2, <1>5, <2>1 DEF BuiltDie, Asks, DriverFits
  <2>2. CASE BuiltSkipped(d) BY <1>2, <1>3, <2>2 DEF BuiltSkipped
  <2>3. CASE BuiltSend(d) BY <1>2, <1>4, <2>3 DEF BuiltSend, AskFor
  <2>4. CASE BuiltLog(d) BY <1>0, <2>4 DEF BuiltLog, Log
  <2> QED BY <1>11, <2>1, <2>2, <2>3, <2>4 DEF DoBuilt
<1>12. CASE DoSent(d)
  <2>1. CASE SentDie(d) BY <1>2, <1>5, <2>1 DEF SentDie, Asks, DriverFits
  <2>2. CASE SentCorrupt(d) BY <1>2, <1>4, <2>2 DEF SentCorrupt, AskFor
  <2>3. CASE SentNext(d) BY <1>2, <1>4, <2>3 DEF SentNext, AskFor
  <2>4. CASE SentLast(d) BY <1>0, <2>4 DEF SentLast, Log
  <2> QED BY <1>12, <2>1, <2>2, <2>3, <2>4 DEF DoSent
<1> QED BY <1>6, <1>7, <1>8, <1>9, <1>10, <1>11, <1>12 DEF HandleSlave

\* DIE is never the answer to a slave's own misstep, for it makes none: only
\* the operator's KILL brings it about.
THEOREM DieMeansKilled == Spec => DieOnlyIfKilled
<1> DEFINE A == \A c \in Conns : wire[c] \in Requests /\ wire'[c].msg = "DIE" => c \in killed
<1>1. Inv /\ [Next]_vars => [A]_vars
  <2> SUFFICES ASSUME Inv, Next, NEW c \in Conns, wire[c] \in Requests, wire'[c].msg = "DIE"
               PROVE  c \in killed
    BY DEF vars
  <2> USE DEF Inv, TypeOK
  <2>0. wire[c].msg # "DIE" BY Kinds
  <2>1. ASSUME NEW d \in Conns, DriverStep(d) PROVE c \in killed
    BY <2>1, DriverKillsOnlyKilled DEF DriverStep
  <2>2. ASSUME NEW d \in Conns, LoseMessage(d) PROVE c \in killed
    BY <2>0, <2>2, Kinds DEF LoseMessage, Put, WireTypeOK, Quiet, Plain
  <2>3. ASSUME NEW s \in Slaves,
               SlaveStep(s) \/ BuilderStep(s) \/ TransferStep(s) \/ GiveUp(s) \/ SlaveExit(s)
        PROVE  c \in killed
    <3>1. CASE UNCHANGED wire BY <2>0, <3>1
    <3> QED BY <2>3, <3>1, SlavesOnlyAsk
        DEF SlaveStep, BuilderStep, TransferStep, GiveUp, SlaveExit
  <2>4. CASE AnnounceStep
    BY <2>0, <2>4 DEF AnnounceStep, Announce, Respond, Reply, Put, WireTypeOK, Quiet, Plain
  <2>5. CASE UNCHANGED wire BY <2>0, <2>5
  <2>6. ASSUME NEW d \in Conns, Expire(d) PROVE c \in killed
    BY <2>5, <2>6 DEF Expire, RemoveExpired
  <2>7. ASSUME NEW a \in Abis, NEW k \in Keys, Lapse(a, k) PROVE c \in killed
    BY <2>5, <2>7 DEF Lapse
  <2>8. ASSUME NEW k \in Removals, StartRemoval(k) PROVE c \in killed
    BY <2>5, <2>8 DEF StartRemoval
  <2>9. ASSUME NEW b \in Builds, AddRemoved(b) PROVE c \in killed
    BY <2>5, <2>9 DEF AddRemoved
  <2>10. CASE Schedule \/ ScheduledBuild \/ DropRemoved \/ FinishRemoval \/ Operator
              \/ Crash \/ Restart
    BY <2>5, <2>10 DEF Schedule, ScheduledBuild, HandleBuild, DropRemoved, HandleDelete,
       FinishRemoval, Operator, HandleControl, Crash, Restart
  <2> QED BY <2>1, <2>2, <2>3, <2>4, <2>6, <2>7, <2>8, <2>9, <2>10 DEF Next, FarmStep, RemovalStep
<1> QED BY <1>1, InvHolds, PTL DEF Spec, DieOnlyIfKilled

-----------------------------------------------------------------------------
(***************************************************************************)
(* Who builds what, and what becomes of it, for any farm.                  *)
(*                                                                         *)
(* A version that is in hand is excluded, so that no second slave of its   *)
(* ABI gets it, and what was removed is skipped and not handed out again.  *)
(* Both are about what the master remembers: the excluded_builds of        *)
(* SlaveDriver, which a restart clears (NoDuplicates assumes that there is *)
(* none), and the database (RemovalsAreSkipped).                           *)
(*                                                                         *)
(* A finished build is in the database before its slave is told to throw   *)
(* it away, and its pages are being rewritten (FinishedAreLogged, where    *)
(* nothing is removed or skipped and the master is not restarted; the      *)
(* times that anything takes, lost messages and slaves that leave do not   *)
(* matter). And the ABIs of a version take their turns (AbisTakeTurns).    *)
(***************************************************************************)

\* What the driver said last, what it has sent for, and what the slave has.
Named(c, b) == c \in known /\ reply[c] = Build(b)
Fetched(c, b) == build[c] # NoBuild /\ build[c].build = b
Has(c, b) == conn[c[1]] = c /\ builder[c[1]] # NoBuilder /\ builder[c[1]].build = b
Runs(c, b) == Has(c, b) /\ builder[c[1]].state = "running"

\* The session has b in hand, from the BUILD to the release of the slave.
Working(c, b) == Named(c, b) \/ Fetched(c, b) \/ wire[c] = Build(b) \/ Has(c, b)

\* What is in hand will not be handed out.
WorkIsExcluded ==
  \A c \in Conns : \A b \in Builds : Working(c, b) =>
    excluded[AbiOf(c)][b] \in {"build", "delete"} /\ b \notin queues[AbiOf(c)]

OneWorker ==
  \A c, d \in Conns : \A b \in Builds :
    AbiOf(c) = AbiOf(d) /\ Working(c, b) /\ Working(d, b) => c = d

Exclusive == WorkIsExcluded /\ OneWorker

-----------------------------------------------------------------------------
\* Messages.

LEMMA Messages ==
  /\ \A m \in Replies : m.msg = "BUILD" => m.build \in Builds /\ m = Build(m.build)
  /\ \A m \in Requests \cup Replies \cup {Quiet} : \A b : m = Build(b) => m.msg = "BUILD"
  /\ \A b : Build(b).msg = "BUILD" /\ Build(b).build = b
  /\ \A k : Plain(k).msg = k
  /\ \A n : Send(n).msg = "SEND" /\ Send(n).file = n
  /\ \A ok, n : Built(ok, n).msg = "BUILT"
  /\ Quiet.msg = "none"
BY DEF Requests, Replies, Quiet, Plain, Built, Build, Send

\* A reply changes nothing at other addresses.
LEMMA Responds ==
  ASSUME TypeOK, NEW c \in Conns, NEW m \in Replies, Respond(c, m)
  PROVE  /\ \A d \in Conns \ {c} : wire'[d] = wire[d] /\ reply'[d] = reply[d]
         /\ wire'[c] \in {m, Quiet}
         /\ m.msg # "CONT" => reply'[c] = m
         /\ m.msg = "CONT" => reply' = reply
         /\ skipped' \subseteq skipped
         /\ m.msg # "DONE" => skipped' = skipped
<1>1. m.msg # "CONT" => m # Plain("CONT") BY Messages
<1>2. m.msg = "CONT" => m = Plain("CONT")
  BY Messages DEF Replies, Plain, Build, Send
<1>3. m.msg # "DONE" => m # Plain("DONE") BY Messages
<1> QED BY <1>1, <1>2, <1>3 DEF Respond, Reply, Put, TypeOK, WireTypeOK, DriverTypeOK

-----------------------------------------------------------------------------
\* In the step, b takes no other way through the session than from the driver
\* to the slave and back.
NothingNew(c, b) ==
  /\ wire'[c] = Build(b) => wire[c] = Build(b)
  /\ Named(c, b)' => Named(c, b)
  /\ Fetched(c, b)' => Fetched(c, b) \/ Named(c, b)
  /\ Has(c, b)' => Has(c, b) \/ wire[c] = Build(b)
  /\ Runs(c, b)' => Runs(c, b) \/ wire[c] = Build(b)

\* A session gets a version in hand only from do_idle.  Here for the slave's
\* own steps ...
LEMMA SlavesTakeNothing ==
  ASSUME Inv, NEW s \in Slaves, UNCHANGED <<known, reply, build>>,
         \/ Receive(s) \/ Transferred(s) \/ PowerLoss(s) \/ SigTerm(s) \/ MasterTimeout(s)
         \/ \E ok \in BOOLEAN, n \in 0..MaxFiles : BuildEnds(s, ok, n)
         \/ \E d \in Conns : Connect(s, d),
         NEW c \in Conns, NEW b \in Builds
  PROVE  NothingNew(c, b)
<1> USE DEF Inv, TypeOK
<1>0. /\ c[1] \in Slaves
      /\ conn[s] # NoConn => conn[s] \in Conns /\ conn[s][1] = s
      /\ wire[c] \in Requests \cup Replies \cup {Quiet}
  BY DEF WireTypeOK, Conns
<1>1. Plain("HELLO") # Build(b) /\ Plain("IDLE") # Build(b) /\ Plain("BUSY") # Build(b)
      /\ Plain("SENT") # Build(b) /\ Plain("BYE") # Build(b) /\ Quiet # Build(b)
      /\ \A ok, n : Built(ok, n) # Build(b)
  BY Messages
<1>2. ASSUME NEW d, NEW m, m # Build(b), Put(d, m), wire'[c] = Build(b)
      PROVE  wire[c] = Build(b)
  BY <1>2 DEF Put, WireTypeOK
<1>n. (Named(c, b)' => Named(c, b)) /\ (Fetched(c, b)' => Fetched(c, b))
  BY DEF Named, Fetched
<1>3. ASSUME UNCHANGED conn, UNCHANGED builder, wire'[c] = Build(b) => wire[c] = Build(b)
      PROVE  NothingNew(c, b)
  BY <1>n, <1>3 DEF NothingNew, Has, Runs
<1>4. CASE DoAck(s) \/ DoSleep(s) \/ DoCont(s)
  BY <1>1, <1>2, <1>3, <1>4 DEF DoAck, DoSleep, DoCont, Ask
<1>5. CASE DoSend(s) BY <1>1, <1>2, <1>3, <1>5 DEF DoSend
<1>6. CASE Transferred(s) BY <1>1, <1>2, <1>3, <1>6 DEF Transferred, Ask
<1>7. CASE DoBuild(s)
  <2>1. wire'[c] = Build(b) => wire[c] = Build(b)
    BY <1>1, <1>2, <1>7 DEF DoBuild, Ask
  <2>2. ASSUME conn[s] = c, builder'[s].build = b PROVE wire[c] = Build(b)
    <3>1. wire[c].msg = "BUILD" /\ wire[c] \in Replies
      BY <1>0, <1>7, <2>2, Kinds DEF DoBuild, Gets
    <3>2. builder'[s].build = wire[c].build
      BY <1>7, <2>2 DEF DoBuild, SetBuilder, SlaveTypeOK
    <3> QED BY <2>2, <3>1, <3>2, Messages
  <2>3. /\ UNCHANGED conn
        /\ \A t \in Slaves \ {s} : builder'[t] = builder[t]
    BY <1>7 DEF DoBuild, Ask, SetBuilder, SlaveTypeOK
  <2> QED BY <1>0, <1>n, <2>1, <2>2, <2>3 DEF NothingNew, Has, Runs
\* A builder that is gone, or a connection that is closed.
<1>8. ASSUME builder' = [builder EXCEPT ![s] = NoBuilder],
             \A t \in Slaves \ {s} : conn'[t] = conn[t],
             wire'[c] = Build(b) => wire[c] = Build(b)
      PROVE  NothingNew(c, b)
  BY <1>0, <1>n, <1>8 DEF NothingNew, Has, Runs, SlaveTypeOK
<1>9. CASE DoDone(s)
  BY <1>1, <1>2, <1>8, <1>9 DEF DoDone, Ask, SetBuilder
<1>10. CASE DoDie(s) \/ SigTerm(s)
  BY <1>1, <1>2, <1>8, <1>10 DEF DoDie, SigTerm, Exit, Reset, SetBuilder, WireTypeOK
<1>11. CASE PowerLoss(s) \/ MasterTimeout(s)
  <2>1. Close(s) /\ Reset(s) BY <1>11 DEF PowerLoss, MasterTimeout
  <2>2. wire'[c] = Build(b) => wire[c] = Build(b)
    BY <1>1, <2>1 DEF Close, Put, WireTypeOK
  <2> QED BY <1>8, <2>1, <2>2 DEF Close, Reset, SetBuilder, WireTypeOK
<1>12. ASSUME NEW ok \in BOOLEAN, NEW n \in 0..MaxFiles, BuildEnds(s, ok, n)
       PROVE  NothingNew(c, b)
  <2>1. \A t \in Slaves : builder'[t] # NoBuilder =>
          /\ builder[t] # NoBuilder /\ builder'[t].build = builder[t].build
          /\ builder'[t].state = "running" => builder[t].state = "running"
    BY <1>12 DEF BuildEnds, SetBuilder, SlaveTypeOK, BuilderStates
  <2> QED BY <1>0, <1>n, <1>12, <2>1 DEF NothingNew, Has, Runs, BuildEnds
<1>13. ASSUME NEW d \in Conns, Connect(s, d) PROVE NothingNew(c, b)
  <2>1. wire'[c] = Build(b) => wire[c] = Build(b)
    BY <1>1, <1>2, <1>13 DEF Connect
  <2>2. builder[s] = NoBuilder
    BY <1>13 DEF Connect, SessionsAgree, SessionAgrees
  <2>3. \A t \in Slaves \ {s} : conn'[t] = conn[t]
    BY <1>13 DEF Connect, WireTypeOK
  <2> QED BY <1>0, <1>n, <1>13, <2>1, <2>2, <2>3 DEF Connect, NothingNew, Has, Runs
<1> QED BY <1>4, <1>5, <1>6, <1>7, <1>9, <1>10, <1>11, <1>12, <1>13 DEF Receive

\* ... and for those of the driver, all but one.
LEMMA DriverTakesIdle ==
  ASSUME Inv, NEW d \in Conns, HandleSlave(d), ~IdleBuild(d), UNCHANGED slaveVars,
         NEW c \in Conns, NEW b \in Builds
  PROVE  NothingNew(c, b)
<1> USE DEF Inv, TypeOK
<1>0. /\ wire[c] \in Requests \cup Replies \cup {Quiet}
      /\ wire[d] \in Requests \cup Replies \cup {Quiet}
      /\ reply[c] \in Replies \cup {Quiet} /\ reply[d] \in Replies \cup {Quiet}
  BY DEF WireTypeOK, DriverTypeOK
\* It is enough to look at what the driver knows and says.
<1>1. ASSUME Named(c, b)' => Named(c, b),
             Fetched(c, b)' => Fetched(c, b) \/ Named(c, b),
             wire'[c] = Build(b) => wire[c] = Build(b)
      PROVE  NothingNew(c, b)
  BY <1>1 DEF NothingNew, Has, Runs, slaveVars
<1>2. ASSUME NEW m \in Replies, Respond(d, m), m # Build(b),
             m.msg # "CONT" \/ known' = known, known' \subseteq known \cup {d},
             Fetched(c, b)' => Fetched(c, b) \/ Named(c, b)
      PROVE  NothingNew(c, b)
  <2>1. wire'[c] = Build(b) => wire[c] = Build(b)
    BY <1>2, Responds, Messages
  <2>2. reply'[c] = Build(b) => reply[c] = Build(b) /\ (c # d \/ m.msg = "CONT")
    BY <1>2, Responds
  <2> QED BY <1>1, <1>2, <2>1, <2>2 DEF Named, Fetched
<1>3. \A k \in {"ACK", "SLEEP", "CONT", "DONE", "DIE"} : Plain(k) \in Replies /\ Plain(k) # Build(b)
  BY Makes, Messages
<1>4. \A n \in 1..MaxFiles : Send(n) \in Replies /\ Send(n) # Build(b) /\ Send(n).msg # "CONT"
  BY Makes, Messages
<1>5. ASSUME Put(d, Quiet), reply'[c] = Build(b) => reply[c] = Build(b) /\ c \in known,
             build'[c] # NoBuild => build'[c] = build[c]
      PROVE  NothingNew(c, b)
  <2>1. wire'[c] = Build(b) => wire[c] = Build(b)
    BY <1>5, Messages DEF Put, WireTypeOK
  <2> QED BY <1>1, <1>5, <2>1 DEF Named, Fetched
<1>6. CASE IgnoreUnknown(d)
  <2>1. wire'[c] = Build(b) => wire[c] = Build(b)
    BY <1>6, Messages DEF IgnoreUnknown, Put, WireTypeOK
  <2> QED BY <1>1, <1>6, <2>1 DEF IgnoreUnknown, driverVars, Named, Fetched
<1>7. CASE DoHello(d)
  BY <1>2, <1>3, <1>7, Messages DEF DoHello, Named, Fetched
<1>8. CASE DoBye(d)
  <2>1. Quiet # Build(b) BY Messages
  <2> QED BY <1>1, <1>8, <2>1 DEF DoBye, Forget, Put, Named, Fetched, WireTypeOK, DriverTypeOK
<1>9. CASE DoIdle(d)
  BY <1>2, <1>3, <1>9, Messages DEF DoIdle, IdleDie, IdleSleep, Named, Fetched
<1>10. CASE DoBusy(d)
  BY <1>2, <1>3, <1>10, Messages DEF DoBusy, Named, Fetched
\* A wheel is asked for: the build is the one that was in hand.
<1>11. ASSUME NEW o \in Builds, NEW n \in 1..MaxFiles, AskFor(d, o, n),
              known' = known, o = b => Fetched(d, b) \/ Named(d, b)
       PROVE  NothingNew(c, b)
  <2>1. build'[c] = IF c = d THEN [build |-> o, todo |-> n] ELSE build[c]
    BY <1>11 DEF AskFor, SetBuild, DriverTypeOK
  <2>2. Fetched(c, b)' => Fetched(c, b) \/ Named(c, b)
    BY <1>11, <2>1 DEF Named, Fetched
  <2> QED BY <1>2, <1>4, <1>11, <2>2 DEF AskFor
<1>12. ASSUME NEW o, NEW outcome, NEW pages, Log(d, o, outcome, pages),
              UNCHANGED <<known, build>>
       PROVE  NothingNew(c, b)
  BY <1>1, <1>12 DEF Log, Named, Fetched
<1>13. CASE DoBuilt(d)
  <2>1. CASE BuiltDie(d) \/ BuiltSkipped(d)
    <3>1. build'[c] # NoBuild => build'[c] = build[c]
      BY <2>1 DEF BuiltDie, BuiltSkipped, SetBuild, DriverTypeOK
    <3>2. PICK k \in {"DIE", "DONE"} : Respond(d, Plain(k))
      BY <2>1 DEF BuiltDie, BuiltSkipped
    <3> QED BY <1>2, <1>3, <1>13, <3>1, <3>2, Messages DEF DoBuilt, Named, Fetched
  <2>2. CASE BuiltSend(d)
    <3>1. reply[d] \in Replies /\ reply[d].msg = "BUILD"
      BY <1>0, <2>2, Messages DEF BuiltSend
    <3>2. reply[d].build \in Builds /\ reply[d] = Build(reply[d].build) BY <3>1, Messages
    <3>3. wire[d].files \in 1..MaxFiles
      BY <1>0, <2>2, Kinds, ProtocolAssumption DEF BuiltSend, Asks, Fields
    <3> QED BY <1>11, <1>13, <2>2, <3>2, <3>3 DEF BuiltSend, Asks, DoBuilt, Named, Fetched
  <2>3. CASE BuiltLog(d) BY <1>12, <1>13, <2>3 DEF BuiltLog, DoBuilt
  <2> QED BY <1>13, <2>1, <2>2, <2>3 DEF DoBuilt
<1>14. CASE DoSent(d)
  <2>1. CASE SentDie(d)
    BY <1>2, <1>3, <1>14, <2>1, Messages DEF SentDie, DoSent, Named, Fetched
  <2>2. CASE SentCorrupt(d) \/ SentNext(d)
    <3>1. build[d] \in BuildStates
      BY <2>2 DEF SentCorrupt, SentNext, Verified, Asks, SessionsAgree, DriverTypeOK
    <3>2. PICK n \in 1..MaxFiles : AskFor(d, build[d].build, n)
      BY <2>2, <3>1, ProtocolAssumption DEF SentCorrupt, SentNext, BuildStates
    <3> QED BY <1>11, <1>14, <3>1, <3>2, FarmAssumption DEF DoSent, BuildStates, Named, Fetched
  <2>3. CASE SentLast(d) BY <1>12, <1>14, <2>3 DEF SentLast, DoSent
  <2> QED BY <1>14, <2>1, <2>2, <2>3 DEF DoSent
<1> QED BY <1>6, <1>7, <1>8, <1>9, <1>10, <1>13, <1>14 DEF HandleSlave

\* A step hands out a build in do_idle, or gives nobody anything to do.
LEMMA WorkStep ==
  ASSUME Inv, [Next]_vars, \A c \in Conns : ~(DriverStep(c) /\ IdleBuild(c)),
         NEW c \in Conns, NEW b \in Builds
  PROVE  NothingNew(c, b)
<1>1. ASSUME UNCHANGED <<wire, known, reply, build, slaveVars>> PROVE NothingNew(c, b)
  BY <1>1 DEF NothingNew, Named, Fetched, Has, Runs, slaveVars
<1>2. CASE UNCHANGED vars
  BY <1>1, <1>2 DEF vars, driverVars
<1>3. ASSUME NEW d \in Conns, DriverStep(d) PROVE NothingNew(c, b)
  BY <1>3, DriverTakesIdle DEF DriverStep
<1>4. ASSUME NEW d \in Conns, Expire(d) PROVE NothingNew(c, b)
  BY <1>4 DEF Expire, RemoveExpired, Forget, NothingNew, Named, Fetched, Has, Runs, Inv, TypeOK,
     DriverTypeOK, slaveVars
<1>5. ASSUME NEW d \in Conns, LoseMessage(d) PROVE NothingNew(c, b)
  BY <1>5, Messages
     DEF LoseMessage, Put, NothingNew, Named, Fetched, Has, Runs, Inv, TypeOK, WireTypeOK,
         driverVars, slaveVars
<1>6. ASSUME NEW s \in Slaves,
             SlaveStep(s) \/ BuilderStep(s) \/ TransferStep(s) \/ GiveUp(s) \/ SlaveExit(s)
      PROVE  NothingNew(c, b)
  <2>1. CASE UNCHANGED <<slaveVars, wire>>
    <3>1. UNCHANGED <<known, reply, build>>
      BY <1>6 DEF SlaveStep, BuilderStep, TransferStep, GiveUp, SlaveExit, driverVars
    <3> QED BY <1>1, <2>1, <3>1
  <2> QED BY <1>6, <2>1, SlavesTakeNothing
      DEF SlaveStep, BuilderStep, TransferStep, GiveUp, SlaveExit, driverVars
<1>7. CASE AnnounceStep
  <2> USE DEF Inv, TypeOK
  <2>1. job.conn \in Conns /\ Respond(job.conn, Plain("DONE"))
    BY <1>7 DEF AnnounceStep, Announce, DriverTypeOK
  <2>2. wire'[c] = Build(b) => wire[c] = Build(b)
    BY <2>1, Responds, Makes, Messages
  <2>3. reply'[c] = Build(b) => reply[c] = Build(b)
    BY <2>1, Responds, Makes, Messages
  <2>4. build'[c] # NoBuild => build'[c] = build[c]
    BY <1>7, <2>1 DEF AnnounceStep, Announce, SetBuild, DriverTypeOK
  <2> QED BY <1>7, <2>2, <2>3, <2>4
      DEF AnnounceStep, Announce, NothingNew, Named, Fetched, Has, Runs, slaveVars
<1>8. ASSUME NEW a \in Abis, NEW k \in Keys, Lapse(a, k) PROVE NothingNew(c, b)
  BY <1>1, <1>8 DEF Lapse
<1>9. ASSUME NEW k \in Removals, StartRemoval(k) PROVE NothingNew(c, b)
  BY <1>1, <1>9 DEF StartRemoval, driverVars
<1>10. ASSUME NEW o \in Builds, AddRemoved(o) PROVE NothingNew(c, b)
  BY <1>1, <1>10 DEF AddRemoved, driverVars
<1>11. CASE Schedule \/ ScheduledBuild \/ DropRemoved \/ FinishRemoval \/ Operator \/ Crash
  BY <1>1, <1>11 DEF Schedule, ScheduledBuild, HandleBuild, DropRemoved, HandleDelete,
     FinishRemoval, Operator, HandleControl, Crash, driverVars
<1>12. CASE Restart
  BY <1>12, Messages DEF Restart, NothingNew, Named, Fetched, Has, Runs, slaveVars
<1> QED BY <1>2, <1>3, <1>4, <1>5, <1>6, <1>7, <1>8, <1>9, <1>10, <1>11, <1>12 DEF Next, FarmStep, RemovalStep

-----------------------------------------------------------------------------
\* The exclusions and the queues.

\* The driver's other handlers only take from the queues.
LEMMA DriverQueues ==
  ASSUME TypeOK, NEW c \in Conns, HandleSlave(c), ~IdleBuild(c)
  PROVE  /\ excluded' = excluded /\ inbox' = inbox
         /\ \A a \in Abis : queues'[a] \subseteq queues[a]
<1> USE DEF TypeOK
<1>1. AbiOf(c) \in Abis BY ProtocolAssumption DEF AbiOf, Conns
<1>2. CASE DoIdle(c)
  BY <1>1, <1>2 DEF DoIdle, IdleDie, IdleSleep, DriverTypeOK
<1>3. CASE IgnoreUnknown(c) \/ DoHello(c) \/ DoBye(c) \/ DoBusy(c) \/ DoBuilt(c) \/ DoSent(c)
  BY <1>3 DEF IgnoreUnknown, DoHello, DoBye, DoBusy, DoBuilt, DoSent, driverVars
<1> QED BY <1>2, <1>3 DEF HandleSlave

\* What do_idle does for the one build that it hands out.
LEMMA HandsOut ==
  ASSUME Inv, NEW c \in Conns, DriverStep(c), IdleBuild(c)
  PROVE  \E b \in Builds :
           /\ b \in queues[AbiOf(c)] /\ excluded[AbiOf(c)][b] = "no"
           /\ Respond(c, Build(b))
           /\ queues' = [queues EXCEPT ![AbiOf(c)] = {o \in @ : Released[o] > Released[b]}]
           /\ excluded' = [excluded EXCEPT ![AbiOf(c)][b] = "build"]
           /\ UNCHANGED <<known, build, job, inbox, removal, dbVars, slaveVars>>
           /\ \A d \in Conns, o \in Builds : NothingNew(d, o) \/ (d = c /\ o = b)
<1> USE DEF Inv, TypeOK
<1>1. Asks(c, "IDLE") BY DEF IdleBuild
<1>2. DoIdle(c)
  BY <1>1 DEF DriverStep, HandleSlave, IgnoreUnknown, DoHello, DoBye, DoBusy, DoBuilt, BuiltDie,
     BuiltSkipped, BuiltSend, BuiltLog, DoSent, SentDie, SentCorrupt, SentNext, SentLast,
     Verified, Asks
<1>3. PICK b \in First(Offered(c)) :
        /\ Respond(c, Build(b))
        /\ queues' = [queues EXCEPT ![AbiOf(c)] = {o \in @ : Released[o] > Released[b]}]
        /\ excluded' = [excluded EXCEPT ![AbiOf(c)][b] = "build"]
  BY DEF IdleBuild
<1>4. b \in queues[AbiOf(c)] /\ excluded[AbiOf(c)][b] = "no" BY <1>3 DEF First, Offered
<1>5. AbiOf(c) \in Abis BY ProtocolAssumption DEF AbiOf, Conns
<1>6. b \in Builds BY <1>4, <1>5 DEF DriverTypeOK
<1>7. UNCHANGED <<known, build, job, inbox, removal, dbVars, slaveVars>>
  BY <1>2 DEF DoIdle, DriverStep
<1>8. ASSUME NEW d \in Conns, NEW o \in Builds
      PROVE  NothingNew(d, o) \/ (d = c /\ o = b)
  <2>1. Build(b) \in Replies /\ (Build(o) = Build(b) => o = b) /\ Quiet # Build(o)
        /\ Build(b).msg # "CONT"
    BY <1>6, Makes, Messages
  <2>2. (wire'[d] = Build(o) \/ reply'[d] = Build(o)) /\ ~(d = c /\ o = b) =>
        d # c
    BY <1>3, <2>1, Responds
  <2> QED BY <1>3, <1>7, <1>8, <2>1, <2>2, Responds DEF NothingNew, Named, Fetched, Has, Runs, slaveVars
<1> QED BY <1>3, <1>4, <1>6, <1>7, <1>8

\* As long as a version is in hand its exclusion does not expire, and it is
\* not queued again.
LEMMA ExclusionLasts ==
  ASSUME TypeOK, [Next]_vars, Punctual, "restart" \notin Faults,
         \A c \in Conns : ~(DriverStep(c) /\ IdleBuild(c)),
         NEW c \in Conns, NEW b \in Builds, Working(c, b),
         excluded[AbiOf(c)][b] \in {"build", "delete"}, b \notin queues[AbiOf(c)]
  PROVE  excluded'[AbiOf(c)][b] \in {"build", "delete"} /\ b \notin queues'[AbiOf(c)]
<1> USE DEF TypeOK
<1>0. AbiOf(c) \in Abis /\ b \in Keys BY ProtocolAssumption DEF AbiOf, Conns, Builds, Keys
<1>1. CASE UNCHANGED <<excluded, queues>> BY <1>1
<1>2. ASSUME NEW d \in Conns, DriverStep(d) PROVE excluded' = excluded /\ b \notin queues'[AbiOf(c)]
  BY <1>0, <1>2, DriverQueues DEF DriverStep
<1>3. CASE ScheduledBuild
  BY <1>0, <1>3 DEF ScheduledBuild, HandleBuild, DriverTypeOK
<1>4. ASSUME NEW a \in Abis, NEW k \in Keys, Lapse(a, k)
      PROVE  excluded'[AbiOf(c)][b] = excluded[AbiOf(c)][b] /\ queues' = queues
  <2>1. ~(a = AbiOf(c) /\ k = b)
    <3>1. Covers(b, b) BY DEF Covers
    <3>2. AtWork(c, b) BY DEF Working, Named, Fetched, Has, AtWork
    <3> QED BY <1>4, <3>1, <3>2 DEF Lapse
  <2> QED BY <1>0, <1>4, <2>1 DEF Lapse, DriverTypeOK
<1>5. CASE DropRemoved
  <2>1. /\ excluded' = [a \in Abis |-> [excluded[a] EXCEPT ![removal.key] = "delete"]]
        /\ queues' = [a \in Abis |-> {o \in queues[a] : ~Covers(removal.key, o)}]
    BY <1>5 DEF DropRemoved, HandleDelete
  <2> QED BY <1>0, <2>1 DEF DriverTypeOK
<1>6. ASSUME NEW s \in Slaves,
             SlaveStep(s) \/ BuilderStep(s) \/ TransferStep(s) \/ GiveUp(s) \/ SlaveExit(s)
      PROVE  UNCHANGED <<excluded, queues>>
  BY <1>6 DEF SlaveStep, BuilderStep, TransferStep, GiveUp, SlaveExit, driverVars
<1>7. ASSUME NEW d \in Conns, Expire(d) \/ LoseMessage(d)
      PROVE  UNCHANGED <<excluded, queues>>
  BY <1>7 DEF Expire, RemoveExpired, LoseMessage, driverVars
<1>8. CASE AnnounceStep \/ Schedule \/ FinishRemoval \/ Operator \/ Crash \/ UNCHANGED vars
  BY <1>1, <1>8 DEF AnnounceStep, Announce, Schedule, FinishRemoval, Operator, HandleControl,
     Crash, driverVars, vars
<1>9. ASSUME NEW k \in Removals, StartRemoval(k) PROVE UNCHANGED <<excluded, queues>>
  BY <1>9 DEF StartRemoval, driverVars
<1>10. ASSUME NEW o \in Builds, AddRemoved(o) PROVE UNCHANGED <<excluded, queues>>
  BY <1>10 DEF AddRemoved, driverVars
<1>11. ~Restart BY DEF Restart
<1> QED BY <1>1, <1>2, <1>3, <1>4, <1>5, <1>6, <1>7, <1>8, <1>9, <1>10, <1>11 DEF Next, FarmStep, RemovalStep

LEMMA ExclusiveStep ==
  ASSUME Inv, Exclusive, [Next]_vars, Punctual, "restart" \notin Faults
  PROVE  Exclusive'
<1> USE DEF Exclusive
<1>0. \A c : AbiOf(c)' = AbiOf(c) BY DEF AbiOf
<1>1. ASSUME NEW c \in Conns, DriverStep(c), IdleBuild(c) PROVE Exclusive'
  <2>1. PICK b \in Builds :
          /\ b \in queues[AbiOf(c)] /\ excluded[AbiOf(c)][b] = "no"
          /\ queues' = [queues EXCEPT ![AbiOf(c)] = {o \in @ : Released[o] > Released[b]}]
          /\ excluded' = [excluded EXCEPT ![AbiOf(c)][b] = "build"]
          /\ \A d \in Conns, o \in Builds :
               Working(d, o)' => Working(d, o) \/ (d = c /\ o = b)
    BY <1>1, HandsOut DEF NothingNew, Working
  <2>2. AbiOf(c) \in Abis /\ b \in Keys /\ Released[b] \in Nat
    BY ProtocolAssumption, DbAssumption DEF AbiOf, Conns, Builds, Keys
  <2>3. \A d \in Conns : AbiOf(d) = AbiOf(c) => ~Working(d, b)
    BY <2>1 DEF WorkIsExcluded
  <2>4. ASSUME NEW d \in Conns, NEW o \in Builds, Working(d, o)'
        PROVE  excluded'[AbiOf(d)][o] \in {"build", "delete"} /\ o \notin queues'[AbiOf(d)]
    <3>1. AbiOf(d) \in Abis /\ o \in Keys
      BY ProtocolAssumption DEF AbiOf, Conns, Builds, Keys
    <3>2. CASE Working(d, o)
      BY <2>1, <2>2, <3>1, <3>2 DEF WorkIsExcluded, Inv, TypeOK, DriverTypeOK
    <3>3. CASE d = c /\ o = b
      BY <2>1, <2>2, <3>3 DEF Inv, TypeOK, DriverTypeOK
    <3> QED BY <2>1, <2>4, <3>2, <3>3
  <2>5. WorkIsExcluded' BY <1>0, <2>4 DEF WorkIsExcluded
  <2>6. OneWorker' BY <1>0, <2>1, <2>3 DEF OneWorker
  <2> QED BY <2>5, <2>6
<1>2. ASSUME \A c \in Conns : ~(DriverStep(c) /\ IdleBuild(c)) PROVE Exclusive'
  <2>1. \A c \in Conns, b \in Builds : Working(c, b)' => Working(c, b)
    BY <1>2, WorkStep DEF NothingNew, Working
  <2>2. WorkIsExcluded' BY <1>0, <1>2, <2>1, ExclusionLasts DEF WorkIsExcluded, Inv
  <2>3. OneWorker' BY <1>0, <2>1 DEF OneWorker
  <2> QED BY <2>2, <2>3
<1> QED BY <1>1, <1>2

LEMMA InitExclusive == Init => Exclusive
<1> SUFFICES ASSUME Init, NEW c \in Conns, NEW b \in Builds PROVE ~Working(c, b)
  BY DEF Exclusive, WorkIsExcluded, OneWorker
<1>1. c[1] \in Slaves BY DEF Conns
<1>2. Quiet # Build(b) BY Messages
<1> QED BY <1>1, <1>2 DEF Init, WireInit, DriverInit, SlaveInit, Working, Named, Fetched, Has

LEMMA ExclusiveHolds ==
  ASSUME Punctual, "restart" \notin Faults
  PROVE  Spec => []Exclusive
<1>1. Inv /\ Exclusive /\ [Next]_vars => Exclusive' BY ExclusiveStep
<1> QED BY <1>1, InitExclusive, InvHolds, PTL DEF Spec

\* No version is ever built by two slaves of an ABI at a time, whatever
\* messages are lost or delayed and whichever slaves leave and come back, if
\* exclusions last for the build and the master for all of them (handle_build,
\* do_idle).
THEOREM NoDuplicates ==
  ASSUME Punctual, "restart" \notin Faults
  PROVE  Spec => []NoDuplicateBuilds
<1>1. Inv /\ Exclusive => NoDuplicateBuilds
  <2> SUFFICES ASSUME Inv, Exclusive, NEW s \in Slaves, NEW t \in Slaves, NEW b \in Builds,
                      Abi[s] = Abi[t], Holds(s, b), Holds(t, b)
               PROVE  s = t
    BY DEF NoDuplicateBuilds
  <2>1. ASSUME NEW u \in Slaves, Holds(u, b)
        PROVE  conn[u] \in Conns /\ conn[u][1] = u /\ Working(conn[u], b)
    <3>1. conn[u] # NoConn
      BY <2>1 DEF Holds, Inv, SessionsAgree, SessionAgrees
    <3> QED BY <2>1, <3>1 DEF Holds, Working, Has, Inv, TypeOK, WireTypeOK
  <2> QED BY <2>1 DEF Exclusive, OneWorker, AbiOf
<1> QED BY <1>1, InvHolds, ExclusiveHolds, PTL

-----------------------------------------------------------------------------
\* Removals.

\* A version that is to be dropped by all is not queued, and a queue that is
\* under way and has it meets an exclusion.
RemovedAreNotQueued ==
  /\ removal # NoRemoval =>
       \A b \in Builds : Covers(removal.key, b) => versions[b] # "live"
  /\ \A a \in Abis : \A b \in Builds : Dropped(b) =>
       /\ b \notin queues[a]
       /\ inbox # NoQueue /\ b \in inbox[a] =>
            \E k \in {b, <<b[1], NoVer>>} : excluded[a][k] \in {"build", "delete"}

Removed == RemovedAreNotQueued /\ RemovedBuildsAreSkipped

\* A version and its package are the keys that cover it.
LEMMA Coverage ==
  ASSUME NEW b \in Builds
  PROVE  /\ \A k \in Keys : Covers(k, b) <=> k \in {b, <<b[1], NoVer>>}
         /\ b \in Keys /\ <<b[1], NoVer>> \in Keys
<1>1. b = <<b[1], b[2]>> /\ b[1] \in Pkgs /\ b[2] \in Vers BY DEF Builds
<1>2. \A k \in Keys : k = <<k[1], k[2]>> BY DEF Keys
<1> QED BY <1>1, <1>2 DEF Covers, Keys

\* A step that marks no removal as dropped, and hands out nothing, keeps what
\* was skipped.
LEMMA StillSkipped ==
  ASSUME RemovedBuildsAreSkipped, \A b \in Builds : Dropped(b)' => Dropped(b),
         \A c \in known', b \in Builds : reply'[c] = Build(b) =>
           c \in known /\ reply[c] = Build(b) /\ (c \in skipped => c \in skipped')
  PROVE  RemovedBuildsAreSkipped'
BY DEF RemovedBuildsAreSkipped

LEMMA StillNotQueued ==
  ASSUME RemovedAreNotQueued, UNCHANGED excluded, \A b \in Builds : Dropped(b)' => Dropped(b),
         UNCHANGED inbox \/ inbox' = NoQueue,
         \A a \in Abis : queues'[a] \subseteq queues[a],
         removal' # NoRemoval => removal' = removal /\ UNCHANGED versions
  PROVE  RemovedAreNotQueued'
BY DEF RemovedAreNotQueued

\* The driver logs attempts, and leaves the versions to CloudGazer.
LEMMA DriverVersions ==
  ASSUME NEW c \in Conns, DriverStep(c)
  PROVE  HandleSlave(c) /\ UNCHANGED <<slaveVars, removal, faults, versions>>
<1>1. HandleSlave(c) /\ UNCHANGED <<slaveVars, removal, faults>> BY DEF DriverStep
<1>2. CASE IgnoreUnknown(c) \/ DoHello(c) \/ DoBye(c) \/ DoIdle(c) \/ DoBusy(c)
  BY <1>1, <1>2 DEF IgnoreUnknown, DoHello, DoBye, DoIdle, DoBusy, dbVars
<1>3. CASE DoBuilt(c)
  BY <1>1, <1>3 DEF DoBuilt, BuiltDie, BuiltSkipped, BuiltSend, BuiltLog, Log, LogBuild, dbVars
<1>4. CASE DoSent(c)
  BY <1>1, <1>4 DEF DoSent, SentDie, SentCorrupt, SentNext, SentLast, Log, LogBuild, dbVars
<1> QED BY <1>1, <1>2, <1>3, <1>4 DEF HandleSlave

LEMMA RemovedDriverStep ==
  ASSUME Inv, Removed, NEW c \in Conns, DriverStep(c)
  PROVE  Removed'
<1> USE DEF Inv, TypeOK, Removed
<1>0. HandleSlave(c) /\ UNCHANGED <<slaveVars, removal, faults, versions>>
  BY DriverVersions
<1>1. \A b \in Builds : Dropped(b)' <=> Dropped(b) BY <1>0 DEF Dropped
<1>p. \A k \in {"ACK", "SLEEP", "CONT", "DONE", "DIE"} : Plain(k) \in Replies /\ Plain(k).msg = k
  BY Makes, Messages
<1>2. CASE IdleBuild(c)
  <2>1. PICK b \in Builds :
          /\ b \in queues[AbiOf(c)] /\ excluded[AbiOf(c)][b] = "no"
          /\ Respond(c, Build(b))
          /\ queues' = [queues EXCEPT ![AbiOf(c)] = {o \in @ : Released[o] > Released[b]}]
          /\ excluded' = [excluded EXCEPT ![AbiOf(c)][b] = "build"]
          /\ UNCHANGED <<known, build, job, inbox, removal, dbVars, slaveVars>>
    BY <1>2, HandsOut
  <2>2. AbiOf(c) \in Abis BY ProtocolAssumption DEF AbiOf, Conns
  <2>3. ~Dropped(b) BY <2>1, <2>2 DEF RemovedAreNotQueued
  <2>4. RemovedAreNotQueued'
    <3>1. \A a \in Abis : queues'[a] \subseteq queues[a]
      BY <2>1, <2>2 DEF DriverTypeOK
    <3>2. \A a \in Abis, k \in Keys : excluded[a][k] \in {"build", "delete"} =>
            excluded'[a][k] \in {"build", "delete"}
      BY <2>1, <2>2 DEF DriverTypeOK
    <3>3. \A o \in Builds : o \in Keys /\ <<o[1], NoVer>> \in Keys BY Coverage
    <3> QED BY <1>0, <1>1, <2>1, <3>1, <3>2, <3>3 DEF RemovedAreNotQueued
  <2>5. RemovedBuildsAreSkipped'
    <3>1. /\ \A d \in Conns \ {c} : reply'[d] = reply[d]
          /\ reply'[c] = Build(b) /\ skipped' = skipped
          /\ \A o \in Builds : Build(o) = Build(b) => o = b
      BY <2>1, Responds, Makes, Messages
    <3> QED BY <1>1, <2>1, <2>3, <3>1 DEF RemovedBuildsAreSkipped, DriverTypeOK
  <2> QED BY <2>4, <2>5
<1>3. CASE ~IdleBuild(c)
  <2>1. RemovedAreNotQueued'
    BY <1>0, <1>1, <1>3, DriverQueues, StillNotQueued
  <2> SUFFICES RemovedBuildsAreSkipped'
    BY <2>1
  <2>2. ASSUME NEW m \in Replies, Respond(c, m), m.msg # "BUILD",
               known' = known \/ m.msg # "CONT", known' \subseteq known \cup {c}
        PROVE  RemovedBuildsAreSkipped'
    <3>1. ASSUME NEW d \in known', NEW b \in Builds, reply'[d] = Build(b)
          PROVE  d \in known /\ reply[d] = Build(b) /\ (d \in skipped => d \in skipped')
      <4>1. d \in Conns BY <2>2 DEF DriverTypeOK
      <4>2. CASE d = c
        BY <2>2, <3>1, <4>2, Responds, Messages
      <4>3. CASE d # c
        BY <2>2, <3>1, <4>1, <4>3, Responds DEF Respond
      <4> QED BY <4>2, <4>3
    <3> QED BY <1>1, <3>1, StillSkipped
  <2>3. ASSUME \A d \in known' : d \in known /\ reply'[d] = reply[d] /\
                                 (d \in skipped => d \in skipped')
        PROVE  RemovedBuildsAreSkipped'
    BY <1>1, <2>3, StillSkipped
  <2>4. CASE IgnoreUnknown(c) BY <2>3, <2>4 DEF IgnoreUnknown, driverVars
  <2>5. CASE DoHello(c)
    BY <2>2, <2>5, Makes, Messages DEF DoHello
  <2>6. CASE DoBye(c)
    BY <2>3, <2>6 DEF DoBye, Forget, DriverTypeOK
  <2>7. CASE DoIdle(c)
    BY <1>3, <2>2, <2>7, Makes, Messages DEF DoIdle, IdleDie, IdleSleep
  <2>8. CASE DoBusy(c)
    BY <2>2, <2>8, Makes, Messages DEF DoBusy
  <2>9. ASSUME NEW o, NEW outcome, NEW pages, Log(c, o, outcome, pages), UNCHANGED known
        PROVE  RemovedBuildsAreSkipped'
    BY <2>3, <2>9 DEF Log
  <2>10. CASE DoBuilt(c)
    <3>1. CASE BuiltDie(c) \/ BuiltSkipped(c)
      BY <2>2, <2>10, <3>1, Makes, Messages DEF DoBuilt, BuiltDie, BuiltSkipped
    <3>2. CASE BuiltSend(c)
      <4>1. wire[c].files \in 1..MaxFiles
        BY <3>2, Kinds, ProtocolAssumption DEF BuiltSend, Asks, Fields, WireTypeOK
      <4> QED BY <2>2, <2>10, <3>2, <4>1, Makes, Messages DEF DoBuilt, BuiltSend, AskFor
    <3>3. CASE BuiltLog(c) BY <2>9, <2>10, <3>3 DEF DoBuilt, BuiltLog
    <3> QED BY <2>10, <3>1, <3>2, <3>3 DEF DoBuilt
  <2>11. CASE DoSent(c)
    <3>1. CASE SentDie(c)
      BY <2>2, <2>11, <3>1, Makes, Messages DEF DoSent, SentDie
    <3>2. CASE SentCorrupt(c) \/ SentNext(c)
      <4>1. build[c] \in BuildStates
        BY <3>2 DEF SentCorrupt, SentNext, Verified, Asks, SessionsAgree, DriverTypeOK
      <4>2. PICK n \in 1..MaxFiles : Respond(c, Send(n))
        BY <3>2, <4>1, ProtocolAssumption DEF SentCorrupt, SentNext, AskFor, BuildStates
      <4> QED BY <2>2, <2>11, <4>2, Makes, Messages DEF DoSent
    <3>3. CASE SentLast(c) BY <2>9, <2>11, <3>3 DEF DoSent, SentLast
    <3> QED BY <2>11, <3>1, <3>2, <3>3 DEF DoSent
  <2> QED BY <1>0, <2>4, <2>5, <2>6, <2>7, <2>8, <2>10, <2>11 DEF HandleSlave
<1> QED BY <1>2, <1>3

LEMMA RemovedStep ==
  ASSUME Inv, Removed, [Next]_vars, Punctual, "WAKE" \notin Controls
  PROVE  Removed'
<1> USE DEF Inv, TypeOK, Removed
<1>1. ASSUME UNCHANGED <<known, reply, versions, removal>>, skipped \subseteq skipped'
      PROVE  /\ \A b \in Builds : Dropped(b)' <=> Dropped(b)
             /\ RemovedBuildsAreSkipped'
  BY <1>1 DEF Dropped, RemovedBuildsAreSkipped
<1>2. ASSUME UNCHANGED <<known, reply, skipped, versions, removal, excluded, queues, inbox>>
      PROVE  Removed'
  BY <1>1, <1>2 DEF RemovedAreNotQueued
<1>3. ASSUME NEW c \in Conns, DriverStep(c) PROVE Removed'
  BY <1>3, RemovedDriverStep
<1>4. ASSUME NEW c \in Conns, Expire(c) PROVE Removed'
  <2>1. \A b \in Builds : Dropped(b)' <=> Dropped(b)
    BY <1>4 DEF Expire, RemoveExpired, Dropped, dbVars
  <2>2. RemovedBuildsAreSkipped'
    BY <1>4, <2>1 DEF Expire, RemoveExpired, Forget, RemovedBuildsAreSkipped, DriverTypeOK
  <2>3. RemovedAreNotQueued'
    BY <1>4, <2>1, StillNotQueued DEF Expire, RemoveExpired, dbVars
  <2> QED BY <2>2, <2>3
<1>5. ASSUME NEW c \in Conns, LoseMessage(c) PROVE Removed'
  BY <1>2, <1>5 DEF LoseMessage, driverVars, dbVars
<1>6. ASSUME NEW s \in Slaves,
             SlaveStep(s) \/ BuilderStep(s) \/ TransferStep(s) \/ GiveUp(s) \/ SlaveExit(s)
      PROVE  Removed'
  BY <1>2, <1>6 DEF SlaveStep, BuilderStep, TransferStep, GiveUp, SlaveExit, driverVars, dbVars
<1>7. CASE AnnounceStep
  <2>1. job.conn \in Conns /\ Respond(job.conn, Plain("DONE"))
        /\ UNCHANGED <<known, queues, excluded, inbox, dbVars, removal>>
    BY <1>7 DEF AnnounceStep, Announce, DriverTypeOK
  <2>2. \A b \in Builds : Dropped(b)' <=> Dropped(b) BY <2>1 DEF Dropped, dbVars
  <2>3. /\ \A d \in Conns \ {job.conn} : reply'[d] = reply[d]
        /\ \A b \in Builds : reply'[job.conn] # Build(b)
        /\ skipped' = skipped \ {job.conn}
    BY <2>1, Responds, Makes, Messages DEF Respond
  <2>4. RemovedBuildsAreSkipped'
    BY <2>1, <2>2, <2>3 DEF RemovedBuildsAreSkipped, DriverTypeOK
  <2>5. RemovedAreNotQueued' BY <2>1, <2>2, StillNotQueued DEF dbVars
  <2> QED BY <2>4, <2>5
<1>8. CASE Schedule
  <2>1. UNCHANGED <<known, reply, skipped, versions, removal, excluded, queues>>
    BY <1>8 DEF Schedule, dbVars
  <2>2. \A a \in Abis, b \in Builds : b \in inbox'[a] => versions[b] = "live"
    BY <1>8 DEF Schedule, BuildsPending
  <2>3. \A b \in Builds : Dropped(b) => versions[b] # "live"
    BY DEF Dropped, RemovedAreNotQueued
  <2> QED BY <1>1, <2>1, <2>2, <2>3 DEF RemovedAreNotQueued
<1>9. CASE ScheduledBuild
  <2>1. UNCHANGED <<known, reply, skipped, versions, removal>> /\ inbox' = NoQueue
        /\ inbox # NoQueue
    BY <1>9 DEF ScheduledBuild, HandleBuild, dbVars
  <2>2. \A a \in Abis, b \in Builds : b \in queues'[a] =>
          b \in inbox[a] /\ \A k \in {b, <<b[1], NoVer>>} : excluded[a][k] \in {"no", "lapsed"}
    BY <1>9 DEF ScheduledBuild, HandleBuild
  <2>3. \A a \in Abis, b \in Builds : Dropped(b) => b \notin queues'[a]
    BY <2>1, <2>2 DEF RemovedAreNotQueued
  <2> QED BY <1>1, <2>1, <2>3 DEF RemovedAreNotQueued
<1>10. ASSUME NEW a \in Abis, NEW k \in Keys, Lapse(a, k) PROVE Removed'
  <2>1. UNCHANGED <<known, reply, skipped, versions, removal, queues, inbox>>
        /\ excluded' = [excluded EXCEPT ![a][k] = "lapsed"]
    BY <1>10 DEF Lapse, dbVars
  <2>2. \A b \in Builds : Covers(k, b) /\ inbox # NoQueue => b \notin inbox[a]
    BY <1>10 DEF Lapse
  <2>3. ASSUME NEW o \in Abis, NEW b \in Builds, Dropped(b), inbox # NoQueue, b \in inbox[o]
        PROVE  \E h \in {b, <<b[1], NoVer>>} : excluded'[o][h] \in {"build", "delete"}
    <3>1. PICK h \in {b, <<b[1], NoVer>>} : excluded[o][h] \in {"build", "delete"}
      BY <2>3 DEF RemovedAreNotQueued
    <3>2. h \in Keys /\ Covers(h, b) BY Coverage, ZenonT(60)
    <3>3. ~(o = a /\ h = k) BY <2>2, <2>3, <3>2
    <3> QED BY <2>1, <3>1, <3>2, <3>3 DEF DriverTypeOK
  <2> QED BY <1>1, <2>1, <2>3 DEF RemovedAreNotQueued
\* CloudGazer marks the versions before anybody drops them ...
<1>11. ASSUME NEW k \in Removals, StartRemoval(k) PROVE Removed'
  <2>1. /\ UNCHANGED <<known, reply, skipped, excluded, queues, inbox>>
        /\ removal = NoRemoval /\ removal' = [key |-> k, acked |-> FALSE]
        /\ versions' = [b \in Builds |-> IF Covers(k, b) /\ versions[b] = "live"
                                         THEN "skipped" ELSE versions[b]]
    BY <1>11 DEF StartRemoval, SkipVersions, driverVars
  <2>2. \A b \in Builds : Dropped(b)' => Dropped(b)
    BY <2>1 DEF Dropped
  <2>3. \A b \in Builds : Covers(k, b) => versions'[b] # "live"
    BY <2>1 DEF DbTypeOK
  <2>4. RemovedAreNotQueued' BY <2>1, <2>2, <2>3 DEF RemovedAreNotQueued
  <2> QED BY <2>1, <2>2, <2>4, StillSkipped
\* ... has them dropped ...
<1>12. CASE DropRemoved
  <2>1. PICK k \in Keys : k = removal.key /\ removal # NoRemoval
    BY <1>12 DEF DropRemoved
  <2>2. /\ UNCHANGED <<known, reply, versions, inbox>>
        /\ removal' # NoRemoval /\ removal'.key = k /\ removal'.acked
        /\ excluded' = [a \in Abis |-> [excluded[a] EXCEPT ![k] = "delete"]]
        /\ queues' = [a \in Abis |-> {b \in queues[a] : ~Covers(k, b)}]
        /\ skipped' = skipped \cup Building(k)
    <3>1. HandleDelete(k) BY <1>12, <2>1 DEF DropRemoved
    <3>2. removal' \in [key : Keys, acked : BOOLEAN] /\ removal'.key = k /\ removal'.acked
      BY <1>12, <2>1 DEF DropRemoved
    <3> QED BY <3>1, <3>2, FarmAssumption DEF HandleDelete, dbVars
  <2>3. \A b \in Builds : Dropped(b)' => Dropped(b) \/ Covers(k, b)
    BY <2>1, <2>2 DEF Dropped
  <2>4. RemovedBuildsAreSkipped'
    <3> SUFFICES ASSUME NEW c \in known, NEW b \in Builds, reply[c] = Build(b), Dropped(b)'
                 PROVE  c \in skipped'
      BY <2>2 DEF RemovedBuildsAreSkipped
    <3>1. CASE Dropped(b) BY <2>2, <3>1 DEF RemovedBuildsAreSkipped
    <3>2. CASE Covers(k, b) BY <2>2, <3>2, Messages DEF Building
    <3> QED BY <2>3, <3>1, <3>2
  <2>5. ASSUME NEW a \in Abis, NEW b \in Builds, Dropped(b)'
        PROVE  /\ b \notin queues'[a]
               /\ inbox # NoQueue /\ b \in inbox[a] =>
                    \E h \in {b, <<b[1], NoVer>>} : excluded'[a][h] \in {"build", "delete"}
    <3>1. CASE Covers(k, b)
      <4>1. k \in {b, <<b[1], NoVer>>} BY <3>1, Coverage
      <4>2. excluded'[a][k] = "delete" BY <2>2 DEF DriverTypeOK
      <4> QED BY <2>2, <3>1, <4>1, <4>2
    <3>2. CASE Dropped(b)
      <4>1. \A h \in Keys : excluded[a][h] \in {"build", "delete"} =>
                            excluded'[a][h] \in {"build", "delete"}
        BY <2>2 DEF DriverTypeOK
      <4> QED BY <2>2, <3>2, <4>1, Coverage DEF RemovedAreNotQueued
    <3> QED BY <2>3, <2>5, <3>1, <3>2
  <2>6. \A b \in Builds : Covers(k, b) => versions[b] # "live"
    BY <2>1 DEF RemovedAreNotQueued
  <2>7. RemovedAreNotQueued' BY <2>2, <2>5, <2>6 DEF RemovedAreNotQueued
  <2> QED BY <2>4, <2>7
\* ... and then deletes them, which changes nothing for the driver.
<1>13. CASE FinishRemoval
  <2>1. /\ UNCHANGED <<known, reply, skipped, excluded, queues, inbox>>
        /\ removal # NoRemoval /\ removal.acked /\ removal' = NoRemoval
        /\ versions' = [b \in Builds |-> IF Covers(removal.key, b) THEN "gone" ELSE versions[b]]
    BY <1>13 DEF FinishRemoval, DeleteVersions, driverVars
  <2>2. \A b \in Builds : Dropped(b)' => Dropped(b) BY <2>1 DEF Dropped
  <2>3. RemovedAreNotQueued' BY <2>1, <2>2 DEF RemovedAreNotQueued
  <2> QED BY <2>1, <2>2, <2>3, StillSkipped
<1>14. ASSUME NEW b \in Builds, AddRemoved(b) PROVE Removed'
  <2>1. /\ UNCHANGED <<known, reply, skipped, excluded, queues, inbox, removal>>
        /\ removal = NoRemoval /\ versions' = [versions EXCEPT ![b] = "live"]
    BY <1>14 DEF AddRemoved, AddVersion, driverVars
  <2>2. \A o \in Builds : Dropped(o)' => Dropped(o) BY <2>1 DEF Dropped, DbTypeOK
  <2>3. RemovedAreNotQueued' BY <2>1, <2>2 DEF RemovedAreNotQueued
  <2> QED BY <2>1, <2>2, <2>3, StillSkipped
<1>15. CASE Operator
  <2>1. PICK op \in Controls : HandleControl(op) BY <1>15 DEF Operator
  <2>2. UNCHANGED <<known, reply, versions, removal, excluded, queues, inbox>>
    BY <1>15, <2>1 DEF Operator, HandleControl, dbVars
  <2>3. skipped \subseteq skipped'
    BY <2>1 DEF HandleControl, Kill, Skip, Sleep
  <2> QED BY <1>1, <2>2, <2>3 DEF RemovedAreNotQueued
<1>16. CASE Crash \/ UNCHANGED vars
  BY <1>2, <1>16 DEF Crash, vars, driverVars, dbVars
\* A master that starts anew has empty queues, and nobody is at work for it.
<1>17. CASE Restart
  <2>1. known' = {} /\ removal' = NoRemoval /\ queues' = NoBuilds /\ inbox' = NoQueue
    BY <1>17 DEF Restart
  <2> QED BY <2>1 DEF RemovedAreNotQueued, RemovedBuildsAreSkipped, NoBuilds
<1> QED BY <1>3, <1>4, <1>5, <1>6, <1>7, <1>8, <1>9, <1>10, <1>11, <1>12, <1>13, <1>14,
           <1>15, <1>16, <1>17 DEF Next, FarmStep, RemovalStep

LEMMA InitRemoved == Init => Removed
<1> SUFFICES ASSUME Init PROVE Removed
  OBVIOUS
<1>1. known = {} /\ removal = NoRemoval /\ queues = NoBuilds /\ inbox = NoQueue
  BY DEF Init, DriverInit
<1> QED BY <1>1 DEF Removed, RemovedAreNotQueued, RemovedBuildsAreSkipped, NoBuilds

\* Once CloudGazer has had a version dropped, every slave that still builds it
\* is marked, and the version is not handed out from any older queue, over
\* crashes of the master, too (handle_delete, handle_build).  Only a WAKE takes
\* the mark off, as it does with that of the operator's own SKIP.
THEOREM RemovalsAreSkipped ==
  ASSUME Punctual, "WAKE" \notin Controls
  PROVE  Spec => []RemovedBuildsAreSkipped
<1>1. Inv /\ Removed /\ [Next]_vars => Removed' BY RemovedStep
<1>2. Removed => RemovedBuildsAreSkipped BY DEF Removed
<1> QED BY <1>1, <1>2, InitRemoved, InvHolds, PTL DEF Spec

-----------------------------------------------------------------------------
\* What becomes of a finished build.

Calm == removal = NoRemoval /\ skipped = {} /\ \A b \in Builds : versions[b] = "live"

\* The driver announces the pages that it has made out of date.
JobPages == IF job.cmd = "BOTH" THEN {"simple", "project"} ELSE {"project"}

PagesAreAnnounced ==
  outdated \subseteq (IF job = NoJob THEN {} ELSE JobPages \X {job.pkg})

\* The driver and the slave mean the same version.
BuilderAgrees(s) ==
  conn[s] # NoConn /\ builder[s] # NoBuilder =>
    /\ builder[s].state # "ok" => builder[s].files = 0
    /\ conn[s] \in known =>
         /\ reply[conn[s]].msg = "BUILD" => reply[conn[s]].build = builder[s].build
         /\ reply[conn[s]].msg = "SEND" => build[conn[s]].build = builder[s].build

\* The slave is released, or is about to be.
Leaving(s) ==
  wire[conn[s]] = Plain("DONE") \/ (job # NoJob /\ job.conn = conn[s])

Finished(s) ==
  /\ builder[s] # NoBuilder /\ builder[s].state # "running"
  /\ Recorded(Abi[s], builder[s].build, builder[s].files)

ResultKept(s) == BuilderAgrees(s) /\ (conn[s] # NoConn /\ Leaving(s) => Finished(s))

Kept == Calm /\ PagesAreAnnounced /\ \A s \in Slaves : ResultKept(s)

-----------------------------------------------------------------------------
\* The rows of the attempts.

\* log_build records the attempt that it is called for ...
LEMMA LogRecords ==
  ASSUME DbTypeOK, NEW a \in Abis, NEW b \in Builds, NEW outcome \in {"bare", "wheel"},
         LogBuild(a, b, outcome),
         NEW n \in Nat, n = 0 <=> outcome = "bare"
  PROVE  Recorded(a, b, n)'
<1>1. outcome \in logged'[a][b] BY DEF LogBuild, DbTypeOK
<1>2. a \in SameFile(a, b) BY DEF SameFile
<1> QED BY <1>1, <1>2 DEF Recorded, SameFile

\* ... and takes no other attempt out of the database.
LEMMA RecordLasts ==
  ASSUME DbTypeOK, NEW o \in Abis, NEW d \in Builds, NEW outcome \in {"bare", "wheel"},
         LogBuild(o, d, outcome),
         NEW a \in Abis, NEW b \in Builds, NEW n, Recorded(a, b, n)
  PROVE  Recorded(a, b, n)'
<1>0. /\ \A x \in Abis, y \in Builds \ {d} : logged'[x][y] = logged[x][y]
      /\ \A x \in Abis : logged'[x][d] =
           (IF outcome = "wheel" /\ "wheel" \in logged[x][d] /\ x \in SameFile(o, d)
            THEN {"bare"} ELSE logged[x][d]) \cup (IF x = o THEN {outcome} ELSE {})
  BY DEF LogBuild, DbTypeOK
<1>1. CASE n = 0
  BY <1>0, <1>1 DEF Recorded
<1>2. CASE n # 0 /\ b # d
  BY <1>0, <1>2 DEF Recorded, SameFile
<1>3. CASE n # 0 /\ b = d
  <2>1. logged'[a][b] # {} BY <1>0, <1>3 DEF Recorded
  <2>2. PICK x \in SameFile(a, b) : "wheel" \in logged[x][b] BY <1>3 DEF Recorded
  <2>3. x \in Abis BY <2>2 DEF SameFile
  \* Another wheel of that name is the one that replaces it.
  <2>4. CASE outcome = "wheel" /\ x \in SameFile(o, d)
    <3>1. o \in SameFile(a, b) BY <1>3, <2>2, <2>4 DEF SameFile
    <3>2. "wheel" \in logged'[o][b] BY <1>0, <1>3, <2>4
    <3> QED BY <1>3, <2>1, <3>1, <3>2 DEF Recorded, SameFile
  <2>5. CASE ~(outcome = "wheel" /\ x \in SameFile(o, d))
    <3>1. "wheel" \in logged'[x][b] BY <1>0, <1>3, <2>2, <2>3, <2>5
    <3> QED BY <1>3, <2>1, <2>2, <3>1 DEF Recorded, SameFile
  <2> QED BY <2>4, <2>5
<1> QED BY <1>1, <1>2, <1>3

-----------------------------------------------------------------------------
\* Nothing is skipped where nothing is removed.
LEMMA CalmStep ==
  ASSUME Inv, Calm, [Next]_vars,
         Removals = {}, "SKIP" \notin Controls
  PROVE  Calm'
<1> USE DEF Inv, TypeOK, Calm
<1>1. CASE UNCHANGED <<removal, skipped, versions>> BY <1>1
<1>2. ASSUME NEW c \in Conns, DriverStep(c) PROVE Calm'
  <2>1. versions' = versions /\ removal' = removal
    BY <1>2, DriverVersions
  <2>2. skipped' \subseteq skipped
    BY <1>2 DEF DriverStep, HandleSlave, IgnoreUnknown, DoHello, DoBye, Forget, DoIdle, IdleDie,
       IdleSleep, IdleBuild, DoBusy, DoBuilt, BuiltDie, BuiltSkipped, BuiltSend, BuiltLog, Log,
       DoSent, SentDie, SentCorrupt, SentNext, SentLast, AskFor, Respond, driverVars
  <2> QED BY <2>1, <2>2
<1>3. ASSUME NEW c \in Conns, Expire(c) PROVE Calm'
  BY <1>3 DEF Expire, RemoveExpired, Forget, dbVars
<1>4. ASSUME NEW c \in Conns, LoseMessage(c) PROVE Calm'
  BY <1>4 DEF LoseMessage, driverVars, dbVars
<1>5. ASSUME NEW s \in Slaves,
             SlaveStep(s) \/ BuilderStep(s) \/ TransferStep(s) \/ GiveUp(s) \/ SlaveExit(s)
      PROVE  Calm'
  BY <1>5 DEF SlaveStep, BuilderStep, TransferStep, GiveUp, SlaveExit, driverVars, dbVars
<1>6. CASE AnnounceStep
  BY <1>6 DEF AnnounceStep, Announce, Respond, dbVars
<1>7. CASE Schedule \/ ScheduledBuild
  BY <1>7 DEF Schedule, ScheduledBuild, HandleBuild, dbVars
<1>8. ASSUME NEW a \in Abis, NEW k \in Keys, Lapse(a, k) PROVE Calm'
  BY <1>8 DEF Lapse, dbVars
<1>9. ASSUME NEW b \in Builds, AddRemoved(b) PROVE FALSE
  BY <1>9 DEF AddRemoved, AddVersion
<1>10. ~DropRemoved /\ ~FinishRemoval BY DEF DropRemoved, FinishRemoval
<1>11. CASE Operator
  <2>1. PICK op \in Controls : HandleControl(op) BY <1>11 DEF Operator
  <2> QED BY <1>11, <2>1 DEF Operator, HandleControl, Kill, Sleep, Wake, dbVars
<1>12. CASE Crash \/ Restart
  BY <1>12 DEF Crash, Restart, dbVars
<1>13. CASE UNCHANGED vars
  BY <1>13 DEF vars, driverVars, dbVars
<1> QED BY <1>2, <1>3, <1>4, <1>5, <1>6, <1>7, <1>8, <1>9, <1>10, <1>11, <1>12, <1>13 DEF Next, FarmStep, RemovalStep

-----------------------------------------------------------------------------
\* A session that a step does not concern keeps its result.
LEMMA KeptElsewhere ==
  ASSUME NEW s \in Slaves, ResultKept(s), conn'[s] = conn[s], builder'[s] = builder[s],
         builder[s] # NoBuilder =>
           LET b == builder[s] IN
           Recorded(Abi[s], b.build, b.files) => Recorded(Abi[s], b.build, b.files)',
         conn[s] # NoConn =>
           /\ wire'[conn[s]] = Plain("DONE") => wire[conn[s]] = Plain("DONE")
           /\ conn[s] \in known' =>
                /\ conn[s] \in known
                /\ reply'[conn[s]] = reply[conn[s]] /\ build'[conn[s]] = build[conn[s]]
           /\ job' # NoJob /\ job'.conn = conn[s] => job # NoJob /\ job.conn = conn[s]
  PROVE  ResultKept(s)'
<1>1. BuilderAgrees(s)' BY DEF ResultKept, BuilderAgrees
<1>2. conn'[s] # NoConn /\ Leaving(s)' => Finished(s)'
  <2> SUFFICES ASSUME conn'[s] # NoConn, Leaving(s)' PROVE Finished(s)'
    OBVIOUS
  <2>1. Finished(s) BY DEF ResultKept, Leaving
  <2>2. Recorded(Abi[s], builder[s].build, builder[s].files)' BY <2>1 DEF Finished
  <2> QED BY <2>1, <2>2 DEF Finished, Recorded
<1> QED BY <1>1, <1>2 DEF ResultKept

\* What a slave does by itself: it starts what it is told to build, and throws
\* it away when it is released or the session ends.
LEMMA SlaveKeeps ==
  ASSUME Inv, NEW s \in Slaves, ResultKept(s), UNCHANGED <<known, reply, build, job, dbVars>>,
         \/ Receive(s) \/ Transferred(s) \/ PowerLoss(s) \/ SigTerm(s) \/ MasterTimeout(s)
         \/ \E ok \in BOOLEAN, n \in 0..MaxFiles : BuildEnds(s, ok, n)
         \/ \E c \in Conns : c \notin known /\ Connect(s, c)
  PROVE  ResultKept(s)'
<1> USE DEF Inv, TypeOK
<1>0. /\ conn[s] # NoConn => conn[s] \in Conns /\ wire[conn[s]] \in Requests \cup Replies \cup {Quiet}
      /\ SessionAgrees(s)
  BY DEF WireTypeOK, SessionsAgree
<1>1. /\ \A k \in {"HELLO", "IDLE", "BUSY", "SENT", "BYE", "none"} : Plain(k) # Plain("DONE")
      /\ \A ok, n : Built(ok, n) # Plain("DONE")
  BY Messages
<1>2. \A a, b, n : Recorded(a, b, n)' = Recorded(a, b, n)
  BY DEF Recorded, dbVars
<1>3. ASSUME NEW m, m # Plain("DONE"), Put(conn[s], m), UNCHANGED conn,
             conn[s] # NoConn, builder'[s] = builder[s]
      PROVE  ResultKept(s)'
  BY <1>0, <1>2, <1>3, KeptElsewhere DEF Put, WireTypeOK
<1>4. CASE DoAck(s) \/ DoSleep(s) \/ DoCont(s)
  BY <1>1, <1>3, <1>4 DEF DoAck, DoSleep, DoCont, Ask, Gets
<1>5. CASE DoSend(s)
  BY <1>1, <1>3, <1>5 DEF DoSend, Gets, Quiet
<1>6. CASE Transferred(s)
  BY <1>0, <1>1, <1>3, <1>6 DEF Transferred, Ask, SessionAgrees
<1>7. ASSUME conn'[s] = NoConn \/ builder'[s] = NoBuilder, conn'[s] # NoConn => ~Leaving(s)'
      PROVE  ResultKept(s)'
  BY <1>7 DEF ResultKept, BuilderAgrees
<1>8. CASE DoDie(s) \/ SigTerm(s) \/ PowerLoss(s) \/ MasterTimeout(s)
  BY <1>7, <1>8 DEF DoDie, SigTerm, PowerLoss, MasterTimeout, Exit, Close, WireTypeOK
<1>9. CASE DoDone(s)
  <2>1. wire[conn[s]].msg = "DONE" /\ conn[s] # NoConn BY <1>9 DEF DoDone, Gets
  <2>2. ~(job # NoJob /\ job.conn = conn[s])
    BY <1>0, <2>1 DEF SessionAgrees, JobFits
  <2> QED BY <1>0, <1>1, <1>7, <1>9, <2>1, <2>2
      DEF DoDone, Ask, Put, SetBuilder, Leaving, WireTypeOK, SlaveTypeOK
<1>10. ASSUME NEW c \in Conns, c \notin known, Connect(s, c) PROVE ResultKept(s)'
  <2>1. builder'[s] = NoBuilder /\ conn'[s] = c /\ wire'[c] = Plain("HELLO")
    BY <1>0, <1>10 DEF Connect, Put, SessionAgrees, WireTypeOK
  <2>2. ~(job # NoJob /\ job.conn = c) BY <1>10 DEF SessionsAgree
  <2> QED BY <1>1, <1>7, <2>1, <2>2 DEF Leaving
<1>11. CASE DoBuild(s)
  <2>1. conn[s] # NoConn /\ wire[conn[s]].msg = "BUILD" BY <1>11 DEF DoBuild, Gets
  <2>2. wire[conn[s]] \in Replies BY <1>0, <2>1, Kinds
  <2>3. conn[s] \in known => reply[conn[s]] = wire[conn[s]]
    BY <1>0, <2>1, <2>2 DEF SessionAgrees, DriverFits
  <2>4. ~(job # NoJob /\ job.conn = conn[s])
    BY <1>0, <2>1 DEF SessionAgrees, JobFits
  <2>5. /\ builder'[s] = [build |-> wire[conn[s]].build, state |-> "running", files |-> 0]
        /\ conn' = conn /\ wire'[conn[s]] = Plain("BUSY")
    BY <1>0, <1>11, <2>1 DEF DoBuild, SetBuilder, Ask, Put, SlaveTypeOK, WireTypeOK
  <2>6. BuilderAgrees(s)' BY <2>1, <2>3, <2>5 DEF BuilderAgrees
  <2>7. ~Leaving(s)' BY <1>1, <2>4, <2>5 DEF Leaving
  <2> QED BY <2>6, <2>7 DEF ResultKept
\* A build that ends was running, so nobody releases the slave yet.
<1>12. ASSUME NEW ok \in BOOLEAN, NEW n \in 0..MaxFiles, BuildEnds(s, ok, n)
       PROVE  ResultKept(s)'
  <2>1. /\ builder[s] \in BuilderStates /\ builder[s].state = "running" /\ builder[s] # NoBuilder
        /\ builder'[s] = [builder[s] EXCEPT !.state = IF ok THEN "ok" ELSE "failed", !.files = n]
        /\ n > 0 => ok
        /\ UNCHANGED <<wire, conn>>
    BY <1>12 DEF BuildEnds, SetBuilder, SlaveTypeOK
  <2>2. /\ builder'[s].build = builder[s].build /\ builder'[s].files = n
        /\ builder'[s].state = IF ok THEN "ok" ELSE "failed"
    BY <2>1 DEF BuilderStates
  <2>3. conn[s] # NoConn => ~Leaving(s) BY <2>1 DEF ResultKept, Finished
  <2>4. conn'[s] # NoConn => ~Leaving(s)' BY <2>1, <2>3 DEF Leaving
  <2>5. BuilderAgrees(s)' BY <2>1, <2>2 DEF ResultKept, BuilderAgrees
  <2> QED BY <2>4, <2>5 DEF ResultKept
<1> QED BY <1>4, <1>5, <1>6, <1>8, <1>9, <1>10, <1>11, <1>12 DEF Receive

\* What the driver does for a slave: it names a version to a slave without a
\* build, sends for the wheels of the version that the slave reported, and
\* logs that version when it has them all.
LEMMA DriverKeeps ==
  ASSUME Inv, Kept, NEW c \in Conns, HandleSlave(c), UNCHANGED slaveVars,
         NEW s \in Slaves
  PROVE  ResultKept(s)'
<1> USE DEF Inv, TypeOK
<1>0. /\ wire[c] \in Requests \cup Replies \cup {Quiet} /\ Fields(wire[c])
      /\ reply[c] \in Replies \cup {Quiet} /\ Fields(reply[c])
      /\ c # NoConn /\ AbiOf(c) \in Abis
      /\ ResultKept(s) /\ Calm
  BY Kinds, FarmAssumption, ProtocolAssumption DEF WireTypeOK, DriverTypeOK, Kept, AbiOf, Conns
<1>1. conn[s] = c => /\ SlaveFits(s, wire[c])
                     /\ c \in known => DriverFits(s, c, wire[c])
  <2>1. SessionAgrees(s) BY DEF SessionsAgree
  <2> QED BY <1>0, <2>1 DEF SessionAgrees
<1>m. /\ \A k \in {"ACK", "SLEEP", "CONT", "DIE", "DONE"} :
           Plain(k) \in Replies /\ Plain(k).msg = k
      /\ Plain("DONE") # Quiet
  BY Makes, Messages
<1>2. ASSUME UNCHANGED logged, conn[s] # c, \A d \in Conns \ {c} : wire'[d] = wire[d]
                                             /\ reply'[d] = reply[d] /\ build'[d] = build[d],
             known' \subseteq known \cup {c}, UNCHANGED job
      PROVE  ResultKept(s)'
  BY <1>0, <1>2, KeptElsewhere DEF slaveVars, WireTypeOK, Recorded
\* An answer that does not release the slave.
<1>3. ASSUME NEW m \in Replies, Respond(c, m), m.msg # "DONE", UNCHANGED <<logged, job>>,
             Ready, known' \subseteq known \cup {c},
             m.msg = "CONT" => known' = known,
             \A d \in Conns \ {c} : build'[d] = build[d],
             m.msg = "CONT" => build' = build,
             conn[s] = c /\ builder[s] # NoBuilder =>
               /\ m.msg # "BUILD"
               /\ m.msg = "SEND" => build'[c].build = builder[s].build
      PROVE  ResultKept(s)'
  <2>1. CASE conn[s] # c BY <1>2, <1>3, <2>1, Responds
  <2>2. CASE conn[s] = c
    <3>1. wire'[c] # Plain("DONE") BY <1>m, <1>3, Responds
    <3>2. ~Leaving(s)' BY <1>3, <2>2, <3>1 DEF Leaving, Ready, slaveVars
    <3>3. BuilderAgrees(s)'
      <4>1. CASE m.msg = "CONT"
        BY <1>0, <1>3, <2>2, <4>1, Responds DEF ResultKept, BuilderAgrees, slaveVars
      <4>2. CASE m.msg # "CONT"
        BY <1>0, <1>3, <2>2, <4>2, Responds DEF ResultKept, BuilderAgrees, slaveVars
      <4> QED BY <4>1, <4>2
    <3> QED BY <3>2, <3>3 DEF ResultKept
  <2> QED BY <2>1, <2>2
\* Nobody is released by do_busy and do_built, as nothing is to be skipped.
<1>4. ~BuiltSkipped(c) /\ c \notin skipped BY <1>0 DEF Calm, BuiltSkipped
<1>5. CASE IgnoreUnknown(c)
  <2>1. wire' = [wire EXCEPT ![c] = Quiet] /\ UNCHANGED <<driverVars, dbVars>>
    BY <1>5 DEF IgnoreUnknown, Put
  <2> QED BY <1>0, <1>m, <2>1, KeptElsewhere
      DEF slaveVars, driverVars, dbVars, WireTypeOK, Recorded
<1>6. CASE DoHello(c)
  BY <1>m, <1>3, <1>6 DEF DoHello, dbVars
<1>7. CASE DoBye(c)
  <2>1. conn[s] # c BY <1>1, <1>7 DEF DoBye, Asks, SlaveFits
  <2> QED BY <1>2, <1>7, <2>1 DEF DoBye, Forget, Put, WireTypeOK, DriverTypeOK, dbVars
<1>8. CASE DoIdle(c)
  <2>1. conn[s] = c => builder[s] = NoBuilder
    BY <1>1, <1>8 DEF DoIdle, IdleDie, IdleSleep, IdleBuild, Asks, SlaveFits
  <2>2. PICK m \in Replies : m.msg \in {"DIE", "SLEEP", "BUILD"} /\ Respond(c, m)
    <3>1. CASE IdleDie(c) \/ IdleSleep(c) BY <1>m, <3>1 DEF IdleDie, IdleSleep
    <3>2. CASE IdleBuild(c)
      <4>1. PICK b \in First(Offered(c)) : Respond(c, Build(b)) BY <3>2 DEF IdleBuild
      <4>2. b \in Builds BY <1>0 DEF First, Offered, DriverTypeOK
      <4> QED BY <4>1, <4>2, Makes, Messages
    <3> QED BY <1>8, <3>1, <3>2 DEF DoIdle
  <2> QED BY <1>3, <1>8, <2>1, <2>2 DEF DoIdle, IdleDie, IdleSleep, IdleBuild, Asks, dbVars
<1>9. CASE DoBusy(c)
  BY <1>m, <1>3, <1>4, <1>9 DEF DoBusy, Asks, dbVars
\* A wheel is asked for: the version is the one that the slave has.
<1>10. ASSUME NEW b \in Builds, NEW n \in 1..MaxFiles, AskFor(c, b, n), Ready,
              UNCHANGED <<known, job, logged>>,
              conn[s] = c /\ builder[s] # NoBuilder => b = builder[s].build
       PROVE  ResultKept(s)'
  <2>1. build' = [build EXCEPT ![c] = [build |-> b, todo |-> n]]
    BY <1>10 DEF AskFor, SetBuild
  <2>2. Send(n) \in Replies /\ Send(n).msg = "SEND" BY Makes, Messages
  <2> QED BY <1>3, <1>10, <2>1, <2>2 DEF AskFor, DriverTypeOK
\* The result is logged: it is what the slave has in hand.
<1>11. ASSUME NEW b \in Builds, NEW outcome \in {"bare", "wheel"}, NEW pages,
              Log(c, b, outcome, pages), Ready, c \in known, UNCHANGED <<known, build>>,
              conn[s] = c =>
                /\ builder[s] # NoBuilder /\ builder[s].state # "running"
                /\ b = builder[s].build
                /\ builder[s].files = 0 <=> outcome = "bare"
       PROVE  ResultKept(s)'
  <2>1. /\ LogBuild(AbiOf(c), b, outcome) /\ UNCHANGED <<wire, reply>>
        /\ job'.conn = c
    BY <1>0, <1>11 DEF Log, CanLog, Calm
  <2>2. CASE conn[s] = c
    <3>1. AbiOf(c) = Abi[s] BY <1>0, <2>2 DEF WireTypeOK, AbiOf
    <3>2. Recorded(Abi[s], builder[s].build, builder[s].files)'
      <4>1. PICK n \in Nat : n = builder[s].files
        BY <1>11, <2>2 DEF SlaveTypeOK, BuilderStates
      <4>2. Recorded(AbiOf(c), b, n)' BY <1>0, <1>11, <2>1, <2>2, <4>1, LogRecords
      <4> QED BY <1>11, <2>2, <3>1, <4>1, <4>2 DEF Recorded, slaveVars
    <3>3. Finished(s)' BY <1>11, <2>2, <3>2 DEF Finished, slaveVars
    <3> QED BY <1>0, <1>11, <2>1, <2>2, <3>3 DEF ResultKept, BuilderAgrees, slaveVars
  <2>3. CASE conn[s] # c
    <3>1. Abi[s] \in Abis BY ProtocolAssumption
    <3>2. ASSUME builder[s] # NoBuilder, Recorded(Abi[s], builder[s].build, builder[s].files)
          PROVE  Recorded(Abi[s], builder[s].build, builder[s].files)'
      <4>1. PICK x \in Builds, n \in Nat : x = builder[s].build /\ n = builder[s].files
        BY <3>2 DEF SlaveTypeOK, BuilderStates
      <4>2. Recorded(Abi[s], x, n) BY <3>2, <4>1
      <4>3. Recorded(Abi[s], x, n)' BY <1>0, <1>11, <2>1, <3>1, <4>2, RecordLasts
      <4> QED BY <4>1, <4>3 DEF Recorded, slaveVars
    <3> QED BY <1>0, <1>11, <2>1, <2>3, <3>2, KeptElsewhere DEF slaveVars, Recorded
  <2> QED BY <2>2, <2>3
<1>12. CASE DoBuilt(c)
  <2>1. CASE BuiltDie(c)
    BY <1>m, <1>3, <1>12, <2>1 DEF DoBuilt, BuiltDie, Asks, SetBuild, DriverTypeOK, dbVars
  <2>2. conn[s] = c /\ c \in known /\ wire[c].msg = "BUILT" /\ reply[c].msg = "BUILD" =>
          /\ builder[s] # NoBuilder /\ builder[s].build = reply[c].build
          /\ builder[s].state = (IF wire[c].status THEN "ok" ELSE "failed")
          /\ builder[s].files = wire[c].files
          /\ builder[s].state # "ok" => builder[s].files = 0
    BY <1>0, <1>1 DEF SlaveFits, ResultKept, BuilderAgrees
  <2>3. CASE BuiltSend(c)
    <3>1. wire[c].files \in 1..MaxFiles /\ reply[c].build \in Builds
      BY <1>0, <2>3 DEF BuiltSend, Asks, Fields
    <3> QED BY <1>10, <1>12, <2>2, <2>3, <3>1 DEF DoBuilt, BuiltSend, Asks, dbVars
  <2>4. CASE BuiltLog(c)
    <3>1. reply[c].build \in Builds /\ wire[c].files \in 0..MaxFiles
      BY <1>0, <2>4 DEF BuiltLog, Asks, Fields
    <3> QED BY <1>11, <1>12, <2>2, <2>4, <3>1, ProtocolAssumption DEF DoBuilt, BuiltLog, Asks
  <2> QED BY <1>4, <1>12, <2>1, <2>3, <2>4 DEF DoBuilt
<1>13. CASE DoSent(c)
  <2>1. CASE SentDie(c)
    BY <1>m, <1>3, <1>13, <2>1 DEF DoSent, SentDie, Asks, dbVars
  <2>2. c \in known /\ reply[c].msg = "SEND" =>
          /\ build[c] \in BuildStates
          /\ conn[s] = c =>
               /\ builder[s] # NoBuilder /\ builder[s].state = "ok"
               /\ build[c].todo <= builder[s].files
               /\ build[c].build = builder[s].build
    BY <1>0, <1>1 DEF SessionsAgree, DriverFits, DriverTypeOK, ResultKept, BuilderAgrees
  <2>3. CASE SentCorrupt(c) \/ SentNext(c)
    <3>1. c \in known /\ reply[c].msg = "SEND" /\ Ready /\ UNCHANGED <<job, logged>>
      BY <2>3 DEF SentCorrupt, SentNext, Verified, Asks, dbVars
    <3>2. PICK n \in 1..MaxFiles : AskFor(c, build[c].build, n)
      BY <2>2, <2>3, <3>1, ProtocolAssumption DEF SentCorrupt, SentNext, BuildStates
    <3>3. build[c].build \in Builds BY <2>2, <3>1 DEF BuildStates
    <3> QED BY <1>10, <1>13, <2>2, <3>1, <3>2, <3>3 DEF DoSent
  <2>4. CASE SentLast(c)
    <3>1. c \in known /\ reply[c].msg = "SEND" /\ Ready /\ UNCHANGED build /\ build[c].todo = 1
          /\ \E pages : Log(c, build[c].build, "wheel", pages)
      BY <2>4 DEF SentLast, Verified, Asks
    <3>2. build[c].build \in Builds BY <2>2, <3>1 DEF BuildStates
    <3>3. conn[s] = c => builder[s].files # 0
      BY <2>2, <3>1 DEF SlaveTypeOK, BuilderStates
    <3> QED BY <1>11, <1>13, <2>2, <3>1, <3>2, <3>3 DEF DoSent
  <2> QED BY <1>13, <2>1, <2>3, <2>4 DEF DoSent
<1> QED BY <1>5, <1>6, <1>7, <1>8, <1>9, <1>12, <1>13 DEF HandleSlave

LEMMA AnnounceKeeps ==
  ASSUME Inv, Kept, AnnounceStep, NEW s \in Slaves
  PROVE  ResultKept(s)'
<1> USE DEF Inv, TypeOK, AnnounceStep, Announce
<1>1. PICK c \in Conns : c = job.conn BY DEF DriverTypeOK
<1>2. Plain("DONE") \in Replies /\ Plain("DONE").msg = "DONE" BY Makes, Messages
<1>3. /\ reply'[c] = Plain("DONE")
      /\ \A d \in Conns \ {c} : wire'[d] = wire[d] /\ reply'[d] = reply[d]
                               /\ build'[d] = build[d]
  BY <1>1, <1>2, Responds DEF SetBuild, DriverTypeOK
<1>4. ResultKept(s) BY DEF Kept
<1>5. CASE conn[s] = c
  <2>1. Finished(s)
    BY <1>1, <1>4, <1>5, FarmAssumption DEF ResultKept, Leaving
  <2>2. Finished(s)' BY <2>1 DEF Finished, Recorded, slaveVars, dbVars
  <2>3. BuilderAgrees(s)'
    BY <1>2, <1>3, <1>4, <1>5, FarmAssumption DEF ResultKept, BuilderAgrees, slaveVars
  <2> QED BY <2>2, <2>3 DEF ResultKept
<1>6. CASE conn[s] # c
  BY <1>3, <1>4, <1>6, KeptElsewhere DEF WireTypeOK, Recorded, slaveVars, dbVars
<1> QED BY <1>5, <1>6

\* A slave's own steps are nothing to the others.
LEMMA SlaveStepKeeps ==
  ASSUME Inv, Kept, NEW t \in Slaves, NEW s \in Slaves,
         SlaveStep(t) \/ BuilderStep(t) \/ TransferStep(t) \/ GiveUp(t) \/ SlaveExit(t)
  PROVE  ResultKept(s)'
<1> USE DEF Inv, TypeOK
<1>0. UNCHANGED <<known, reply, build, job, dbVars>>
  BY DEF SlaveStep, BuilderStep, TransferStep, GiveUp, SlaveExit, driverVars
<1>2. ResultKept(s) BY DEF Kept
<1>5. CASE UNCHANGED <<slaveVars, wire>>
  BY <1>0, <1>2, <1>5, KeptElsewhere DEF WireTypeOK, Recorded, slaveVars, dbVars
<1>6. SUFFICES ASSUME ~UNCHANGED <<slaveVars, wire>> PROVE ResultKept(s)' BY <1>5
<1>1. /\ UNCHANGED <<known, reply, build, job, dbVars>>
      /\ \/ Receive(t) \/ Transferred(t) \/ PowerLoss(t) \/ SigTerm(t) \/ MasterTimeout(t)
         \/ \E ok \in BOOLEAN, n \in 0..MaxFiles : BuildEnds(t, ok, n)
         \/ \E c \in Conns : c \notin known /\ Connect(t, c)
  BY <1>0, <1>6 DEF SlaveStep, BuilderStep, TransferStep, GiveUp, SlaveExit
<1>3. CASE s = t BY <1>1, <1>2, <1>3, SlaveKeeps
<1>4. CASE s # t
  <2>1. conn[t] # NoConn => conn[t][1] = t BY DEF WireTypeOK
  <2>2. conn'[s] = conn[s] /\ builder'[s] = builder[s]
    BY <1>1, <1>4 DEF Receive, DoAck, DoSleep, DoBuild, DoCont, DoSend, DoDone, DoDie, Transferred,
       PowerLoss, SigTerm, MasterTimeout, BuildEnds, Connect, Exit, Close, Reset, Ask, SetBuilder,
       WireTypeOK, SlaveTypeOK
  <2>3. \A d \in Conns : d[1] = s => wire'[d] = wire[d]
    BY <1>1, <1>4, <2>1, FarmAssumption
    DEF Receive, DoAck, DoSleep, DoBuild, DoCont, DoSend, DoDone, DoDie, Transferred,
        PowerLoss, SigTerm, MasterTimeout, BuildEnds, Connect, Exit, Close, Ask, Put,
        Gets, WireTypeOK
  <2> QED BY <1>1, <1>2, <2>2, <2>3, KeptElsewhere DEF WireTypeOK, Recorded, dbVars
<1> QED BY <1>3, <1>4

\* What is logged is announced next.
LEMMA LogAnnounces ==
  ASSUME NEW c \in Conns, NEW b \in Builds, NEW outcome,
         NEW pages \in {{"project"}, {"simple", "project"}},
         Log(c, b, outcome, pages), Ready, PagesAreAnnounced
  PROVE  PagesAreAnnounced'
<1> USE DEF PagesAreAnnounced
<1>0. outdated = {} BY DEF Ready
<1>1. CASE CanLog(b)
  <2>1. /\ outdated' = pages \X {b[1]}
        /\ job' = [conn |-> c, pkg |-> b[1],
                   cmd |-> IF "simple" \in pages THEN "BOTH" ELSE "PROJECT"]
    BY <1>0, <1>1 DEF Log
  <2>2. job' \in [conn : Conns, pkg : Pkgs, cmd : {"PROJECT", "BOTH"}]
    BY <2>1 DEF Builds
  <2> QED BY <2>1, <2>2, FarmAssumption DEF JobPages
<1>2. CASE ~CanLog(b) BY <1>0, <1>2 DEF Log
<1> QED BY <1>1, <1>2

LEMMA PagesStep ==
  ASSUME Inv, Kept, [Next]_vars, "restart" \notin Faults
  PROVE  PagesAreAnnounced'
<1> USE DEF Inv, TypeOK
<1>0. PagesAreAnnounced BY DEF Kept
<1>1. ASSUME UNCHANGED <<job, outdated>> PROVE PagesAreAnnounced'
  BY <1>0, <1>1 DEF PagesAreAnnounced, JobPages
<1>2. ASSUME NEW c \in Conns, DriverStep(c) PROVE PagesAreAnnounced'
  <2>1. CASE IgnoreUnknown(c) \/ DoHello(c) \/ DoBye(c) \/ DoIdle(c) \/ DoBusy(c)
    BY <1>1, <2>1 DEF IgnoreUnknown, DoHello, DoBye, DoIdle, DoBusy, driverVars
  <2>2. CASE DoBuilt(c)
    <3>1. CASE BuiltDie(c) \/ BuiltSkipped(c) \/ BuiltSend(c)
      BY <1>1, <3>1 DEF BuiltDie, BuiltSkipped, BuiltSend
    <3>2. CASE BuiltLog(c)
      <4>1. reply[c].build \in Builds
        BY <3>2, Kinds DEF BuiltLog, Asks, DriverTypeOK, Fields
      <4> QED BY <1>0, <3>2, <4>1, LogAnnounces DEF BuiltLog, Asks
    <3> QED BY <2>2, <3>1, <3>2 DEF DoBuilt
  <2>3. CASE DoSent(c)
    <3>1. CASE SentDie(c) \/ SentCorrupt(c) \/ SentNext(c)
      BY <1>1, <3>1 DEF SentDie, SentCorrupt, SentNext
    <3>2. CASE SentLast(c)
      <4>1. build[c].build \in Builds
        BY <3>2 DEF SentLast, Verified, Asks, SessionsAgree, DriverTypeOK, BuildStates
      <4> QED BY <1>0, <3>2, <4>1, LogAnnounces DEF SentLast, Verified, Asks
    <3> QED BY <2>3, <3>1, <3>2 DEF DoSent
  <2> QED BY <1>2, <2>1, <2>2, <2>3 DEF DriverStep, HandleSlave
<1>3. CASE AnnounceStep
  <2>1. outdated \subseteq JobPages \X {job.pkg}
    BY <1>0, <1>3 DEF AnnounceStep, Announce, PagesAreAnnounced
  <2>2. outdated' = outdated \ (JobPages \X {job.pkg}) /\ job' = NoJob
    BY <1>3 DEF AnnounceStep, Announce, JobPages
  <2> QED BY <2>1, <2>2 DEF PagesAreAnnounced
<1>4. ASSUME NEW c \in Conns, Expire(c) \/ LoseMessage(c) PROVE PagesAreAnnounced'
  BY <1>1, <1>4 DEF Expire, RemoveExpired, LoseMessage, driverVars
<1>5. ASSUME NEW s \in Slaves,
             SlaveStep(s) \/ BuilderStep(s) \/ TransferStep(s) \/ GiveUp(s) \/ SlaveExit(s)
      PROVE  PagesAreAnnounced'
  BY <1>1, <1>5 DEF SlaveStep, BuilderStep, TransferStep, GiveUp, SlaveExit, driverVars
<1>6. ASSUME NEW a \in Abis, NEW k \in Keys, Lapse(a, k) PROVE PagesAreAnnounced'
  BY <1>1, <1>6 DEF Lapse
<1>7. ASSUME NEW k \in Removals, StartRemoval(k) PROVE PagesAreAnnounced'
  BY <1>1, <1>7 DEF StartRemoval, driverVars
<1>8. ASSUME NEW b \in Builds, AddRemoved(b) PROVE PagesAreAnnounced'
  BY <1>1, <1>8 DEF AddRemoved, driverVars
<1>9. CASE Schedule \/ ScheduledBuild \/ DropRemoved \/ FinishRemoval \/ Operator \/ Crash
  BY <1>1, <1>9 DEF Schedule, ScheduledBuild, HandleBuild, DropRemoved, HandleDelete,
     FinishRemoval, Operator, HandleControl, Crash, driverVars
<1>10. ~Restart BY DEF Restart
<1>11. CASE UNCHANGED vars BY <1>1, <1>11 DEF vars, driverVars
<1> QED BY <1>2, <1>3, <1>4, <1>5, <1>6, <1>7, <1>8, <1>9, <1>10, <1>11 DEF Next, FarmStep, RemovalStep

LEMMA ResultsStep ==
  ASSUME Inv, Kept, [Next]_vars, Removals = {}, "restart" \notin Faults, NEW s \in Slaves
  PROVE  ResultKept(s)'
<1> USE DEF Inv, TypeOK
<1>0. ResultKept(s) /\ Calm BY DEF Kept
\* Whoever else takes a step, the results stay as they are.
<1>1. ASSUME UNCHANGED <<slaveVars, logged, job>>,
             \A c \in Conns :
               /\ wire'[c] = Plain("DONE") => wire[c] = Plain("DONE")
               /\ c \in known' => c \in known /\ reply'[c] = reply[c] /\ build'[c] = build[c]
      PROVE  ResultKept(s)'
  BY <1>0, <1>1, KeptElsewhere DEF slaveVars, WireTypeOK, Recorded
<1>2. ASSUME NEW c \in Conns, DriverStep(c) PROVE ResultKept(s)'
  BY <1>2, DriverKeeps DEF DriverStep
<1>3. CASE AnnounceStep BY <1>3, AnnounceKeeps
<1>4. ASSUME NEW c \in Conns, Expire(c) PROVE ResultKept(s)'
  BY <1>1, <1>4 DEF Expire, RemoveExpired, Forget, DriverTypeOK, dbVars
<1>5. ASSUME NEW c \in Conns, LoseMessage(c) PROVE ResultKept(s)'
  <2>1. Quiet # Plain("DONE") BY Messages
  <2> QED BY <1>1, <1>5, <2>1 DEF LoseMessage, Put, WireTypeOK, driverVars, dbVars
<1>6. ASSUME NEW t \in Slaves,
             SlaveStep(t) \/ BuilderStep(t) \/ TransferStep(t) \/ GiveUp(t) \/ SlaveExit(t)
      PROVE  ResultKept(s)'
  BY <1>6, SlaveStepKeeps
<1>7. ASSUME NEW a \in Abis, NEW k \in Keys, Lapse(a, k) PROVE ResultKept(s)'
  BY <1>1, <1>7 DEF Lapse, dbVars
<1>8. ASSUME NEW b \in Builds, AddRemoved(b) PROVE ResultKept(s)'
  BY <1>1, <1>8 DEF AddRemoved, AddVersion, driverVars
<1>9. CASE Schedule \/ ScheduledBuild \/ Operator \/ Crash
  BY <1>1, <1>9 DEF Schedule, ScheduledBuild, HandleBuild, Operator, HandleControl, Crash,
     driverVars, dbVars
<1>10. ~Restart /\ ~DropRemoved /\ ~FinishRemoval
  BY <1>0 DEF Restart, DropRemoved, FinishRemoval, Calm
<1>11. CASE UNCHANGED vars BY <1>1, <1>11 DEF vars, driverVars, dbVars
<1> QED BY <1>2, <1>3, <1>4, <1>5, <1>6, <1>7, <1>8, <1>9, <1>10, <1>11 DEF Next, FarmStep, RemovalStep

LEMMA InitKept == Init => Kept
<1> SUFFICES ASSUME Init PROVE Kept
  OBVIOUS
<1> QED BY DEF Init, DbInit, WireInit, DriverInit, SlaveInit, Kept, Calm, PagesAreAnnounced,
           ResultKept, BuilderAgrees

\* A slave throws a finished build away only when its attempt is in the
\* database, whatever is lost or late and whichever slaves leave, and the pages
\* of what was logged are being announced (do_built, do_sent).
THEOREM FinishedAreLogged ==
  ASSUME Removals = {}, "SKIP" \notin Controls, "restart" \notin Faults
  PROVE  Spec => []FinishedBuildsAreLogged
<1>1. Inv /\ Kept /\ [Next]_vars => Kept'
  BY CalmStep, PagesStep, ResultsStep DEF Kept
<1>2. Kept => FinishedBuildsAreLogged
  BY DEF Kept, PagesAreAnnounced, ResultKept, Leaving, Finished, FinishedBuildsAreLogged
<1> QED BY <1>1, <1>2, InitKept, InvHolds, PTL DEF Spec

-----------------------------------------------------------------------------
\* The ABIs take turns: a version is open for the one that is to attempt it
\* next, until that attempt is logged.

\* The driver is busy with the result of the session.
Filing(c) == job # NoJob /\ job.conn = c

\* The session has b in hand, and its result is still to come.
Open(c, b) ==
  \/ ~Filing(c) /\ (Named(c, b) \/ Fetched(c, b))
  \/ wire[c] = Build(b)
  \/ Runs(c, b)

\* What is queued, or on its way to the queues.
Waiting(a, b) ==
  \/ b \in queues[a]
  \/ inbox # NoQueue /\ b \in inbox[a] /\ excluded[a][b] \in {"no", "lapsed"}

\* The ABI has b in hand, or may yet be given it.
Live(a, b) ==
  \/ Waiting(a, b)
  \/ \E c \in Conns : AbiOf(c) = a /\ Open(c, b)

Turn(a, b) == a \in Unattempted(b) /\ \A o \in Unattempted(b) : a <= o

Turns ==
  \A b \in Builds : \A a \in Abis : Live(a, b) =>
    /\ versions[b] # "gone" => Turn(a, b)
    /\ \A o \in Abis : Live(o, b) => o = a

\* The driver answers nobody else while it files a result.
LEMMA DriverIsFree == ASSUME NEW c, HandleSlave(c) PROVE job = NoJob
BY DEF HandleSlave, IgnoreUnknown, DoHello, DoBye, DoIdle, IdleDie, IdleSleep, IdleBuild, DoBusy,
   DoBuilt, BuiltDie, BuiltSkipped, BuiltSend, BuiltLog, DoSent, SentDie, SentCorrupt, SentNext,
   SentLast, Verified, Asks, Ready

LEMMA JobStep ==
  ASSUME [Next]_vars, "restart" \notin Faults, job # NoJob
  PROVE  job' = job \/ AnnounceStep
<1>1. \A c \in Conns : ~DriverStep(c) BY DriverIsFree DEF DriverStep
<1>2. ASSUME NEW c \in Conns, Expire(c) \/ LoseMessage(c) PROVE job' = job
  BY <1>2 DEF Expire, RemoveExpired, LoseMessage, driverVars
<1>3. ASSUME NEW s \in Slaves,
             SlaveStep(s) \/ BuilderStep(s) \/ TransferStep(s) \/ GiveUp(s) \/ SlaveExit(s)
      PROVE  job' = job
  BY <1>3 DEF SlaveStep, BuilderStep, TransferStep, GiveUp, SlaveExit, driverVars
<1>4. ASSUME NEW a \in Abis, NEW k \in Keys, Lapse(a, k) PROVE job' = job
  BY <1>4 DEF Lapse
<1>5. ASSUME NEW k \in Removals, StartRemoval(k) PROVE job' = job
  BY <1>5 DEF StartRemoval, driverVars
<1>6. ASSUME NEW b \in Builds, AddRemoved(b) PROVE job' = job
  BY <1>6 DEF AddRemoved, driverVars
<1>7. CASE Schedule \/ ScheduledBuild \/ DropRemoved \/ FinishRemoval \/ Operator \/ Crash
           \/ UNCHANGED vars
  BY <1>7 DEF Schedule, ScheduledBuild, HandleBuild, DropRemoved, HandleDelete, FinishRemoval,
     Operator, HandleControl, Crash, driverVars, vars
<1>8. ~Restart BY DEF Restart
<1> QED BY <1>1, <1>2, <1>3, <1>4, <1>5, <1>6, <1>7, <1>8 DEF Next, FarmStep, RemovalStep

\* A session whose result is filed has nothing in hand for the driver.
LEMMA StillOpen ==
  ASSUME Inv, [Next]_vars, "restart" \notin Faults,
         NEW c \in Conns, NEW b \in Builds, NothingNew(c, b), Open(c, b)'
  PROVE  Open(c, b)
<1> USE DEF Inv, TypeOK
<1>1. CASE ~Filing(c) BY <1>1 DEF NothingNew, Open
<1>2. CASE Filing(c) /\ job' = job BY <1>2 DEF NothingNew, Open, Filing
<1>3. CASE Filing(c) /\ AnnounceStep
  <2>1. c = job.conn /\ Respond(c, Plain("DONE")) /\ SetBuild(c, NoBuild)
    BY <1>3 DEF Filing, AnnounceStep, Announce
  <2>2. reply'[c] = Plain("DONE") /\ Plain("DONE") # Build(b)
    BY <2>1, Responds, Makes, Messages
  <2>3. build'[c] = NoBuild BY <2>1 DEF SetBuild, DriverTypeOK
  <2> QED BY <2>2, <2>3 DEF NothingNew, Open, Named, Fetched
<1> QED BY <1>1, <1>2, <1>3, JobStep DEF Filing

LEMMA StillWaiting ==
  ASSUME Inv, [Next]_vars, ~Schedule, Punctual, "restart" \notin Faults,
         NEW a \in Abis, NEW b \in Builds, Waiting(a, b)'
  PROVE  Waiting(a, b)
<1> USE DEF Inv, TypeOK
<1>0. b \in Keys BY Coverage
<1>1. CASE UNCHANGED <<queues, inbox, excluded>> BY <1>1 DEF Waiting
<1>2. ASSUME NEW c \in Conns, DriverStep(c) PROVE Waiting(a, b)
  <2>1. CASE IdleBuild(c)
    <3>1. PICK o \in Builds :
            /\ inbox' = inbox
            /\ queues' = [queues EXCEPT ![AbiOf(c)] = {d \in @ : Released[d] > Released[o]}]
            /\ excluded' = [excluded EXCEPT ![AbiOf(c)][o] = "build"]
      BY <1>2, <2>1, HandsOut
    <3>2. AbiOf(c) \in Abis /\ o \in Keys BY ProtocolAssumption, Coverage DEF AbiOf, Conns
    <3> QED BY <1>0, <3>1, <3>2 DEF Waiting, DriverTypeOK
  <2>2. CASE ~IdleBuild(c)
    BY <1>2, <2>2, DriverQueues DEF DriverStep, Waiting
  <2> QED BY <2>1, <2>2
<1>3. CASE ScheduledBuild
  BY <1>3 DEF ScheduledBuild, HandleBuild, Waiting
<1>4. ASSUME NEW o \in Abis, NEW k \in Keys, Lapse(o, k) PROVE Waiting(a, b)
  <2>1. excluded' = [excluded EXCEPT ![o][k] = "lapsed"] /\ UNCHANGED <<queues, inbox>>
    BY <1>4 DEF Lapse
  <2>2. o = a /\ k = b /\ inbox # NoQueue => b \notin inbox[a]
    BY <1>4 DEF Lapse, Covers
  <2> QED BY <1>0, <2>1, <2>2 DEF Waiting, DriverTypeOK
<1>5. CASE DropRemoved
  <2>1. /\ excluded' = [o \in Abis |-> [excluded[o] EXCEPT ![removal.key] = "delete"]]
        /\ queues' = [o \in Abis |-> {d \in queues[o] : ~Covers(removal.key, d)}]
        /\ inbox' = inbox
    BY <1>5 DEF DropRemoved, HandleDelete
  <2> QED BY <1>0, <2>1 DEF Waiting, DriverTypeOK
<1>6. ASSUME NEW s \in Slaves,
             SlaveStep(s) \/ BuilderStep(s) \/ TransferStep(s) \/ GiveUp(s) \/ SlaveExit(s)
      PROVE  Waiting(a, b)
  BY <1>1, <1>6 DEF SlaveStep, BuilderStep, TransferStep, GiveUp, SlaveExit, driverVars
<1>7. ASSUME NEW c \in Conns, Expire(c) \/ LoseMessage(c) PROVE Waiting(a, b)
  BY <1>1, <1>7 DEF Expire, RemoveExpired, LoseMessage, driverVars
<1>8. CASE AnnounceStep \/ FinishRemoval \/ Operator \/ Crash \/ UNCHANGED vars
  BY <1>1, <1>8 DEF AnnounceStep, Announce, FinishRemoval, Operator, HandleControl, Crash,
     driverVars, vars
<1>9. ASSUME NEW k \in Removals, StartRemoval(k) PROVE Waiting(a, b)
  BY <1>1, <1>9 DEF StartRemoval, driverVars
<1>10. ASSUME NEW o \in Builds, AddRemoved(o) PROVE Waiting(a, b)
  BY <1>1, <1>10 DEF AddRemoved, driverVars
<1>11. ~Restart BY DEF Restart
<1> QED BY <1>2, <1>3, <1>4, <1>5, <1>6, <1>7, <1>8, <1>9, <1>10, <1>11 DEF Next, FarmStep, RemovalStep

\* Only the query of the pending builds brings a version to an ABI.
LEMMA StillLive ==
  ASSUME Inv, Exclusive, [Next]_vars, ~Schedule, Punctual, "restart" \notin Faults,
         NEW a \in Abis, NEW b \in Builds, Live(a, b)'
  PROVE  Live(a, b)
<1>1. CASE Waiting(a, b)' BY <1>1, StillWaiting DEF Live
<1>2. ASSUME NEW c \in Conns, AbiOf(c) = a, Open(c, b)' PROVE Live(a, b)
  <2>1. CASE NothingNew(c, b) BY <1>2, <2>1, StillOpen DEF Live
  <2>2. CASE ~NothingNew(c, b)
    <3>1. PICK d \in Conns : DriverStep(d) /\ IdleBuild(d) BY <2>2, WorkStep
    <3>2. d = c /\ b \in queues[AbiOf(d)] BY <2>2, <3>1, HandsOut
    <3> QED BY <1>2, <3>2 DEF Live, Waiting
  <2> QED BY <2>1, <2>2
<1>3. Waiting(a, b)' \/ \E c \in Conns : AbiOf(c) = a /\ Open(c, b)'
  BY DEF Live, AbiOf
<1> QED BY <1>1, <1>2, <1>3

\* The step logs the result of c.
Logs(c, b) ==
  /\ c \in known /\ wire[c].msg \in {"BUILT", "SENT"}
  /\ Named(c, b) \/ Fetched(c, b)
  /\ job = NoJob
  /\ Filing(c)'
  /\ UNCHANGED <<wire, slaveVars>>

LEMMA LogStep ==
  ASSUME Inv, NEW c \in Conns, DriverStep(c), NEW b \in Builds,
         \E o \in Abis : logged'[o][b] # logged[o][b]
  PROVE  Logs(c, b)
<1> USE DEF Inv, TypeOK
<1>0. HandleSlave(c) /\ UNCHANGED slaveVars BY DEF DriverStep
<1>1. ASSUME NEW o \in Builds, NEW outcome \in {"bare", "wheel"},
             NEW pages \in {{"project"}, {"simple", "project"}},
             Log(c, o, outcome, pages), Ready, c \in known,
             wire[c].msg \in {"BUILT", "SENT"}, Named(c, o) \/ Fetched(c, o)
      PROVE  Logs(c, b)
  <2>1. CASE CanLog(o)
    <3>1. LogBuild(AbiOf(c), o, outcome) /\ UNCHANGED wire
          /\ job' = [conn |-> c, pkg |-> o[1],
                     cmd |-> IF "simple" \in pages THEN "BOTH" ELSE "PROJECT"]
      BY <1>1, <2>1 DEF Log
    <3>2. o = b BY <3>1 DEF LogBuild, DbTypeOK
    <3>3. job' \in [conn : Conns, pkg : Pkgs, cmd : {"PROJECT", "BOTH"}] /\ job'.conn = c
      BY <3>1 DEF Builds
    <3> QED BY <1>0, <1>1, <3>1, <3>2, <3>3, FarmAssumption DEF Logs, Filing, Ready
  <2>2. CASE ~CanLog(o) BY <1>1, <2>2 DEF Log, dbVars
  <2> QED BY <2>1, <2>2
<1>2. CASE UNCHANGED dbVars BY <1>2 DEF dbVars
<1>3. CASE BuiltLog(c)
  <2>1. /\ Asks(c, "BUILT") /\ reply[c].msg = "BUILD"
        /\ Log(c, reply[c].build, "bare", {"project"})
    BY <1>3 DEF BuiltLog
  <2>2. reply[c] \in Replies BY <2>1, Kinds DEF DriverTypeOK
  <2>3. reply[c].build \in Builds /\ reply[c] = Build(reply[c].build)
    BY <2>1, <2>2, Messages
  <2> QED BY <1>1, <2>1, <2>3 DEF Asks, Named
<1>4. CASE SentLast(c)
  <2>1. /\ Asks(c, "SENT") /\ reply[c].msg = "SEND"
        /\ Log(c, build[c].build, "wheel", {"simple", "project"})
    BY <1>4 DEF SentLast, Verified
  <2>2. build[c] # NoBuild /\ build[c].build \in Builds
    BY <2>1 DEF Asks, SessionsAgree, DriverTypeOK, BuildStates
  <2> QED BY <1>1, <2>1, <2>2 DEF Asks, Fetched
<1> QED BY <1>0, <1>2, <1>3, <1>4
    DEF HandleSlave, IgnoreUnknown, DoHello, DoBye, DoIdle, DoBusy, DoBuilt, BuiltDie,
        BuiltSkipped, BuiltSend, DoSent, SentDie, SentCorrupt, SentNext

\* Otherwise the attempts at a version change only when it is deleted.
LEMMA AttemptsStep ==
  ASSUME Inv, [Next]_vars, ~Readds, NEW b \in Builds, versions'[b] # "gone",
         \A c \in Conns : ~(DriverStep(c) /\ Logs(c, b))
  PROVE  versions[b] # "gone" /\ \A o \in Abis : logged'[o][b] = logged[o][b]
<1> USE DEF Inv, TypeOK
<1>1. CASE UNCHANGED dbVars BY <1>1 DEF dbVars
<1>2. ASSUME NEW c \in Conns, DriverStep(c)
      PROVE  versions' = versions /\ \A o \in Abis : logged'[o][b] = logged[o][b]
  BY <1>2, LogStep, DriverVersions
<1>3. ASSUME NEW k \in Removals, StartRemoval(k)
      PROVE  versions[b] # "gone" /\ UNCHANGED logged
  BY <1>3 DEF StartRemoval, SkipVersions, DbTypeOK
<1>4. CASE FinishRemoval
  BY <1>4 DEF FinishRemoval, DeleteVersions, DbTypeOK
<1>5. ASSUME NEW c \in Conns, Expire(c) \/ LoseMessage(c) PROVE UNCHANGED dbVars
  BY <1>5 DEF Expire, RemoveExpired, LoseMessage
<1>6. ASSUME NEW s \in Slaves,
             SlaveStep(s) \/ BuilderStep(s) \/ TransferStep(s) \/ GiveUp(s) \/ SlaveExit(s)
      PROVE  UNCHANGED dbVars
  BY <1>6 DEF SlaveStep, BuilderStep, TransferStep, GiveUp, SlaveExit
<1>7. ASSUME NEW a \in Abis, NEW k \in Keys, Lapse(a, k) PROVE UNCHANGED dbVars
  BY <1>7 DEF Lapse
<1>8. \A o \in Builds : ~AddRemoved(o) BY DEF AddRemoved
<1>9. CASE AnnounceStep \/ Schedule \/ ScheduledBuild \/ DropRemoved \/ Operator \/ Crash
           \/ Restart \/ UNCHANGED vars
  BY <1>1, <1>9 DEF AnnounceStep, Announce, Schedule, ScheduledBuild, HandleBuild, DropRemoved,
     HandleDelete, Operator, HandleControl, Crash, Restart, vars
<1> QED BY <1>1, <1>2, <1>3, <1>4, <1>5, <1>6, <1>7, <1>8, <1>9 DEF Next, FarmStep, RemovalStep

\* With the result of its ABI filed, a version is open for no ABI at all.
LEMMA LoggedIsClosed ==
  ASSUME Inv, Exclusive, Exclusive', Inv', Turns, [Next]_vars, ~Schedule, Punctual,
         "restart" \notin Faults,
         NEW c \in Conns, NEW b \in Builds, DriverStep(c), Logs(c, b),
         NEW a \in Abis
  PROVE  ~Live(a, b)'
<1> SUFFICES ASSUME Live(a, b)' PROVE FALSE
  OBVIOUS
<1> USE DEF Inv, TypeOK
<1>1. Live(a, b) BY StillLive
<1>2. Open(c, b) BY DEF Logs, Open, Filing
<1>3. AbiOf(c) \in Abis BY ProtocolAssumption DEF AbiOf, Conns
<1>4. a = AbiOf(c) BY <1>1, <1>2, <1>3 DEF Turns, Live
<1>5. Working(c, b) BY DEF Logs, Working
<1>6. ~Waiting(a, b)
  BY <1>4, <1>5 DEF Exclusive, WorkIsExcluded, Waiting
<1>7. ~Waiting(a, b)' BY <1>6, StillWaiting
<1>8. PICK d \in Conns : AbiOf(d) = a /\ Open(d, b)' BY <1>7 DEF Live, AbiOf
<1>9. Open(d, b)
  <2>1. ~IdleBuild(c) BY DEF Logs, IdleBuild, Asks
  <2>2. HandleSlave(c) /\ UNCHANGED slaveVars BY DEF DriverStep
  <2>3. NothingNew(d, b) BY <2>1, <2>2, DriverTakesIdle
  <2> QED BY <1>8, <2>3, StillOpen
<1>10. d = c
  <2>1. Working(d, b) BY <1>9 DEF Open, Working, Runs
  <2> QED BY <1>4, <1>5, <1>8, <2>1 DEF Exclusive, OneWorker
\* The slave has said that the build has ended.
<1>11. wire'[c] # Build(b) BY Messages DEF Logs
<1>12. ~Runs(c, b)'
  <2>1. c[1] \in Slaves /\ c # NoConn BY FarmAssumption DEF Conns
  <2>2. SessionAgrees(c[1]) BY <2>1 DEF SessionsAgree
  <2>3. conn[c[1]] = c => builder[c[1]].state # "running"
    BY <2>1, <2>2 DEF SessionAgrees, SlaveFits, Logs
  <2> QED BY <2>3 DEF Logs, Runs, Has, slaveVars
<1> QED BY <1>8, <1>10, <1>11, <1>12 DEF Open, Logs

LEMMA TurnsStep ==
  ASSUME Inv, Inv', Exclusive, Exclusive', Turns, [Next]_vars, Punctual,
         "restart" \notin Faults, ~Readds
  PROVE  Turns'
<1> USE DEF Inv, TypeOK
<1>1. CASE Schedule
  <2>1. UNCHANGED <<queues, excluded, known, reply, build, wire, conn, builder, job, versions, logged>>
        /\ inbox' = BuildsPending
    BY <1>1 DEF Schedule, slaveVars, dbVars
  <2>2. \A c \in Conns, b \in Builds : Open(c, b)' <=> Open(c, b)
    BY <2>1 DEF Open, Filing, Named, Fetched, Runs, Has
  <2>3. \A a \in Abis, b \in Builds : Live(a, b)' =>
          Live(a, b) \/ (versions[b] = "live" /\ Turn(a, b))
    BY <2>1, <2>2 DEF Live, Waiting, BuildsPending, Turn, AbiOf
  <2>4. \A a \in Abis, b \in Builds : Turn(a, b)' <=> Turn(a, b)
    BY <2>1 DEF Turn, Unattempted, CountsFor
  <2>5. \A a, o \in Abis, b \in Builds : Turn(a, b) /\ Turn(o, b) => a = o
    BY DbAssumption DEF Turn
  <2> QED BY <2>1, <2>3, <2>4, <2>5 DEF Turns
<1>2. CASE ~Schedule
  <2>1. \A a \in Abis, b \in Builds : Live(a, b)' => Live(a, b) BY <1>2, StillLive
  <2>2. ASSUME NEW a \in Abis, NEW b \in Builds, Live(a, b)', versions'[b] # "gone"
        PROVE  Turn(a, b)'
    <3>1. \A c \in Conns : ~(DriverStep(c) /\ Logs(c, b))
      BY <1>2, <2>2, LoggedIsClosed
    <3>2. versions[b] # "gone" /\ \A o \in Abis : logged'[o][b] = logged[o][b]
      BY <2>2, <3>1, AttemptsStep
    <3>3. Turn(a, b) BY <2>1, <2>2, <3>2 DEF Turns
    <3>4. Unattempted(b)' = Unattempted(b) BY <3>2 DEF Unattempted, CountsFor
    <3> QED BY <3>3, <3>4 DEF Turn
  <2> QED BY <2>1, <2>2 DEF Turns
<1> QED BY <1>1, <1>2

LEMMA InitTurns == Init => Turns
<1> SUFFICES ASSUME Init, NEW a \in Abis, NEW b \in Builds PROVE ~Live(a, b)
  BY DEF Turns
<1>1. \A c \in Conns : c[1] \in Slaves BY DEF Conns
<1>2. Quiet # Build(b) BY Messages
<1> QED BY <1>1, <1>2 DEF Init, WireInit, DriverInit, SlaveInit, Live, Waiting, Open, Named,
           Fetched, Runs, Has, NoBuilds

\* Nor is a version built by slaves of two ABIs at a time: it is offered to one
\* of them until the attempt is logged (builds_pending), and whoever has it in
\* hand then is done with it.  Of versions that are never published again.
THEOREM AbisTakeTurns ==
  ASSUME Punctual, "restart" \notin Faults, ~Readds
  PROVE  Spec => []OneAbiAtATime
<1>1. Inv /\ Inv' /\ Exclusive /\ Exclusive' /\ Turns /\ [Next]_vars => Turns'
  BY TurnsStep
<1>2. Inv /\ Turns => OneAbiAtATime
  <2> SUFFICES ASSUME Inv, Turns, NEW s \in Slaves, NEW t \in Slaves, NEW b \in Builds,
                      Holds(s, b), Holds(t, b)
               PROVE  Abi[s] = Abi[t]
    BY DEF OneAbiAtATime
  <2>1. ASSUME NEW u \in Slaves, Holds(u, b) PROVE Abi[u] \in Abis /\ Live(Abi[u], b)
    <3>1. conn[u] # NoConn BY <2>1 DEF Holds, Inv, SessionsAgree, SessionAgrees
    <3>2. conn[u] \in Conns /\ conn[u][1] = u BY <3>1 DEF Inv, TypeOK, WireTypeOK
    <3>3. Open(conn[u], b) BY <2>1, <3>1, <3>2 DEF Holds, Open, Runs, Has
    <3> QED BY <3>2, <3>3, ProtocolAssumption DEF Live, AbiOf
  <2> QED BY <2>1 DEF Turns
<1> QED BY <1>1, <1>2, InitTurns, InvHolds, ExclusiveHolds, PTL DEF Spec
=============================================================================
