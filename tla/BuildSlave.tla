------------------------------ MODULE BuildSlave ------------------------------
(***************************************************************************)
(* The piw-slave program: the loop that sends a request, waits for the     *)
(* reply and acts on it, and the Builder thread that it starts.  It opens  *)
(* a new socket, with a new address, whenever the master has been silent   *)
(* for too long.                                                           *)
(***************************************************************************)
EXTENDS SlaveProtocol

CONSTANT
  NoBuilder   \* PiWheelsSlave.builder is None

VARIABLES
  acked,      \* slaves whose slave_id is set
  sending,    \* slaves inside Wheel.transfer
  builder     \* per slave, its Builder: the version, the outcome, the wheels

slaveVars == <<conn, acked, sending, builder>>

BuilderStates ==
  [build : Builds, state : {"running", "ok", "failed"}, files : 0..MaxFiles]

SlaveTypeOK ==
  /\ acked \subseteq Slaves
  /\ sending \subseteq Slaves
  /\ builder \in [Slaves -> BuilderStates \cup {NoBuilder}]

SlaveInit ==
  /\ acked = {}
  /\ sending = {}
  /\ builder = [s \in Slaves |-> NoBuilder]

SetBuilder(s, value) == builder' = [builder EXCEPT ![s] = value]

-----------------------------------------------------------------------------
\* The start of main_loop, on a new connection.
Connect(s, c) ==
  /\ conn[s] = NoConn
  /\ c[1] = s /\ wire[c] = Quiet
  /\ conn' = [conn EXCEPT ![s] = c]
  /\ Put(c, Plain("HELLO"))
  /\ UNCHANGED <<acked, sending, builder>>

\* A reply has arrived: the handler runs and the next request is sent.
Gets(s, kind) == conn[s] # NoConn /\ wire[conn[s]].msg = kind

Ask(s, m) == Put(conn[s], m) /\ UNCHANGED conn

DoAck(s) ==
  /\ Gets(s, "ACK")
  /\ acked' = acked \cup {s}
  /\ Ask(s, Plain("IDLE"))
  /\ UNCHANGED <<sending, builder>>

DoSleep(s) ==
  /\ Gets(s, "SLEEP")
  /\ Ask(s, Plain("IDLE"))
  /\ UNCHANGED <<acked, sending, builder>>

DoBuild(s) ==
  /\ Gets(s, "BUILD")
  /\ SetBuilder(s, [build |-> wire[conn[s]].build, state |-> "running",
                    files |-> 0])
  /\ Ask(s, Plain("BUSY"))
  /\ UNCHANGED <<acked, sending>>

\* do_cont waits a few seconds for the thread, then reports either way.
DoCont(s) ==
  /\ Gets(s, "CONT")
  /\ Ask(s, IF builder[s].state = "running"
            THEN Plain("BUSY")
            ELSE Built(builder[s].state = "ok", builder[s].files))
  /\ UNCHANGED <<acked, sending, builder>>

\* do_send, up to the loop of Wheel.transfer ...
DoSend(s) ==
  /\ Gets(s, "SEND")
  /\ sending' = sending \cup {s}
  /\ Put(conn[s], Quiet)
  /\ UNCHANGED <<conn, acked, builder>>

\* ... and from the juggler's DONE, the only way out of that loop: there is no
\* timeout in it (MasterTimeout below).
Transferred(s) ==
  /\ s \in sending
  /\ sending' = sending \ {s}
  /\ Ask(s, Plain("SENT"))
  /\ UNCHANGED <<acked, builder>>

\* clean_up_build stops the thread if it still runs.
DoDone(s) ==
  /\ Gets(s, "DONE")
  /\ SetBuilder(s, NoBuilder)
  /\ Ask(s, Plain("IDLE"))
  /\ UNCHANGED <<acked, sending>>

\* Mutant of Reset: a session that ends does not clear slave_id.
ResetKeepsId(s) ==
  /\ sending' = sending \ {s}
  /\ SetBuilder(s, NoBuilder)
  /\ UNCHANGED acked

\* Everything that a process that ends or a session that is reset leaves
\* behind, besides the socket that it closes.
Reset(s) ==
  /\ acked' = acked \ {s}
  /\ sending' = sending \ {s}
  /\ SetBuilder(s, NoBuilder)

\* SystemExit, by DIE or by SIGTERM: BYE is sent if the socket may send.
Exit(s) ==
  /\ conn' = [conn EXCEPT ![s] = NoConn]
  /\ Put(conn[s], Plain("BYE"))
  /\ Reset(s)

DoDie(s) == Gets(s, "DIE") /\ Exit(s)

CanSend(s) == s \in sending \/ wire[conn[s]] \in Replies

SigTerm(s) == conn[s] # NoConn /\ CanSend(s) /\ Exit(s)

\* A reset or power loss, or a SIGTERM while waiting for a reply.
PowerLoss(s) == conn[s] # NoConn /\ Close(s) /\ Reset(s)

\* Mutant of MasterTimeout: no timeout as long as there is a build.
MasterTimeoutIdle(s) ==
  /\ conn[s] # NoConn /\ s \notin sending /\ builder[s] = NoBuilder
  /\ Close(s)
  /\ Reset(s)

\* MasterTimeout: raised while waiting for a reply, not inside a handler.
MasterTimeout(s) ==
  /\ conn[s] # NoConn /\ s \notin sending
  /\ Close(s)
  /\ Reset(s)

\* The Builder thread ends.  Only a success has wheels, and it may have none.
BuildEnds(s, ok, n) ==
  /\ builder[s] # NoBuilder /\ builder[s].state = "running"
  /\ n > 0 => ok
  /\ SetBuilder(s, [builder[s] EXCEPT !.state = IF ok THEN "ok" ELSE "failed",
                                      !.files = n])
  /\ UNCHANGED <<wire, conn, acked, sending>>

Receive(s) ==
  DoAck(s) \/ DoSleep(s) \/ DoBuild(s) \/ DoCont(s) \/ DoSend(s) \/ DoDone(s)
  \/ DoDie(s)
=============================================================================
