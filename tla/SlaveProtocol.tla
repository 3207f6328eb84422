---------------------------- MODULE SlaveProtocol ----------------------------
(***************************************************************************)
(* The messages of the slave protocol and the connections they travel on.  *)
(*                                                                         *)
(* A slave talks to the master over a REQ socket connected to the master's *)
(* ROUTER, so each connection has an address of its own and carries at     *)
(* most one message at a time: a request or the reply to it.  wire[c] is   *)
(* that message, and Quiet when there is none.  A reply to an address that *)
(* is no longer connected is dropped by the ROUTER; a request outlives the *)
(* socket that it was sent on.                                             *)
(***************************************************************************)
EXTENDS PackageDb

CONSTANTS
  Slaves,     \* build slave machines, each running one piw-slave
  Sockets,    \* names for the sockets a slave opens one after the other
  Abi,        \* the native ABI of each slave, which HELLO announces
  NoConn,     \* the slave has no socket open
  MaxFiles    \* bound: wheels that one build produces

ASSUME ProtocolAssumption ==
  /\ Abi \in [Slaves -> Abis]
  /\ MaxFiles \in Nat \ {0}

Plain(kind) == [msg |-> kind]
Quiet == Plain("none")

\* A connection's address.  A name is used again only when both ends have
\* forgotten the connection it named, which makes it as good as a new one.
Conns == Slaves \X Sockets

AbiOf(c) == Abi[c[1]]

\* What the slave sends.  BUILT carries the build's status and its wheels.
Built(ok, n) == [msg |-> "BUILT", status |-> ok, files |-> n]

Requests ==
  [msg : {"HELLO", "IDLE", "BUSY", "SENT", "BYE"}] \cup
  {Built(ok, n) : ok \in BOOLEAN, n \in 0..MaxFiles}

\* What the master replies.  SEND names one wheel of the build, by number.
Build(b) == [msg |-> "BUILD", build |-> b]
Send(n)  == [msg |-> "SEND", file |-> n]

Replies ==
  [msg : {"ACK", "SLEEP", "CONT", "DONE", "DIE"}] \cup
  {Build(b) : b \in Builds} \cup {Send(n) : n \in 1..MaxFiles}

VARIABLES
  wire,
  conn        \* per slave, the connection that it has open

WireTypeOK ==
  /\ wire \in [Conns -> Requests \cup Replies \cup {Quiet}]
  /\ conn \in [Slaves -> Conns \cup {NoConn}]
  /\ \A s \in Slaves : conn[s] # NoConn => conn[s][1] = s

WireInit ==
  /\ wire = [c \in Conns |-> Quiet]
  /\ conn = [s \in Slaves |-> NoConn]

Put(c, m) == wire' = [wire EXCEPT ![c] = m]

\* The master's ROUTER sends m to address c.
Reply(c, m) == Put(c, IF conn[c[1]] = c THEN m ELSE Quiet)

\* Slave s closes its socket: a reply that is on its way is lost.
Close(s) ==
  /\ conn' = [conn EXCEPT ![s] = NoConn]
  /\ Put(conn[s], IF wire[conn[s]] \in Replies THEN Quiet ELSE wire[conn[s]])
=============================================================================
