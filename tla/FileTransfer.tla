----------------------------- MODULE FileTransfer -----------------------------
(***************************************************************************)
(* The upload of wheels: FileJuggler and its TransferStates on the master, *)
(* Wheel.transfer on the slaves, and as much of SlaveDriver as starts and  *)
(* ends a transfer.  Offsets stay multiples of the chunk size, so a chunk  *)
(* is a number and TransferState._map the set of chunks that are missing   *)
(* (module Ranges is about its representation).  All wheels have the same  *)
(* size.  The DEALER socket of each do_send is an address: two FIFO        *)
(* channels, which lose messages but repeat none.                          *)
(***************************************************************************)
EXTENDS Naturals, Sequences, FiniteSets

CONSTANTS
  Slaves,
  Addrs,        \* addresses of transfer sockets
  MaxId,        \* bounds the numbers SlaveState gives to sessions
  MaxFiles,     \* the most wheels one build makes
  Chunks,       \* chunks of a wheel
  Full,         \* those that are not shorter than chunk_size
  Pipeline,     \* TransferState.pipeline_size
  Faults,       \* which of the faults below may happen
  MaxFaults,
  NoAddr,       \* the slave has no transfer socket open
  NoTransfer,
  NoFile        \* a wheel that was not committed

ASSUME TransferAssumption ==
  /\ MaxFiles \in Nat \ {0} /\ Chunks \in Nat \ {0}
  /\ Full \in {Chunks - 1, Chunks}
  /\ Pipeline \in Nat \ {0} /\ MaxFaults \in Nat
  /\ MaxId \in Nat
  /\ NoAddr \notin Addrs

VARIABLES
  phase,        \* per slave: "idle", "told" to send, "sending", "sent"
  id,           \* per slave, its slave_id; 0 before the first session
  socket,       \* per slave, its open transfer socket
  nextId,       \* SlaveState.counter
  known,        \* slaves whose session the driver knows
  wheel,        \* per slave, the wheel it was last told to send, or 0
  pending, complete,  \* FileJuggler's transfers by slave_id
  active,       \* FileJuggler's transfers by address
  toMaster, toSlave,  \* messages under way at each address
  stored,       \* per wheel, the content of the file that was committed
  faults        \* how many have happened

jugglerVars == <<pending, active, complete, stored>>
driverVars == <<nextId, known>>
slaveVars == <<phase, id, socket, wheel>>
wires == <<toMaster, toSlave>>
vars == <<phase, id, socket, wheel, nextId, known, pending, complete, active,
          toMaster, toSlave, stored, faults>>

Ids == 1..MaxId
Offsets == 0..(Chunks - 1)
Files == Slaves \X (1..MaxFiles)
Hole == <<"hole">>
Damaged == <<"damaged">>
Contents == Files \cup {Hole, Damaged}
Data == [Offsets -> Contents]
Transfers == [id : Ids, file : Files, missing : SUBSET Offsets,
              offset : 0..Chunks, data : Data]
Hellos == [msg : {"HELLO"}, id : Ids]
Fetches == [msg : {"FETCH"}, at : Offsets]
ChunkMsgs == [msg : {"CHUNK"}, at : Offsets, data : Contents]
Done == [msg |-> "DONE"]

ASSUME NothingAssumption == NoTransfer \notin Transfers /\ NoFile \notin Data

TypeOK ==
  /\ phase \in [Slaves -> {"idle", "told", "sending", "sent"}]
  /\ id \in [Slaves -> Ids \cup {0}]
  /\ socket \in [Slaves -> Addrs \cup {NoAddr}]
  /\ nextId \in Nat \ {0}
  /\ known \subseteq Slaves
  /\ wheel \in [Slaves -> 0..MaxFiles]
  /\ pending \in [Ids -> Transfers \cup {NoTransfer}]
  /\ complete \in [Ids -> Transfers \cup {NoTransfer}]
  /\ active \in [Addrs -> Transfers \cup {NoTransfer}]
  /\ toMaster \in [Addrs -> Seq(Hellos \cup ChunkMsgs)]
  /\ toSlave \in [Addrs -> Seq(Fetches \cup {Done})]
  /\ stored \in [Files -> Data \cup {NoFile}]
  /\ faults \in 0..MaxFaults

Init ==
  /\ phase = [s \in Slaves |-> "idle"]
  /\ id = [s \in Slaves |-> 0]
  /\ socket = [s \in Slaves |-> NoAddr]
  /\ nextId = 1 /\ known = {} /\ wheel = [s \in Slaves |-> 0]
  /\ pending = [i \in Ids |-> NoTransfer]
  /\ complete = [i \in Ids |-> NoTransfer]
  /\ active = [a \in Addrs |-> NoTransfer]
  /\ toMaster = [a \in Addrs |-> <<>>] /\ toSlave = [a \in Addrs |-> <<>>]
  /\ stored = [f \in Files |-> NoFile]
  /\ faults = 0

-----------------------------------------------------------------------------
\* TransferState.

Least(S) == CHOOSE x \in S : \A y \in S : x <= y

\* _credit after reset_credit.  Between two messages _credit is always zero:
\* every handler fetches until it is used up.
Credit == IF Full = 0 THEN 1 ELSE Least({Pipeline, Full})

NewTransfer(i, f) ==
  [id |-> i, file |-> f, missing |-> Offsets, offset |-> 0,
   data |-> [n \in Offsets |-> Hole]]

\* Mutant of Pick: fetch never goes back.
PickOnwards(t, offset) == offset

\* fetch: the chunk at _offset if it is missing, or the first missing one.
Pick(t, offset) == IF offset \in t.missing THEN offset ELSE Least(t.missing)

\* _offset after each of n fetches in a row.
OffsetAfter(t) ==
  LET o[n \in 0..Credit] == IF n = 0 THEN t.offset ELSE Pick(t, o[n - 1]) + 1
  IN  o

\* Mutant of Chunk: taken for the chunk that was asked for last.
ChunkInOrder(t, m) ==
  [t EXCEPT !.data[m.at] = m.data, !.missing = @ \ {t.offset - 1}]

\* chunk: whatever is at that place is overwritten, also when it was not
\* missing any more.
Chunk(t, m) ==
  [t EXCEPT !.data[m.at] = m.data, !.missing = @ \ {m.at}]

\* done.
Finished(t) == t.missing = {}

\* verify, which compares the hash of the temporary file with the file's.
Verifies(t) == \A n \in Offsets : t.data[n] = t.file

-----------------------------------------------------------------------------
\* FileJuggler.handle_file.

\* ROUTER drops what is sent to an address that is closed.
Deliver(a, msgs) ==
  toSlave' = IF \E s \in Slaves : socket[s] = a
             THEN [toSlave EXCEPT ![a] = @ \o msgs] ELSE toSlave

Take(a) == toMaster' = [toMaster EXCEPT ![a] = Tail(@)]

Receives(a, kind) == toMaster[a] # <<>> /\ Head(toMaster[a]).msg = kind

\* The loop at the end of handle_file, with n credits.
FetchMore(a, t, n) ==
  LET o == OffsetAfter(t) IN
  /\ active' = [active EXCEPT ![a] = [t EXCEPT !.offset = o[n]]]
  /\ Deliver(a, [k \in 1..n |-> [msg |-> "FETCH", at |-> o[k] - 1]])

\* new_transfer.
HelloStarts(a) ==
  LET i == Head(toMaster[a]).id IN
  /\ Receives(a, "HELLO")
  /\ active[a] = NoTransfer
  /\ pending[i] # NoTransfer
  /\ pending' = [pending EXCEPT ![i] = NoTransfer]
  /\ FetchMore(a, pending[i], Credit)
  /\ Take(a)
  /\ UNCHANGED <<complete, stored, driverVars, slaveVars, faults>>

\* An unexpected HELLO is logged.
HelloIgnored(a) ==
  /\ Receives(a, "HELLO")
  /\ active[a] = NoTransfer
  /\ pending[Head(toMaster[a]).id] = NoTransfer
  /\ Take(a)
  /\ UNCHANGED <<toSlave, jugglerVars, driverVars, slaveVars, faults>>

\* Mutant of HelloProds: no new credit.
HelloProdsNothing(a) ==
  /\ Receives(a, "HELLO")
  /\ active[a] # NoTransfer
  /\ Take(a)
  /\ UNCHANGED <<toSlave, jugglerVars, driverVars, slaveVars, faults>>

\* current_transfer: the slave has heard nothing, the credit is renewed.
HelloProds(a) ==
  /\ Receives(a, "HELLO")
  /\ active[a] # NoTransfer
  /\ FetchMore(a, active[a], Credit)
  /\ Take(a)
  /\ UNCHANGED <<pending, complete, stored, driverVars, slaveVars, faults>>

\* TransferIgnoreChunk.
ChunkIgnored(a) ==
  /\ Receives(a, "CHUNK")
  /\ active[a] = NoTransfer
  /\ Take(a)
  /\ UNCHANGED <<toSlave, jugglerVars, driverVars, slaveVars, faults>>

\* Mutant of ChunkStored: credit is renewed by every chunk.
ChunkStoredTwice(a) ==
  LET t == Chunk(active[a], Head(toMaster[a])) IN
  /\ Receives(a, "CHUNK")
  /\ active[a] # NoTransfer
  /\ ~Finished(t)
  /\ FetchMore(a, t, Credit)
  /\ Take(a)
  /\ UNCHANGED <<pending, complete, stored, driverVars, slaveVars, faults>>

\* A chunk earns one credit, spent on the next fetch.
ChunkStored(a) ==
  LET t == Chunk(active[a], Head(toMaster[a])) IN
  /\ Receives(a, "CHUNK")
  /\ active[a] # NoTransfer
  /\ ~Finished(t)
  /\ FetchMore(a, t, 1)
  /\ Take(a)
  /\ UNCHANGED <<pending, complete, stored, driverVars, slaveVars, faults>>

\* TransferDone.
ChunkCompletes(a) ==
  LET t == Chunk(active[a], Head(toMaster[a])) IN
  /\ Receives(a, "CHUNK")
  /\ active[a] # NoTransfer
  /\ Finished(t)
  /\ active' = [active EXCEPT ![a] = NoTransfer]
  /\ complete' = [complete EXCEPT ![t.id] = t]
  /\ Deliver(a, <<Done>>)
  /\ Take(a)
  /\ UNCHANGED <<pending, stored, driverVars, slaveVars, faults>>

HandleFile(a) ==
  \/ HelloStarts(a) \/ HelloIgnored(a) \/ HelloProds(a)
  \/ ChunkIgnored(a) \/ ChunkStored(a) \/ ChunkCompletes(a)

-----------------------------------------------------------------------------
\* SlaveDriver, with FileJuggler's do_expect and do_verify.

\* What the driver waits for: SlaveState.next_file while its reply is SEND.
Wanted(s) == IF s \in known THEN wheel[s] ELSE 0

\* A new session: the first, or the one after a timeout.
Join(s) ==
  /\ s \notin known
  /\ phase[s] \in {"idle", "sent"}
  /\ nextId \in Ids
  /\ known' = known \cup {s}
  /\ id' = [id EXCEPT ![s] = nextId]
  /\ nextId' = nextId + 1
  /\ phase' = [phase EXCEPT ![s] = "idle"]
  /\ wheel' = [wheel EXCEPT ![s] = 0]
  /\ UNCHANGED <<socket, jugglerVars, wires, faults>>

\* expect, and the reply SEND (or DONE, when n is 0).
Expect(s, n) ==
  /\ wheel' = [wheel EXCEPT ![s] = n]
  /\ pending' = IF n = 0 THEN pending
                ELSE [pending EXCEPT ![id[s]] = NewTransfer(id[s], <<s, n>>)]
  /\ phase' = [phase EXCEPT ![s] = IF n = 0 THEN "idle" ELSE "told"]

\* do_built: the slave has built some wheels.
Built(s) ==
  /\ s \in known /\ phase[s] = "idle"
  /\ Expect(s, 1)
  /\ UNCHANGED <<id, socket, driverVars, complete, active, stored, wires, faults>>

Sent(s) == s \in known /\ phase[s] = "sent"

\* Mutant of SentVerified: the file is committed before it is verified.
SentVerifiedAfter(s) ==
  LET t == complete[id[s]] IN
  /\ Sent(s)
  /\ t # NoTransfer
  /\ stored' = [stored EXCEPT ![t.file] = t.data]
  /\ complete' = [complete EXCEPT ![id[s]] = NoTransfer]
  /\ \E n \in {0, wheel[s] + 1} : n <= MaxFiles /\ Expect(s, n)
  /\ UNCHANGED <<id, socket, driverVars, active, wires, faults>>

\* do_sent, when do_verify commits the file: the next wheel, or none.
SentVerified(s) ==
  LET t == complete[id[s]] IN
  /\ Sent(s)
  /\ t # NoTransfer /\ Verifies(t)
  /\ stored' = [stored EXCEPT ![t.file] = t.data]
  /\ complete' = [complete EXCEPT ![id[s]] = NoTransfer]
  /\ \E n \in {0, wheel[s] + 1} : n <= MaxFiles /\ Expect(s, n)
  /\ UNCHANGED <<id, socket, driverVars, active, wires, faults>>

\* Without a complete transfer do_verify raises KeyError, which FsClient
\* reports as a failure, like a wrong hash: the file is asked for again.
SentRejected(s) ==
  LET t == complete[id[s]] IN
  /\ Sent(s)
  /\ t # NoTransfer => ~Verifies(t)
  /\ complete' = [complete EXCEPT ![id[s]] = NoTransfer]
  /\ Expect(s, wheel[s])
  /\ UNCHANGED <<id, socket, driverVars, active, stored, wires, faults>>

-----------------------------------------------------------------------------
\* Wheel.transfer, called by do_send with a new socket.

Send(a, m) == toMaster' = [toMaster EXCEPT ![a] = Append(@, m)]

Hello(s) == [msg |-> "HELLO", id |-> id[s]]

StartSend(s) ==
  /\ phase[s] = "told"
  /\ \E a \in Addrs :
       /\ \A o \in Slaves : socket[o] # a
       /\ active[a] = NoTransfer /\ toMaster[a] = <<>>
       /\ socket' = [socket EXCEPT ![s] = a]
       /\ Send(a, Hello(s))
  /\ phase' = [phase EXCEPT ![s] = "sending"]
  /\ UNCHANGED <<id, wheel, driverVars, jugglerVars, toSlave, faults>>

Drained(a) == toMaster[a] = <<>> /\ toSlave[a] = <<>>

\* Five seconds without a FETCH: HELLO again.
Prods(s) ==
  /\ phase[s] = "sending"
  /\ Send(socket[s], Hello(s))
  /\ UNCHANGED <<slaveVars, driverVars, jugglerVars, toSlave>>

\* If nothing can come, the slave will wait as long.
Prod(s) == Prods(s) /\ Drained(socket[s]) /\ UNCHANGED faults

Hears(s, kind) ==
  /\ phase[s] = "sending"
  /\ toSlave[socket[s]] # <<>> /\ Head(toSlave[socket[s]]).msg = kind

FetchAnswered(s) ==
  /\ Hears(s, "FETCH")
  /\ toSlave' = [toSlave EXCEPT ![socket[s]] = Tail(@)]
  /\ Send(socket[s], [msg |-> "CHUNK", at |-> Head(toSlave[socket[s]]).at,
                      data |-> <<s, wheel[s]>>])
  /\ UNCHANGED <<slaveVars, driverVars, jugglerVars, faults>>

\* do_send returns SENT.  What the socket has sent may still arrive, but it
\* reads no more.
DoneHeard(s) ==
  /\ Hears(s, "DONE")
  /\ toSlave' = [toSlave EXCEPT ![socket[s]] = <<>>]
  /\ phase' = [phase EXCEPT ![s] = "sent"]
  /\ socket' = [socket EXCEPT ![s] = NoAddr]
  /\ UNCHANGED <<id, wheel, toMaster, driverVars, jugglerVars, faults>>

-----------------------------------------------------------------------------
\* Faults.

Fault(kind) == kind \in Faults /\ faults < MaxFaults /\ faults' = faults + 1

Without(q, n) == SubSeq(q, 1, n - 1) \o SubSeq(q, n + 1, Len(q))

LoseToMaster(a) ==
  /\ Fault("loss")
  /\ \E n \in DOMAIN toMaster[a] :
       toMaster' = [toMaster EXCEPT ![a] = Without(@, n)]
  /\ UNCHANGED <<slaveVars, driverVars, jugglerVars, toSlave>>

\* The loss of DONE is a fault of its own.
LoseToSlave(a) ==
  /\ \E n \in DOMAIN toSlave[a] :
       /\ Fault(IF toSlave[a][n] = Done THEN "lost DONE" ELSE "loss")
       /\ toSlave' = [toSlave EXCEPT ![a] = Without(@, n)]
  /\ UNCHANGED <<slaveVars, driverVars, jugglerVars, toMaster>>

\* A chunk is damaged on the way, or by the disk it is written to.
Damage(a) ==
  /\ Fault("damage")
  /\ \E n \in DOMAIN toMaster[a] :
       /\ toMaster[a][n].msg = "CHUNK"
       /\ toMaster' = [toMaster EXCEPT ![a][n].data = Damaged]
  /\ UNCHANGED <<slaveVars, driverVars, jugglerVars, toSlave>>

\* The master answers, but takes longer than five seconds.
EarlyProd(s) == Prods(s) /\ ~Drained(socket[s]) /\ Fault("delay")

\* The slave is stopped, and the driver forgets it.
Exit(s) ==
  /\ Fault("exit")
  /\ phase' = [phase EXCEPT ![s] = "idle"]
  /\ wheel' = [wheel EXCEPT ![s] = 0]
  /\ known' = known \ {s}
  /\ socket' = [socket EXCEPT ![s] = NoAddr]
  /\ toSlave' = IF socket[s] = NoAddr THEN toSlave
                ELSE [toSlave EXCEPT ![socket[s]] = <<>>]
  /\ UNCHANGED <<id, nextId, jugglerVars, toMaster>>

\* The master is restarted: it forgets all transfers and numbers its slaves
\* from 1 again.
Restart ==
  /\ Fault("restart")
  /\ nextId' = 1 /\ known' = {}
  /\ pending' = [i \in Ids |-> NoTransfer]
  /\ complete' = [i \in Ids |-> NoTransfer]
  /\ active' = [a \in Addrs |-> NoTransfer]
  /\ UNCHANGED <<slaveVars, stored, wires>>

-----------------------------------------------------------------------------

\* What a slave, or the driver for it, does by itself: one thing at a time.
SlaveStep(s) ==
  \/ StartSend(s) \/ Prod(s) \/ FetchAnswered(s) \/ DoneHeard(s)
  \/ SentVerified(s) \/ SentRejected(s)

Next ==
  \/ \E a \in Addrs : HandleFile(a)
  \/ \E s \in Slaves :
       Join(s) \/ Built(s) \/ SlaveStep(s) \/ EarlyProd(s) \/ Exit(s)
  \/ \E a \in Addrs : LoseToMaster(a) \/ LoseToSlave(a) \/ Damage(a)
  \/ Restart

Spec == Init /\ [][Next]_vars

\* Both ends poll their sockets; the Builder's end and the operator are free.
Fairness ==
  /\ \A a \in Addrs : WF_vars(HandleFile(a))
  /\ \A s \in Slaves : WF_vars(SlaveStep(s))

-----------------------------------------------------------------------------
\* Properties.

\* FileJuggler takes a transfer for complete only if every byte has come,
\* although chunks are lost and repeated: "missing" is what was not written.
CompleteMeansComplete ==
  /\ \A a \in Addrs : active[a] # NoTransfer =>
       active[a].missing = {n \in Offsets : active[a].data[n] = Hole}
  /\ \A i \in Ids : complete[i] # NoTransfer =>
       \A n \in Offsets : complete[i].data[n] # Hole

\* A slave that says SENT to a driver that knows it has a complete transfer
\* waiting to be verified: without damage no wheel is sent twice.
SentMeansComplete ==
  \A s \in Slaves : Sent(s) =>
    /\ complete[id[s]] # NoTransfer
    /\ complete[id[s]].file = <<s, wheel[s]>>
    /\ "damage" \notin Faults => Verifies(complete[id[s]])

\* What is taken for missing, for complete, and for sent is so.
DoneMeansComplete == CompleteMeansComplete /\ SentMeansComplete

\* The chunks that are asked for and not yet received.
UnderWay(q) == Cardinality({n \in DOMAIN q : q[n].msg \in {"FETCH", "CHUNK"}})

\* Their number stays below the pipeline size, which the sockets' high-water
\* marks rely on, but for one more window for every HELLO that came too early.
PipelineBounded ==
  \A a \in Addrs :
    UnderWay(toMaster[a]) + UnderWay(toSlave[a]) <= Credit * (1 + faults)

\* Every upload ends, although HELLO, FETCH and CHUNK may be lost.
TransfersEnd ==
  \A s \in Slaves : phase[s] = "sending" ~> phase[s] # "sending"

\* What a file with this content is as a copy of wheel f.
CopyOf(f, data) == IF \A n \in Offsets : data[n] = f THEN "whole" ELSE "broken"

\* For the driver, a copy arrives when FileJuggler has it complete.
ArrivedCopy(s) ==
  IF Wanted(s) = 0 \/ complete[id[s]] = NoTransfer THEN "no"
  ELSE IF complete[id[s]].file # <<s, wheel[s]>> THEN "broken"
  ELSE CopyOf(<<s, wheel[s]>>, complete[id[s]].data)

Copy == INSTANCE FileCopy WITH
  asked <- [s \in Slaves |-> Wanted(s)],
  arrived <- [s \in Slaves |-> ArrivedCopy(s)],
  stored <- [f \in Files |-> IF stored[f] = NoFile THEN "no" ELSE CopyOf(f, stored[f])]

\* The transfer implements FileCopy: whatever is lost, delayed, damaged or
\* restarted, and whoever's transfer is mistaken for another's, the driver sees
\* one copy arrive at a time, and only a whole one is ever published.
ImplementsFileCopy == Copy!CopySpec
=============================================================================
