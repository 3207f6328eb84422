-------------------------- MODULE FileTransferProofs --------------------------
(***************************************************************************)
(* For any number of slaves, sockets, sessions, wheels and chunks, and all *)
(* faults: what FileJuggler takes for complete is, a slave that says SENT  *)
(* has sent its wheel, the pipeline is never overfull, and the transfer    *)
(* implements FileCopy.                                                    *)
(***************************************************************************)
EXTENDS FileTransfer, FiniteSetTheorems, SequenceTheorems, WellFoundedInduction, TLAPS

-----------------------------------------------------------------------------
\* The inductive invariant.

Under(i, a) == active[a] # NoTransfer /\ active[a].id = i

\* No transfer of number i is waiting or under way.
AtRest(i) == pending[i] = NoTransfer /\ \A a \in Addrs : ~Under(i, a)

\* The numbers of the sessions that the driver knows are distinct, and none
\* has been used that is still to be given.
Numbers ==
  /\ \A s \in known : id[s] \in Ids /\ id[s] < nextId
  /\ \A s, r \in known : id[s] = id[r] => s = r
  /\ \A i \in Ids : i >= nextId => AtRest(i) /\ complete[i] = NoTransfer

\* A transfer is in one place at a time.
OnePlace ==
  /\ \A i \in Ids :
       /\ pending[i] # NoTransfer => pending[i].id = i /\ complete[i] = NoTransfer
       /\ complete[i] # NoTransfer => complete[i].id = i /\ AtRest(i)
  /\ \A a \in Addrs : active[a] # NoTransfer => pending[active[a].id] = NoTransfer
  /\ \A a, b \in Addrs :
       active[a] # NoTransfer /\ active[b] # NoTransfer /\ active[a].id = active[b].id
         => a = b

\* A slave has a wheel to send unless it is idle, and the driver has a transfer
\* for that wheel only.
Tasks ==
  /\ \A s \in Slaves : (phase[s] = "idle" <=> wheel[s] = 0) /\ (id[s] = 0 => phase[s] = "idle")
  /\ \A s \in known :
       /\ phase[s] = "idle" => AtRest(id[s]) /\ complete[id[s]] = NoTransfer
       /\ pending[id[s]] # NoTransfer => pending[id[s]].file = <<s, wheel[s]>>
       /\ complete[id[s]] # NoTransfer => complete[id[s]].file = <<s, wheel[s]>>
       /\ \A a \in Addrs : Under(id[s], a) => active[a].file = <<s, wheel[s]>>

\* A socket has one owner, and what it has not read goes when it is closed.
Sockets ==
  /\ \A s \in Slaves : socket[s] # NoAddr <=> phase[s] = "sending"
  /\ \A s, r \in Slaves : socket[s] = socket[r] /\ socket[s] # NoAddr => s = r
  /\ \A a \in Addrs : toSlave[a] # <<>> => \E s \in Slaves : socket[s] = a

\* The messages of a channel.
Mail(q) == {q[n] : n \in DOMAIN q}

\* The driver has a complete transfer of what it waits for.
Has(s) ==
  /\ complete[id[s]] # NoTransfer
  /\ "damage" \notin Faults => Verifies(complete[id[s]])

Fits(s, m) ==
  /\ m.msg = "HELLO" => m.id = id[s]
  /\ m.msg = "CHUNK" /\ "damage" \notin Faults => m.data = <<s, wheel[s]>>

\* Whatever numbers the forgotten slaves go on to use, the socket of a known
\* one carries its own transfer only, and DONE comes when that is complete.
Owners ==
  \A s \in known :
    /\ phase[s] = "sending" =>
         /\ \A m \in Mail(toMaster[socket[s]]) : Fits(s, m)
         /\ active[socket[s]] # NoTransfer =>
              /\ active[socket[s]].id = id[s]
              /\ "damage" \notin Faults =>
                   \A n \in Offsets : active[socket[s]].data[n] \in {Hole, <<s, wheel[s]>>}
         /\ Done \in Mail(toSlave[socket[s]]) => Has(s)
    /\ phase[s] = "sent" => Has(s)

\* What is missing of a file is where it has holes, and nothing else ends a
\* transfer.
HolesOf(t) == {n \in Offsets : t.data[n] = Hole}

Holes ==
  /\ \A i \in Ids :
       /\ pending[i] # NoTransfer => pending[i].missing = Offsets /\ HolesOf(pending[i]) = Offsets
       /\ complete[i] # NoTransfer => HolesOf(complete[i]) = {}
  /\ \A a \in Addrs :
       active[a] # NoTransfer => active[a].missing = HolesOf(active[a]) /\ ~Finished(active[a])
  /\ \A a \in Addrs : \A m \in Mail(toMaster[a]) : m.msg = "CHUNK" => m.data # Hole

Upload == TypeOK /\ Numbers /\ OnePlace /\ Tasks /\ Sockets /\ Owners /\ Holes

-----------------------------------------------------------------------------
\* Sequences, by the messages that they have.

LEMMA MailAppends ==
  ASSUME NEW S, NEW q \in Seq(S), NEW m \in S
  PROVE  Append(q, m) \in Seq(S) /\ Mail(Append(q, m)) = Mail(q) \cup {m}
  <1>1. /\ Append(q, m) \in Seq(S) /\ Len(Append(q, m)) = Len(q) + 1
        /\ \A i \in 1..Len(q) : Append(q, m)[i] = q[i]
        /\ Append(q, m)[Len(q) + 1] = m
    BY AppendProperties
  <1>2. DOMAIN q = 1..Len(q) /\ Len(q) \in Nat /\ DOMAIN Append(q, m) = 1..(Len(q) + 1)
    BY <1>1, LenProperties
  <1>3. 1..(Len(q) + 1) = 1..Len(q) \cup {Len(q) + 1}
    BY <1>2
  <1> QED
    BY <1>1, <1>2, <1>3 DEF Mail

LEMMA MailTaken ==
  ASSUME NEW S, NEW q \in Seq(S), q # <<>>
  PROVE  Tail(q) \in Seq(S) /\ Mail(Tail(q)) \subseteq Mail(q) /\ Head(q) \in Mail(q)
  <1>1. /\ Tail(q) \in Seq(S) /\ Len(Tail(q)) = Len(q) - 1
        /\ \A i \in 1..Len(Tail(q)) : Tail(q)[i] = q[i + 1]
    BY HeadTailProperties
  <1>2. DOMAIN q = 1..Len(q) /\ Len(q) \in Nat \ {0} /\ DOMAIN Tail(q) = 1..(Len(q) - 1)
    BY <1>1, LenProperties, EmptySeq
  <1>3. Head(q) = q[1] /\ 1 \in DOMAIN q
    BY <1>2
  <1>4. \A i \in 1..(Len(q) - 1) : i + 1 \in DOMAIN q /\ Tail(q)[i] = q[i + 1]
    BY <1>1, <1>2
  <1> QED
    BY <1>1, <1>2, <1>3, <1>4 DEF Mail

LEMMA MailJoins ==
  ASSUME NEW S, NEW p \in Seq(S), NEW q \in Seq(S)
  PROVE  /\ p \o q \in Seq(S) /\ Mail(p \o q) \subseteq Mail(p) \cup Mail(q)
         /\ p \o q # <<>> => p # <<>> \/ q # <<>>
  <1>1. /\ p \o q \in Seq(S) /\ Len(p \o q) = Len(p) + Len(q)
        /\ \A i \in 1..(Len(p) + Len(q)) :
             (p \o q)[i] = IF i <= Len(p) THEN p[i] ELSE q[i - Len(p)]
    BY ConcatProperties
  <1>2. /\ DOMAIN p = 1..Len(p) /\ Len(p) \in Nat /\ DOMAIN q = 1..Len(q) /\ Len(q) \in Nat
        /\ DOMAIN (p \o q) = 1..(Len(p) + Len(q))
    BY <1>1, LenProperties
  <1>3. ASSUME NEW i \in DOMAIN (p \o q)
        PROVE  (p \o q)[i] \in Mail(p) \cup Mail(q)
    <2>1. CASE i <= Len(p)
      BY <1>1, <1>2, <2>1 DEF Mail
    <2>2. CASE ~(i <= Len(p))
      <3>1. i - Len(p) \in DOMAIN q /\ (p \o q)[i] = q[i - Len(p)]
        BY <1>1, <1>2, <2>2
      <3> QED
        BY <3>1 DEF Mail
    <2> QED
      BY <2>1, <2>2
  <1>4. Mail(p \o q) \subseteq Mail(p) \cup Mail(q)
    BY <1>3 DEF Mail
  <1>5. p \o q # <<>> => p # <<>> \/ q # <<>>
    BY ConcatEmptySeq
  <1> QED
    BY <1>1, <1>4, <1>5

LEMMA MailLost ==
  ASSUME NEW S, NEW q \in Seq(S), NEW n \in DOMAIN q
  PROVE  Without(q, n) \in Seq(S) /\ Mail(Without(q, n)) \subseteq Mail(q)
  <1>1. DOMAIN q = 1..Len(q) /\ Len(q) \in Nat /\ n \in 1..Len(q)
    BY LenProperties
  <1>2. \A i \in 1..Len(q) : q[i] \in S /\ q[i] \in Mail(q)
    BY <1>1, ElementOfSeq DEF Mail
  <1>3. SubSeq(q, 1, n - 1) \in Seq(S \cap Mail(q))
    BY <1>1, <1>2, SubSeqProperties
  <1>4. SubSeq(q, n + 1, Len(q)) \in Seq(S \cap Mail(q))
    BY <1>1, <1>2, SubSeqProperties
  <1>5. Without(q, n) \in Seq(S \cap Mail(q))
    BY <1>3, <1>4, ConcatProperties DEF Without
  <1>6. Without(q, n) \in Seq(S)
    BY <1>5, SeqMonotonic, S \cap Mail(q) \subseteq S
  <1>7. \A i \in DOMAIN Without(q, n) : Without(q, n)[i] \in S \cap Mail(q)
    BY <1>5, ElementOfSeq, LenProperties
  <1> QED
    BY <1>6, <1>7 DEF Mail

-----------------------------------------------------------------------------
\* fetch.

LEMMA NatLess == OpToRel(<, Nat) = {p \in Nat \X Nat : p[1] < p[2]}
  BY DEF OpToRel

LEMMA LeastIsLeast ==
  ASSUME NEW S \in SUBSET Nat, S # {}
  PROVE  Least(S) \in S /\ \A y \in S : Least(S) <= y
  <1> DEFINE R == {p \in Nat \X Nat : p[1] < p[2]}
  <1>1. IsWellFoundedOn(R, Nat)
    BY NatLessThanWellFounded, NatLess
  <1>2. PICK x \in S : \A y \in S : <<y, x>> \notin R
    <2> HIDE DEF R
    <2> QED
      BY <1>1, WFMin, Zenon
  <1>3. ASSUME NEW y \in S PROVE x <= y
    <2>1. <<y, x>> \in Nat \X Nat /\ <<y, x>>[1] = y /\ <<y, x>>[2] = x
      OBVIOUS
    <2>2. ~(y < x)
      BY <1>2, <2>1, Zenon
    <2> QED
      BY <2>2
  <1> QED
    BY <1>3 DEF Least

\* A set of numbers that has 0 and the successor of each has all up to n.
LEMMA StepByStep ==
  ASSUME NEW n \in Nat, NEW S, 0 \in S, \A k \in 0..n : k \in S /\ k < n => k + 1 \in S
  PROVE  0..n \subseteq S
  <1> DEFINE T == {k \in 0..n : k \notin S}
  <1> SUFFICES ASSUME T # {} PROVE FALSE
    OBVIOUS
  <1>1. T \in SUBSET Nat
    OBVIOUS
  <1>2. PICK m \in T : \A k \in T : m <= k
    BY <1>1, LeastIsLeast
  <1>3. m \in 1..n /\ m - 1 \in 0..n /\ m - 1 \notin T
    BY <1>2
  <1> QED
    BY <1>2, <1>3

LEMMA PickIsMissing ==
  ASSUME NEW t, t.missing \in SUBSET Offsets, t.missing # {}, NEW o
  PROVE  Pick(t, o) \in t.missing
  BY LeastIsLeast DEF Pick, Offsets

\* The numbers that fetch takes in n steps.
Walk(t, n) ==
  {w \in [0..n -> Nat] : w[0] = t.offset /\ \A k \in 1..n : w[k] = Pick(t, w[k - 1]) + 1}

\* There is one for every n, however far the pipeline reaches.
LEMMA WalkExists ==
  ASSUME NEW t, t.missing \in SUBSET Offsets, t.missing # {}, t.offset \in Nat, NEW n \in Nat
  PROVE  Walk(t, n) # {}
  <1> DEFINE S == {k \in Nat : Walk(t, k) # {}}
  <1>1. 0 \in S
    <2>1. [k \in 0..0 |-> t.offset] \in Walk(t, 0)
      BY DEF Walk
    <2> QED
      BY <2>1
  <1>2. ASSUME NEW k \in S
        PROVE  k + 1 \in S
    <2>1. PICK w : w \in Walk(t, k)
      OBVIOUS
    <2> DEFINE v == [j \in 0..(k + 1) |-> IF j = k + 1 THEN Pick(t, w[k]) + 1 ELSE w[j]]
    <2>2. \A j \in 0..k : w[j] \in Nat /\ v[j] = w[j]
      BY <2>1 DEF Walk
    <2>3. Pick(t, w[k]) \in Nat
      BY PickIsMissing DEF Offsets
    <2>4. v \in [0..(k + 1) -> Nat] /\ v[k + 1] = Pick(t, w[k]) + 1
      BY <2>2, <2>3
    <2>5. ASSUME NEW j \in 1..(k + 1)
          PROVE  v[j] = Pick(t, v[j - 1]) + 1
      <3>1. CASE j = k + 1
        BY <3>1, <2>2, <2>4
      <3>2. CASE j # k + 1
        <4>1. j \in 1..k /\ j \in 0..k /\ j - 1 \in 0..k
          BY <3>2
        <4>2. w[j] = Pick(t, w[j - 1]) + 1
          BY <2>1, <4>1 DEF Walk
        <4> QED
          BY <2>2, <4>1, <4>2
      <3> QED
        BY <3>1, <3>2
    <2>6. v[0] = t.offset
      BY <2>1, <2>2 DEF Walk
    <2> HIDE DEF v
    <2>7. v \in Walk(t, k + 1)
      BY <2>4, <2>5, <2>6 DEF Walk
    <2> QED
      BY <2>7
  <1> HIDE DEF S
  <1>3. 0..n \subseteq S
    BY <1>1, <1>2, StepByStep
  <1>4. n \in S
    BY <1>3
  <1> QED
    BY <1>4 DEF S

LEMMA CreditIsNat == Credit \in Nat \ {0}
  <1>1. Full = 0 \/ {Pipeline, Full} \in SUBSET (Nat \ {0})
    BY TransferAssumption
  <1>2. ASSUME Full # 0 PROVE Least({Pipeline, Full}) \in {Pipeline, Full}
    BY <1>1, <1>2, LeastIsLeast
  <1> QED
    BY <1>1, <1>2 DEF Credit

\* The offsets after one fetch or more are those of chunks that were missing.
LEMMA OffsetsAreChunks ==
  ASSUME NEW t \in Transfers, t.missing # {}
  PROVE  /\ Credit \in Nat \ {0}
         /\ \A k \in 1..Credit : OffsetAfter(t)[k] \in 1..Chunks /\ OffsetAfter(t)[k] - 1 \in t.missing
  <1>1. Credit \in Nat \ {0}
    BY CreditIsNat
  <1>2. t.missing \in SUBSET Offsets /\ t.offset \in Nat
    BY DEF Transfers
  <1> DEFINE Def(f) == [n \in 0..Credit |-> IF n = 0 THEN t.offset ELSE Pick(t, f[n - 1]) + 1]
  <1>3. PICK w : w \in Walk(t, Credit)
    BY <1>1, <1>2, WalkExists
  <1>4. w = Def(w)
    <2>1. w \in [0..Credit -> Nat] /\ w[0] = t.offset /\ \A k \in 1..Credit : w[k] = Pick(t, w[k - 1]) + 1
      BY <1>3 DEF Walk
    <2>2. \A k \in 0..Credit : k = 0 \/ k \in 1..Credit
      BY <1>1
    <2>3. \A k \in 0..Credit : w[k] = IF k = 0 THEN t.offset ELSE Pick(t, w[k - 1]) + 1
      BY <2>1, <2>2
    <2> QED
      BY <2>1, <2>3
  <1> DEFINE o == OffsetAfter(t)
  <1>5. o = CHOOSE f : f = Def(f)
    BY DEF OffsetAfter
  <1>6. o = Def(o)
    BY <1>4, <1>5
  <1>7. ASSUME NEW k \in 1..Credit
        PROVE  o[k] \in 1..Chunks /\ o[k] - 1 \in t.missing
    <2>1. k \in 0..Credit /\ k # 0
      BY <1>1
    <2> HIDE DEF o
    <2>2. o[k] = Pick(t, o[k - 1]) + 1
      BY <1>6, <2>1
    <2>3. Pick(t, o[k - 1]) \in t.missing
      BY <1>2, PickIsMissing
    <2> QED
      BY <1>2, <2>2, <2>3, TransferAssumption DEF Offsets
  <1> QED
    BY <1>1, <1>7

-----------------------------------------------------------------------------
\* The effects that several actions have.

Requests == Fetches \cup {Done}
Uploads == Hellos \cup ChunkMsgs

\* Messages go only to a socket that is open.
Reaches(a, new) ==
  /\ toSlave' \in [Addrs -> Seq(Requests)]
  /\ \A b \in Addrs :
       /\ Mail(toSlave'[b]) \subseteq Mail(toSlave[b]) \cup (IF b = a THEN new ELSE {})
       /\ toSlave'[b] # <<>> => toSlave[b] # <<>> \/ \E s \in Slaves : socket[s] = b

LEMMA Delivers ==
  ASSUME TypeOK, NEW a \in Addrs, NEW msgs \in Seq(Requests), Deliver(a, msgs)
  PROVE  Reaches(a, Mail(msgs))
  <1>1. toSlave \in [Addrs -> Seq(Requests)] /\ toSlave[a] \in Seq(Requests)
    BY DEF TypeOK, Requests
  <1>2. CASE \E s \in Slaves : socket[s] = a
    <2>1. toSlave' = [toSlave EXCEPT ![a] = @ \o msgs]
      BY <1>2 DEF Deliver
    <2>2. toSlave[a] \o msgs \in Seq(Requests) /\ Mail(toSlave[a] \o msgs) \subseteq Mail(toSlave[a]) \cup Mail(msgs)
      BY <1>1, MailJoins
    <2> QED
      BY <1>1, <1>2, <2>1, <2>2 DEF Reaches
  <1>3. CASE ~\E s \in Slaves : socket[s] = a
    BY <1>1, <1>3 DEF Reaches, Deliver
  <1> QED
    BY <1>2, <1>3

\* The loop of fetches moves the offset of a transfer and nothing else of it.
LEMMA Fetching ==
  ASSUME TypeOK, NEW a \in Addrs, NEW t \in Transfers, t.missing # {}, NEW n \in {1, Credit},
         FetchMore(a, t, n)
  PROVE  /\ Reaches(a, Fetches)
         /\ \E u \in Transfers :
              /\ active' = [active EXCEPT ![a] = u]
              /\ u.id = t.id /\ u.file = t.file /\ u.missing = t.missing /\ u.data = t.data
  <1> DEFINE o == OffsetAfter(t)
  <1>1. /\ Credit \in Nat \ {0}
        /\ \A k \in 1..Credit : o[k] \in 1..Chunks /\ o[k] - 1 \in t.missing
    BY OffsetsAreChunks
  <1>2. n \in Nat \ {0} /\ 1..n \subseteq 1..Credit
    BY <1>1
  <1> HIDE DEF o
  <1>3. PICK msgs : msgs = [k \in 1..n |-> [msg |-> "FETCH", at |-> o[k] - 1]]
    OBVIOUS
  <1>4. \A k \in 1..n : o[k] - 1 \in Offsets
    BY <1>1, <1>2 DEF Transfers
  <1>5. msgs \in [1..n -> Fetches]
    BY <1>3, <1>4 DEF Fetches
  <1>6. msgs \in Seq(Requests) /\ Mail(msgs) \subseteq Fetches
    BY <1>2, <1>5 DEF Requests, Mail
  <1>7. Deliver(a, msgs)
    BY <1>3 DEF FetchMore, o
  <1>8. Reaches(a, Mail(msgs))
    BY <1>6, <1>7, Delivers
  <1>9. Reaches(a, Fetches)
    BY <1>6, <1>8 DEF Reaches
  <1> DEFINE u == [t EXCEPT !.offset = o[n]]
  <1>10. active' = [active EXCEPT ![a] = u]
    BY DEF FetchMore, o
  <1>11. o[n] \in 0..Chunks
    BY <1>1, <1>2, TransferAssumption
  <1>12. /\ u \in Transfers
         /\ u.id = t.id /\ u.file = t.file /\ u.missing = t.missing /\ u.data = t.data
    BY <1>11 DEF Transfers
  <1> QED
    BY <1>9, <1>10, <1>12

\* The master reads one message.
LEMMA Taking ==
  ASSUME TypeOK, NEW a \in Addrs, NEW kind, Receives(a, kind), Take(a)
  PROVE  /\ toMaster' \in [Addrs -> Seq(Uploads)]
         /\ \A b \in Addrs : Mail(toMaster'[b]) \subseteq Mail(toMaster[b])
         /\ Head(toMaster[a]) \in Mail(toMaster[a]) /\ Head(toMaster[a]).msg = kind
         /\ kind = "HELLO" => Head(toMaster[a]).id \in Ids
         /\ kind = "CHUNK" => Head(toMaster[a]).at \in Offsets /\ Head(toMaster[a]).data \in Contents
  <1>1. toMaster[a] \in Seq(Uploads) /\ toMaster[a] # <<>>
    BY DEF TypeOK, Uploads, Receives
  <1>2. /\ Tail(toMaster[a]) \in Seq(Uploads) /\ Mail(Tail(toMaster[a])) \subseteq Mail(toMaster[a])
        /\ Head(toMaster[a]) \in Mail(toMaster[a])
    BY <1>1, MailTaken
  <1>3. Head(toMaster[a]) \in Uploads
    BY <1>1, HeadTailProperties
  <1> QED
    BY <1>2, <1>3 DEF TypeOK, Take, Receives, Uploads, Hellos, ChunkMsgs

\* A slave sends one message.
LEMMA Sending ==
  ASSUME TypeOK, NEW a \in Addrs, NEW m \in Uploads, Send(a, m)
  PROVE  /\ toMaster' \in [Addrs -> Seq(Uploads)]
         /\ \A b \in Addrs :
              Mail(toMaster'[b]) = Mail(toMaster[b]) \cup (IF b = a THEN {m} ELSE {})
  <1>1. toMaster \in [Addrs -> Seq(Uploads)] /\ toMaster[a] \in Seq(Uploads)
    BY DEF TypeOK, Uploads
  <1>2. /\ Append(toMaster[a], m) \in Seq(Uploads)
        /\ Mail(Append(toMaster[a], m)) = Mail(toMaster[a]) \cup {m}
    BY <1>1, MailAppends
  <1> QED
    BY <1>1, <1>2 DEF Send

-----------------------------------------------------------------------------
\* Actions that only move messages.

LEMMA InitUpload == Init => Upload
  <1> SUFFICES ASSUME Init PROVE Upload
    OBVIOUS
  <1> USE DEF Init
  <1>1. TypeOK
    BY TransferAssumption DEF TypeOK, Ids
  <1>2. Numbers /\ OnePlace /\ Sockets
    BY DEF Numbers, OnePlace, Sockets, AtRest, Under
  <1>3. Tasks /\ Owners
    BY DEF Tasks, Owners
  <1>4. Holes
    BY DEF Holes, Mail
  <1> QED
    BY <1>1, <1>2, <1>3, <1>4 DEF Upload

LEMMA MovesMail ==
  ASSUME Upload,
         UNCHANGED <<slaveVars, driverVars, jugglerVars>>, faults' \in 0..MaxFaults,
         toMaster' \in [Addrs -> Seq(Uploads)], toSlave' \in [Addrs -> Seq(Requests)],
         \A a \in Addrs : \A m \in Mail(toMaster'[a]) \ Mail(toMaster[a]) :
           /\ \A s \in known : phase[s] = "sending" /\ socket[s] = a => Fits(s, m)
           /\ m.msg = "CHUNK" => m.data # Hole,
         \A a \in Addrs :
           /\ Mail(toSlave'[a]) \subseteq Mail(toSlave[a])
           /\ toSlave'[a] # <<>> => \E s \in Slaves : socket[s] = a
  PROVE  Upload'
  <1> USE DEF Upload, slaveVars, driverVars, jugglerVars
  <1>1. TypeOK'
    BY DEF TypeOK, Uploads, Requests
  <1>2. Numbers' /\ OnePlace'
    BY DEF Numbers, OnePlace, AtRest, Under
  <1>3. Tasks'
    BY DEF Tasks, AtRest, Under
  <1>4. Sockets'
    BY DEF Sockets
  <1>5. \A s \in known : socket[s] \in Addrs \/ phase[s] # "sending"
    BY DEF TypeOK, Sockets
  <1>6. Owners'
    <2>1. \A s : Has(s)' <=> Has(s)
      BY DEF Has, Verifies
    <2>2. \A s, m : Fits(s, m)' <=> Fits(s, m)
      BY DEF Fits
    <2>3. ASSUME NEW s \in known, phase[s] = "sending"
          PROVE  \A m \in Mail(toMaster'[socket[s]]) : Fits(s, m)
      BY <1>5, <2>3 DEF Owners
    <2> QED
      BY <1>5, <2>1, <2>2, <2>3 DEF Owners
  <1>7. Holes'
    BY DEF Holes, HolesOf, Finished
  <1> QED
    BY <1>1, <1>2, <1>3, <1>4, <1>6, <1>7

LEMMA FaultCounts ==
  ASSUME TypeOK, NEW kind, Fault(kind)
  PROVE  faults' \in 0..MaxFaults /\ kind \in Faults
  BY TransferAssumption DEF TypeOK, Fault

\* What an unchanged channel has is well-typed; nothing waits at a closed socket.
LEMMA Channels ==
  ASSUME Upload
  PROVE  /\ toMaster \in [Addrs -> Seq(Uploads)] /\ toSlave \in [Addrs -> Seq(Requests)]
         /\ \A a \in Addrs : toSlave[a] # <<>> => \E s \in Slaves : socket[s] = a
         /\ \A s \in Slaves : phase[s] = "sending" => socket[s] \in Addrs
         /\ faults \in 0..MaxFaults
  BY DEF Upload, TypeOK, Sockets, Uploads, Requests

LEMMA HelloIgnoredUpload ==
  ASSUME Upload, NEW a \in Addrs, HelloIgnored(a)
  PROVE  Upload'
  <1>1. Receives(a, "HELLO") /\ Take(a) /\ UNCHANGED <<toSlave, jugglerVars, driverVars, slaveVars, faults>>
    BY DEF HelloIgnored
  <1>2. /\ toMaster' \in [Addrs -> Seq(Uploads)]
        /\ \A b \in Addrs : Mail(toMaster'[b]) \subseteq Mail(toMaster[b])
    BY <1>1, Taking DEF Upload
  <1> QED
    BY <1>1, <1>2, Channels, MovesMail

LEMMA ChunkIgnoredUpload ==
  ASSUME Upload, NEW a \in Addrs, ChunkIgnored(a)
  PROVE  Upload'
  <1>1. Receives(a, "CHUNK") /\ Take(a) /\ UNCHANGED <<toSlave, jugglerVars, driverVars, slaveVars, faults>>
    BY DEF ChunkIgnored
  <1>2. /\ toMaster' \in [Addrs -> Seq(Uploads)]
        /\ \A b \in Addrs : Mail(toMaster'[b]) \subseteq Mail(toMaster[b])
    BY <1>1, Taking DEF Upload
  <1> QED
    BY <1>1, <1>2, Channels, MovesMail

\* A slave's messages fit it.
LEMMA SendsUpload ==
  ASSUME Upload, NEW s \in Slaves, phase[s] = "sending", NEW m \in Uploads,
         Send(socket[s], m), Fits(s, m), m.msg = "CHUNK" => m.data # Hole,
         UNCHANGED <<slaveVars, driverVars, jugglerVars>>, faults' \in 0..MaxFaults,
         toSlave' \in [Addrs -> Seq(Requests)],
         \A a \in Addrs : Mail(toSlave'[a]) \subseteq Mail(toSlave[a])
                          /\ (toSlave'[a] # <<>> => toSlave[a] # <<>>)
  PROVE  Upload'
  <1>1. PICK a \in Addrs : a = socket[s]
    BY Channels
  <1>2. Send(a, m)
    BY <1>1
  <1>3. /\ toMaster' \in [Addrs -> Seq(Uploads)]
        /\ \A b \in Addrs : Mail(toMaster'[b]) = Mail(toMaster[b]) \cup (IF b = a THEN {m} ELSE {})
    BY <1>2, Sending DEF Upload
  <1>4. \A r \in Slaves : socket[r] = a => r = s
    BY <1>1, TransferAssumption DEF Upload, Sockets
  <1>5. known \subseteq Slaves
    BY DEF Upload, TypeOK
  <1>6. \A b \in Addrs : \A x \in Mail(toMaster'[b]) \ Mail(toMaster[b]) : b = a /\ x = m
    BY <1>3
  <1>7. \A b \in Addrs : \A x \in Mail(toMaster'[b]) \ Mail(toMaster[b]) :
          /\ \A r \in known : phase[r] = "sending" /\ socket[r] = b => Fits(r, x)
          /\ x.msg = "CHUNK" => x.data # Hole
    BY <1>4, <1>5, <1>6
  <1> QED
    BY <1>3, <1>7, Channels, MovesMail

LEMMA ProdsUpload ==
  ASSUME Upload, NEW s \in Slaves, Prods(s), faults' \in 0..MaxFaults
  PROVE  Upload'
  <1>1. PICK m : m = Hello(s)
    OBVIOUS
  <1>2. m \in Uploads /\ m.msg = "HELLO" /\ m.id = id[s]
    BY <1>1 DEF Hello, Uploads, Hellos, Upload, TypeOK, Tasks, Prods
  <1>3. /\ phase[s] = "sending" /\ Send(socket[s], m)
        /\ UNCHANGED <<slaveVars, driverVars, jugglerVars, toSlave>>
    BY <1>1 DEF Prods
  <1>4. Fits(s, m)
    BY <1>2 DEF Fits
  <1> QED
    BY <1>2, <1>3, <1>4, Channels, SendsUpload

LEMMA FetchAnsweredUpload ==
  ASSUME Upload, NEW s \in Slaves, FetchAnswered(s)
  PROVE  Upload'
  <1>1. /\ phase[s] = "sending" /\ toSlave[socket[s]] # <<>> /\ Head(toSlave[socket[s]]).msg = "FETCH"
        /\ toSlave' = [toSlave EXCEPT ![socket[s]] = Tail(@)]
        /\ UNCHANGED <<slaveVars, driverVars, jugglerVars, faults>>
    BY DEF FetchAnswered, Hears
  <1>2. PICK a \in Addrs : a = socket[s]
    BY <1>1, Channels
  <1>3. PICK q \in Seq(Requests) : q = toSlave[a]
    BY Channels
  <1>4. Tail(q) \in Seq(Requests) /\ Mail(Tail(q)) \subseteq Mail(q) /\ Head(q) \in Requests
    BY <1>1, <1>2, <1>3, MailTaken, HeadTailProperties
  <1>5. Head(q).at \in Offsets
    BY <1>1, <1>2, <1>3, <1>4 DEF Requests, Fetches, Done
  <1>6. /\ toSlave' \in [Addrs -> Seq(Requests)]
        /\ \A b \in Addrs : Mail(toSlave'[b]) \subseteq Mail(toSlave[b])
                            /\ (toSlave'[b] # <<>> => toSlave[b] # <<>>)
    BY <1>1, <1>2, <1>3, <1>4, Channels
  <1>7. PICK m : m = [msg |-> "CHUNK", at |-> Head(q).at, data |-> <<s, wheel[s]>>]
    OBVIOUS
  <1>8. <<s, wheel[s]>> \in Files
    BY <1>1 DEF Upload, TypeOK, Tasks, Files
  <1>9. <<s, wheel[s]>> # Hole
    BY DEF Hole
  <1>10. m \in Uploads /\ m.msg = "CHUNK" /\ m.data = <<s, wheel[s]>>
    BY <1>5, <1>7, <1>8 DEF Uploads, ChunkMsgs, Contents
  <1>11. Fits(s, m)
    BY <1>10 DEF Fits
  <1>12. Send(socket[s], m)
    BY <1>2, <1>3, <1>7 DEF FetchAnswered
  <1> QED
    BY <1>1, <1>6, <1>9, <1>10, <1>11, <1>12, Channels, SendsUpload

LEMMA LoseToMasterUpload ==
  ASSUME Upload, NEW a \in Addrs, LoseToMaster(a)
  PROVE  Upload'
  <1>1. PICK q \in Seq(Uploads) : q = toMaster[a]
    BY Channels
  <1>2. PICK n \in DOMAIN q : toMaster' = [toMaster EXCEPT ![a] = Without(@, n)]
    BY <1>1 DEF LoseToMaster
  <1>3. Without(q, n) \in Seq(Uploads) /\ Mail(Without(q, n)) \subseteq Mail(q)
    BY MailLost
  <1>4. /\ toMaster' \in [Addrs -> Seq(Uploads)]
        /\ \A b \in Addrs : Mail(toMaster'[b]) \subseteq Mail(toMaster[b])
    BY <1>1, <1>2, <1>3, Channels
  <1>5. faults' \in 0..MaxFaults /\ UNCHANGED <<slaveVars, driverVars, jugglerVars, toSlave>>
    BY FaultCounts DEF LoseToMaster, Upload
  <1> QED
    BY <1>4, <1>5, Channels, MovesMail

LEMMA LoseToSlaveUpload ==
  ASSUME Upload, NEW a \in Addrs, LoseToSlave(a)
  PROVE  Upload'
  <1>1. PICK q \in Seq(Requests) : q = toSlave[a]
    BY Channels
  <1>2. PICK n \in DOMAIN q :
          /\ toSlave' = [toSlave EXCEPT ![a] = Without(@, n)]
          /\ \E kind \in {"loss", "lost DONE"} : Fault(kind)
    BY <1>1 DEF LoseToSlave
  <1>3. Without(q, n) \in Seq(Requests) /\ Mail(Without(q, n)) \subseteq Mail(q)
    BY MailLost
  <1>4. q # <<>>
    OBVIOUS
  <1>5. /\ toSlave' \in [Addrs -> Seq(Requests)]
        /\ \A b \in Addrs : Mail(toSlave'[b]) \subseteq Mail(toSlave[b])
                            /\ (toSlave'[b] # <<>> => toSlave[b] # <<>>)
    BY <1>1, <1>2, <1>3, <1>4, Channels
  <1>6. faults' \in 0..MaxFaults /\ UNCHANGED <<slaveVars, driverVars, jugglerVars, toMaster>>
    BY <1>2, FaultCounts DEF LoseToSlave, Upload
  <1> QED
    BY <1>5, <1>6, Channels, MovesMail

LEMMA DamageUpload ==
  ASSUME Upload, NEW a \in Addrs, Damage(a)
  PROVE  Upload'
  <1>1. PICK q \in Seq(Uploads) : q = toMaster[a]
    BY Channels
  <1>2. PICK n \in DOMAIN q :
          q[n].msg = "CHUNK" /\ toMaster' = [toMaster EXCEPT ![a][n].data = Damaged]
    BY <1>1 DEF Damage
  <1> DEFINE e == [q[n] EXCEPT !.data = Damaged]
  <1>3. n \in 1..Len(q) /\ q[n] \in Uploads
    BY ElementOfSeq, LenProperties
  <1>4. e \in Uploads /\ e.msg = "CHUNK" /\ e.data = Damaged
    BY <1>2, <1>3 DEF Uploads, Hellos, ChunkMsgs, Contents
  <1> HIDE DEF e
  <1> DEFINE r == [q EXCEPT ![n] = e]
  <1>5. /\ r \in Seq(Uploads) /\ Len(r) = Len(q)
        /\ \A j \in 1..Len(q) : r[j] = IF j = n THEN e ELSE q[j]
    BY <1>3, <1>4, ExceptSeq
  <1>6. toMaster' = [toMaster EXCEPT ![a] = r]
    BY <1>1, <1>2 DEF e
  <1> HIDE DEF r
  <1>7. Mail(r) \subseteq Mail(q) \cup {e}
    BY <1>5, LenProperties DEF Mail
  <1>8. /\ toMaster' \in [Addrs -> Seq(Uploads)]
        /\ \A b \in Addrs : \A m \in Mail(toMaster'[b]) \ Mail(toMaster[b]) : m = e
    BY <1>1, <1>5, <1>6, <1>7, Channels
  <1>9. "damage" \in Faults /\ faults' \in 0..MaxFaults
        /\ UNCHANGED <<slaveVars, driverVars, jugglerVars, toSlave>>
    BY FaultCounts DEF Damage, Upload
  <1>10. Damaged # Hole
    BY DEF Damaged, Hole
  <1>11. \A s \in known : Fits(s, e)
    BY <1>4, <1>9 DEF Fits
  <1> QED
    BY <1>4, <1>8, <1>9, <1>10, <1>11, Channels, MovesMail

-----------------------------------------------------------------------------
\* FileJuggler.

LEMMA Something ==
  ASSUME Upload
  PROVE  /\ \A a \in Addrs : active[a] # NoTransfer => active[a] \in Transfers /\ active[a].id \in Ids
         /\ \A i \in Ids : pending[i] # NoTransfer => pending[i] \in Transfers
         /\ \A i \in Ids : complete[i] # NoTransfer => complete[i] \in Transfers
         /\ \A t \in Transfers : t # NoTransfer
         /\ known \subseteq Slaves /\ \A s \in known : id[s] \in Ids
  BY NothingAssumption DEF Upload, TypeOK, Transfers, Numbers

LEMMA FetchesAreNotDone ==
  ASSUME NEW a, NEW b \in Addrs, Reaches(a, Fetches), Done \in Mail(toSlave'[b])
  PROVE  Done \in Mail(toSlave[b])
  <1>1. Done \notin Fetches
    BY DEF Done, Fetches
  <1> QED
    BY <1>1 DEF Reaches

\* A transfer goes on at its address.
LEMMA Continues ==
  ASSUME Upload, NEW a \in Addrs, NEW u \in Transfers, active[a] # NoTransfer,
         active' = [active EXCEPT ![a] = u],
         u.id = active[a].id, u.file = active[a].file, u.missing = HolesOf(u), ~Finished(u),
         \A s \in known : phase[s] = "sending" /\ socket[s] = a /\ "damage" \notin Faults =>
           \A n \in Offsets : u.data[n] \in {Hole, <<s, wheel[s]>>},
         UNCHANGED <<pending, complete, stored, driverVars, slaveVars, faults>>,
         Reaches(a, Fetches), toMaster' \in [Addrs -> Seq(Uploads)],
         \A b \in Addrs : Mail(toMaster'[b]) \subseteq Mail(toMaster[b])
  PROVE  Upload'
  <1> USE DEF driverVars, slaveVars
  <1>1. TypeOK'
    BY DEF Upload, TypeOK, Uploads, Requests, Reaches
  <1>2. active \in [Addrs -> Transfers \cup {NoTransfer}]
    BY DEF Upload, TypeOK
  <1>3. u # NoTransfer /\ active'[a] = u /\ \A b \in Addrs : b # a => active'[b] = active[b]
    BY <1>2, Something
  <1>4. \A b \in Addrs :
          /\ active'[b] = NoTransfer <=> active[b] = NoTransfer
          /\ active'[b].id = active[b].id /\ active'[b].file = active[b].file
    BY <1>3
  <1>5. \A i : AtRest(i)' <=> AtRest(i)
    BY <1>4 DEF AtRest, Under
  <1>6. Numbers'
    BY <1>5 DEF Upload, Numbers
  <1>7. OnePlace'
    BY <1>4, <1>5 DEF Upload, OnePlace
  <1>8. Tasks'
    <2>1. \A i : \A b \in Addrs : Under(i, b)' <=> Under(i, b)
      BY <1>4 DEF Under
    <2>2. \A s \in known : \A b \in Addrs :
            Under(id[s], b)' => active'[b].file = <<s, wheel[s]>>
      BY <1>4, <2>1 DEF Upload, Tasks
    <2> QED
      BY <1>5, <2>2 DEF Upload, Tasks
  <1>9. Sockets'
    BY DEF Upload, Sockets, Reaches
  <1>10. Owners'
    <2>1. \A s : Has(s)' <=> Has(s)
      BY DEF Has, Verifies
    <2>2. \A s, m : Fits(s, m)' <=> Fits(s, m)
      BY DEF Fits
    <2>3. SUFFICES ASSUME NEW s \in known, phase[s] = "sending"
          PROVE  /\ \A m \in Mail(toMaster'[socket[s]]) : Fits(s, m)
                 /\ active'[socket[s]] # NoTransfer =>
                      /\ active'[socket[s]].id = id[s]
                      /\ "damage" \notin Faults =>
                           \A n \in Offsets : active'[socket[s]].data[n] \in {Hole, <<s, wheel[s]>>}
                 /\ Done \in Mail(toSlave'[socket[s]]) => Has(s)
      BY <2>1, <2>2 DEF Upload, Owners
    <2>4. s \in Slaves /\ socket[s] \in Addrs
      BY <2>3, Channels, Something
    <2>5. \A m \in Mail(toMaster'[socket[s]]) : Fits(s, m)
      BY <2>3, <2>4 DEF Upload, Owners
    <2>6. Done \in Mail(toSlave'[socket[s]]) => Has(s)
      BY <2>3, <2>4, FetchesAreNotDone DEF Upload, Owners
    <2>7. CASE socket[s] = a
      BY <1>3, <2>3, <2>5, <2>6, <2>7 DEF Upload, Owners
    <2>8. CASE socket[s] # a
      BY <1>3, <2>3, <2>4, <2>5, <2>6, <2>8 DEF Upload, Owners
    <2> QED
      BY <2>7, <2>8
  <1>11. Holes'
    <2>1. \A t : HolesOf(t)' = HolesOf(t) /\ (Finished(t)' <=> Finished(t))
      BY DEF HolesOf, Finished
    <2> QED
      BY <1>3, <2>1 DEF Upload, Holes
  <1> QED
    BY <1>1, <1>6, <1>7, <1>8, <1>9, <1>10, <1>11 DEF Upload

\* What a chunk does to a transfer.
LEMMA ChunkFills ==
  ASSUME NEW t \in Transfers, NEW m, m.at \in Offsets, m.data \in Contents, m.data # Hole,
         t.missing = HolesOf(t)
  PROVE  LET u == Chunk(t, m) IN
         /\ u \in Transfers /\ u.id = t.id /\ u.file = t.file
         /\ u.missing = HolesOf(u)
         /\ \A n \in Offsets : u.data[n] = IF n = m.at THEN m.data ELSE t.data[n]
  <1> DEFINE u == Chunk(t, m)
  <1>1. t.data \in [Offsets -> Contents] /\ t.missing \in SUBSET Offsets
    BY DEF Transfers, Data
  <1>2. /\ u.id = t.id /\ u.file = t.file
        /\ u.missing = t.missing \ {m.at} /\ u.data = [t.data EXCEPT ![m.at] = m.data]
        /\ u \in Transfers
    BY <1>1 DEF Chunk, Transfers, Data
  <1> HIDE DEF u
  <1>3. \A n \in Offsets : u.data[n] = IF n = m.at THEN m.data ELSE t.data[n]
    BY <1>1, <1>2
  <1>4. u.missing = HolesOf(u)
    BY <1>2, <1>3 DEF HolesOf
  <1> QED
    BY <1>2, <1>3, <1>4 DEF u

LEMMA HelloProdsUpload ==
  ASSUME Upload, NEW a \in Addrs, HelloProds(a)
  PROVE  Upload'
  <1>1. PICK t : t = active[a]
    OBVIOUS
  <1>2. /\ Receives(a, "HELLO") /\ active[a] # NoTransfer /\ FetchMore(a, t, Credit) /\ Take(a)
        /\ UNCHANGED <<pending, complete, stored, driverVars, slaveVars, faults>>
    BY <1>1 DEF HelloProds
  <1>3. t \in Transfers /\ t.missing = HolesOf(t) /\ t.missing # {}
    BY <1>1, <1>2, Something DEF Upload, Holes, Finished
  <1>4. /\ Reaches(a, Fetches)
        /\ \E u \in Transfers :
             /\ active' = [active EXCEPT ![a] = u]
             /\ u.id = t.id /\ u.file = t.file /\ u.missing = t.missing /\ u.data = t.data
    BY <1>2, <1>3, Fetching DEF Upload
  <1>5. PICK u \in Transfers :
          /\ active' = [active EXCEPT ![a] = u]
          /\ u.id = t.id /\ u.file = t.file /\ u.missing = t.missing /\ u.data = t.data
    BY <1>4
  <1>6. u.missing = HolesOf(u) /\ ~Finished(u)
    BY <1>3, <1>5 DEF HolesOf, Finished
  <1>7. \A s \in known : phase[s] = "sending" /\ socket[s] = a /\ "damage" \notin Faults =>
          \A n \in Offsets : u.data[n] \in {Hole, <<s, wheel[s]>>}
    BY <1>1, <1>2, <1>5 DEF Upload, Owners
  <1>8. /\ toMaster' \in [Addrs -> Seq(Uploads)]
        /\ \A b \in Addrs : Mail(toMaster'[b]) \subseteq Mail(toMaster[b])
    BY <1>2, Taking DEF Upload
  <1> QED
    BY <1>1, <1>2, <1>4, <1>5, <1>6, <1>7, <1>8, Continues

LEMMA ChunkStoredUpload ==
  ASSUME Upload, NEW a \in Addrs, ChunkStored(a)
  PROVE  Upload'
  <1>1. PICK t, m : t = active[a] /\ m = Head(toMaster[a])
    OBVIOUS
  <1>2. PICK v : v = Chunk(t, m)
    OBVIOUS
  <1>3. /\ Receives(a, "CHUNK") /\ active[a] # NoTransfer /\ ~Finished(v)
        /\ FetchMore(a, v, 1) /\ Take(a)
        /\ UNCHANGED <<pending, complete, stored, driverVars, slaveVars, faults>>
    BY <1>1, <1>2 DEF ChunkStored
  <1>4. /\ toMaster' \in [Addrs -> Seq(Uploads)]
        /\ \A b \in Addrs : Mail(toMaster'[b]) \subseteq Mail(toMaster[b])
        /\ m \in Mail(toMaster[a]) /\ m.msg = "CHUNK" /\ m.at \in Offsets /\ m.data \in Contents
    BY <1>1, <1>3, Taking DEF Upload
  <1>5. m.data # Hole
    BY <1>4 DEF Upload, Holes
  <1>6. t \in Transfers /\ t.missing = HolesOf(t)
    BY <1>1, <1>3, Something DEF Upload, Holes
  <1>7. /\ v \in Transfers /\ v.id = t.id /\ v.file = t.file /\ v.missing = HolesOf(v)
        /\ \A n \in Offsets : v.data[n] = IF n = m.at THEN m.data ELSE t.data[n]
    BY <1>2, <1>4, <1>5, <1>6, ChunkFills
  <1>8. v.missing # {}
    BY <1>3 DEF Finished
  <1>9. /\ Reaches(a, Fetches)
        /\ \E u \in Transfers :
             /\ active' = [active EXCEPT ![a] = u]
             /\ u.id = v.id /\ u.file = v.file /\ u.missing = v.missing /\ u.data = v.data
    BY <1>3, <1>7, <1>8, Fetching DEF Upload
  <1>10. PICK u \in Transfers :
           /\ active' = [active EXCEPT ![a] = u]
           /\ u.id = v.id /\ u.file = v.file /\ u.missing = v.missing /\ u.data = v.data
    BY <1>9
  <1>11. u.missing = HolesOf(u) /\ ~Finished(u)
    BY <1>7, <1>8, <1>10 DEF HolesOf, Finished
  <1>12. ASSUME NEW s \in known, phase[s] = "sending", socket[s] = a, "damage" \notin Faults
         PROVE  \A n \in Offsets : u.data[n] \in {Hole, <<s, wheel[s]>>}
    <2>1. m.data = <<s, wheel[s]>>
      BY <1>4, <1>12 DEF Upload, Owners, Fits
    <2>2. \A n \in Offsets : t.data[n] \in {Hole, <<s, wheel[s]>>}
      BY <1>1, <1>3, <1>12 DEF Upload, Owners
    <2> QED
      BY <2>1, <2>2, <1>7, <1>10
  <1> QED
    BY <1>1, <1>3, <1>4, <1>7, <1>9, <1>10, <1>11, <1>12, Continues

\* A transfer that waited begins at an address.
LEMMA HelloStartsUpload ==
  ASSUME Upload, NEW a \in Addrs, HelloStarts(a)
  PROVE  Upload'
  <1>1. PICK i, t : i = Head(toMaster[a]).id /\ t = pending[i]
    OBVIOUS
  <1>2. /\ Receives(a, "HELLO") /\ active[a] = NoTransfer /\ pending[i] # NoTransfer
        /\ pending' = [pending EXCEPT ![i] = NoTransfer]
        /\ FetchMore(a, t, Credit) /\ Take(a)
        /\ UNCHANGED <<complete, stored, driverVars, slaveVars, faults>>
    BY <1>1 DEF HelloStarts
  <1>3. /\ toMaster' \in [Addrs -> Seq(Uploads)]
        /\ \A b \in Addrs : Mail(toMaster'[b]) \subseteq Mail(toMaster[b])
        /\ Head(toMaster[a]) \in Mail(toMaster[a]) /\ Head(toMaster[a]).msg = "HELLO" /\ i \in Ids
    BY <1>1, <1>2, Taking DEF Upload
  <1>4. t \in Transfers /\ t.id = i /\ t.missing = Offsets /\ HolesOf(t) = Offsets /\ complete[i] = NoTransfer
    BY <1>1, <1>2, <1>3, Something DEF Upload, Holes, OnePlace
  <1>5. Offsets # {}
    BY TransferAssumption DEF Offsets
  <1>6. /\ Reaches(a, Fetches)
        /\ \E u \in Transfers :
             /\ active' = [active EXCEPT ![a] = u]
             /\ u.id = t.id /\ u.file = t.file /\ u.missing = t.missing /\ u.data = t.data
    BY <1>2, <1>4, <1>5, Fetching DEF Upload
  <1>7. PICK u \in Transfers :
          /\ active' = [active EXCEPT ![a] = u]
          /\ u.id = i /\ u.file = t.file /\ u.missing = Offsets /\ u.data = t.data
    BY <1>4, <1>6
  <1>8. /\ UNCHANGED <<complete, stored, nextId, known, phase, id, socket, wheel, faults>>
        /\ pending'[i] = NoTransfer /\ \A j \in Ids : j # i => pending'[j] = pending[j]
        /\ u # NoTransfer /\ active'[a] = u /\ \A b \in Addrs : b # a => active'[b] = active[b]
    BY <1>2, <1>3, <1>7, Something DEF Upload, TypeOK, driverVars, slaveVars
  <1>9. TypeOK'
    BY <1>2, <1>3, <1>6, <1>7, <1>8 DEF Upload, TypeOK, Reaches, Uploads, Requests
  <1>10. \A j \in Ids : AtRest(j) => j # i
    BY <1>2 DEF AtRest
  <1>11. \A j \in Ids : j # i => (AtRest(j)' <=> AtRest(j))
    BY <1>2, <1>7, <1>8 DEF AtRest, Under
  <1>12. Numbers'
    BY <1>8, <1>10, <1>11 DEF Upload, Numbers
  <1>13. \A b \in Addrs : ~Under(i, b)
    <2>1. \A b \in Addrs : active[b] # NoTransfer => pending[active[b].id] = NoTransfer
      BY DEF Upload, OnePlace
    <2> QED
      BY <2>1, <1>2 DEF Under
  <1>14. OnePlace'
    <2>1. \A j \in Ids : pending'[j] # NoTransfer => pending[j] = pending'[j] /\ j # i
      BY <1>8
    <2>2. \A j \in Ids :
            /\ pending'[j] # NoTransfer => pending'[j].id = j /\ complete'[j] = NoTransfer
            /\ complete'[j] # NoTransfer => complete'[j].id = j /\ AtRest(j)'
      BY <2>1, <1>4, <1>8, <1>11 DEF Upload, OnePlace
    <2>3. \A b \in Addrs : active'[b] # NoTransfer => pending'[active'[b].id] = NoTransfer
      BY <1>7, <1>8, Something DEF Upload, OnePlace
    <2>4. \A b, c \in Addrs :
            active'[b] # NoTransfer /\ active'[c] # NoTransfer /\ active'[b].id = active'[c].id => b = c
      BY <1>7, <1>8, <1>13 DEF Upload, OnePlace, Under
    <2> QED
      BY <2>2, <2>3, <2>4 DEF OnePlace
  <1>15. Tasks'
    <2>1. \A s \in known : phase[s] = "idle" => AtRest(id[s])'
      <3>1. \A s \in known : phase[s] = "idle" => AtRest(id[s]) /\ id[s] \in Ids
        BY Something DEF Upload, Tasks
      <3>2. \A s \in known : phase[s] = "idle" => id[s] # i
        BY <3>1, <1>10
      <3> QED
        BY <3>1, <3>2, <1>7, <1>8 DEF AtRest, Under
    <2>2. \A s \in known : \A b \in Addrs : Under(id[s], b)' => active'[b].file = <<s, wheel[s]>>
      BY <1>1, <1>2, <1>7, <1>8 DEF Upload, Tasks, Under
    <2>3. \A s \in known : pending'[id[s]] # NoTransfer => pending'[id[s]].file = <<s, wheel[s]>>
      BY <1>8, Something DEF Upload, Tasks
    <2> QED
      BY <1>8, <2>1, <2>2, <2>3 DEF Upload, Tasks
  <1>16. Sockets'
    BY <1>6, <1>8 DEF Upload, Sockets, Reaches
  <1>17. Owners'
    <2>1. \A s : Has(s)' <=> Has(s)
      BY <1>8 DEF Has, Verifies
    <2>2. \A s, m : Fits(s, m)' <=> Fits(s, m)
      BY <1>8 DEF Fits
    <2>3. SUFFICES ASSUME NEW s \in known, phase[s] = "sending"
          PROVE  /\ \A m \in Mail(toMaster'[socket[s]]) : Fits(s, m)
                 /\ active'[socket[s]] # NoTransfer =>
                      /\ active'[socket[s]].id = id[s]
                      /\ "damage" \notin Faults =>
                           \A n \in Offsets : active'[socket[s]].data[n] \in {Hole, <<s, wheel[s]>>}
                 /\ Done \in Mail(toSlave'[socket[s]]) => Has(s)
      BY <1>8, <2>1, <2>2 DEF Upload, Owners
    <2>4. s \in Slaves /\ socket[s] \in Addrs
      BY <2>3, Channels, Something
    <2>5. \A m \in Mail(toMaster'[socket[s]]) : Fits(s, m)
      BY <1>3, <2>3, <2>4 DEF Upload, Owners
    <2>6. Done \in Mail(toSlave'[socket[s]]) => Has(s)
      BY <1>6, <2>3, <2>4, FetchesAreNotDone DEF Upload, Owners
    <2>7. CASE socket[s] = a
      <3>1. i = id[s]
        BY <1>1, <1>3, <2>3, <2>7 DEF Upload, Owners, Fits
      <3>2. \A n \in Offsets : u.data[n] = Hole
        BY <1>4, <1>7 DEF HolesOf
      <3> QED
        BY <1>7, <1>8, <2>5, <2>6, <2>7, <3>1, <3>2
    <2>8. CASE socket[s] # a
      BY <1>8, <2>3, <2>4, <2>5, <2>6, <2>8 DEF Upload, Owners
    <2> QED
      BY <2>7, <2>8
  <1>18. Holes'
    <2>1. \A x : HolesOf(x)' = HolesOf(x) /\ (Finished(x)' <=> Finished(x))
      BY DEF HolesOf, Finished
    <2>2. u.missing = HolesOf(u) /\ ~Finished(u)
      BY <1>4, <1>5, <1>7 DEF HolesOf, Finished
    <2>3. \A b \in Addrs : active'[b] # NoTransfer => active'[b].missing = HolesOf(active'[b]) /\ ~Finished(active'[b])
      BY <1>8, <2>2 DEF Upload, Holes
    <2>4. \A j \in Ids :
            /\ pending'[j] # NoTransfer => pending'[j].missing = Offsets /\ HolesOf(pending'[j]) = Offsets
            /\ complete'[j] # NoTransfer => HolesOf(complete'[j]) = {}
      BY <1>8 DEF Upload, Holes
    <2>5. \A b \in Addrs : \A m \in Mail(toMaster'[b]) : m.msg = "CHUNK" => m.data # Hole
      BY <1>3 DEF Upload, Holes
    <2> QED
      BY <2>1, <2>3, <2>4, <2>5 DEF Holes
  <1> QED
    BY <1>9, <1>12, <1>14, <1>15, <1>16, <1>17, <1>18 DEF Upload

\* The last missing chunk ends a transfer.
LEMMA ChunkCompletesUpload ==
  ASSUME Upload, NEW a \in Addrs, ChunkCompletes(a)
  PROVE  Upload'
  <1>1. PICK t, m : t = active[a] /\ m = Head(toMaster[a])
    OBVIOUS
  <1>2. PICK v : v = Chunk(t, m)
    OBVIOUS
  <1>3. PICK msgs : msgs = <<Done>>
    OBVIOUS
  <1>4. /\ Receives(a, "CHUNK") /\ active[a] # NoTransfer /\ Finished(v)
        /\ active' = [active EXCEPT ![a] = NoTransfer]
        /\ complete' = [complete EXCEPT ![v.id] = v]
        /\ Deliver(a, msgs) /\ Take(a)
        /\ UNCHANGED <<pending, stored, driverVars, slaveVars, faults>>
    BY <1>1, <1>2, <1>3 DEF ChunkCompletes
  <1>5. /\ toMaster' \in [Addrs -> Seq(Uploads)]
        /\ \A b \in Addrs : Mail(toMaster'[b]) \subseteq Mail(toMaster[b])
        /\ m \in Mail(toMaster[a]) /\ m.msg = "CHUNK" /\ m.at \in Offsets /\ m.data \in Contents
    BY <1>1, <1>4, Taking DEF Upload
  <1>6. m.data # Hole
    BY <1>5 DEF Upload, Holes
  <1>7. t \in Transfers /\ t.missing = HolesOf(t) /\ t.id \in Ids
    BY <1>1, <1>4, Something DEF Upload, Holes
  <1>8. /\ v \in Transfers /\ v.id = t.id /\ v.file = t.file /\ v.missing = HolesOf(v)
        /\ \A n \in Offsets : v.data[n] = IF n = m.at THEN m.data ELSE t.data[n]
    BY <1>2, <1>5, <1>6, <1>7, ChunkFills
  <1>9. HolesOf(v) = {}
    BY <1>4, <1>8 DEF Finished
  <1>10. Reaches(a, {Done})
    <2>1. msgs \in Seq(Requests) /\ Mail(msgs) = {Done}
      BY <1>3 DEF Requests, Mail
    <2> QED
      BY <2>1, <1>4, Delivers DEF Upload
  <1> DEFINE i == t.id
  <1>11. i \in Ids /\ v.id = i
    BY <1>7, <1>8
  <1> HIDE DEF i
  <1>12. /\ UNCHANGED <<pending, stored, nextId, known, phase, id, socket, wheel, faults>>
         /\ complete'[i] = v /\ v # NoTransfer /\ \A j \in Ids : j # i => complete'[j] = complete[j]
         /\ active'[a] = NoTransfer /\ \A b \in Addrs : b # a => active'[b] = active[b]
    BY <1>4, <1>8, <1>11, Something DEF Upload, TypeOK, driverVars, slaveVars
  <1>13. TypeOK'
    BY <1>4, <1>5, <1>8, <1>10, <1>11, <1>12 DEF Upload, TypeOK, Reaches, Uploads, Requests
  <1>14. active[a].id = i /\ Under(i, a)
    BY <1>1, <1>4 DEF Under, i
  <1>15. pending[i] = NoTransfer /\ complete[i] = NoTransfer /\ \A b \in Addrs : Under(i, b) => b = a
    BY <1>4, <1>11, <1>14 DEF Upload, OnePlace, AtRest, Under
  <1>16. \A j \in Ids : AtRest(j) => AtRest(j)' /\ j # i
    BY <1>12, <1>14 DEF AtRest, Under
  <1>17. AtRest(i)'
    BY <1>12, <1>15 DEF AtRest, Under
  <1>18. Numbers'
    BY <1>12, <1>16 DEF Upload, Numbers
  <1>19. OnePlace'
    <2>1. \A j \in Ids :
            /\ pending'[j] # NoTransfer => pending'[j].id = j /\ complete'[j] = NoTransfer
            /\ complete'[j] # NoTransfer => complete'[j].id = j /\ AtRest(j)'
      BY <1>11, <1>12, <1>15, <1>16, <1>17 DEF Upload, OnePlace
    <2>2. \A b \in Addrs : active'[b] # NoTransfer => pending'[active'[b].id] = NoTransfer
      BY <1>12 DEF Upload, OnePlace
    <2>3. \A b, c \in Addrs :
            active'[b] # NoTransfer /\ active'[c] # NoTransfer /\ active'[b].id = active'[c].id => b = c
      BY <1>12 DEF Upload, OnePlace
    <2> QED
      BY <2>1, <2>2, <2>3 DEF OnePlace
  <1>20. \A s \in known : id[s] = i => v.file = <<s, wheel[s]>>
    BY <1>1, <1>8, <1>14 DEF Upload, Tasks
  <1>21. Tasks'
    <2>1. \A s \in known : phase[s] = "idle" => AtRest(id[s]) /\ complete[id[s]] = NoTransfer /\ id[s] \in Ids
      BY Something DEF Upload, Tasks
    <2>2. \A s \in known : phase[s] = "idle" => AtRest(id[s])' /\ complete'[id[s]] = NoTransfer
      <3>1. \A s \in known : phase[s] = "idle" => id[s] # i
        BY <2>1, <1>16
      <3> QED
        BY <2>1, <3>1, <1>12 DEF AtRest, Under
    <2>3. \A s \in known : \A b \in Addrs : Under(id[s], b)' => active'[b].file = <<s, wheel[s]>>
      BY <1>12 DEF Upload, Tasks, Under
    <2>4. \A s \in known : complete'[id[s]] # NoTransfer => complete'[id[s]].file = <<s, wheel[s]>>
      BY <1>12, <1>20, Something, ZenonT(40) DEF Upload, Tasks
    <2> QED
      BY <1>12, <2>2, <2>3, <2>4 DEF Upload, Tasks
  <1>22. Sockets'
    BY <1>10, <1>12 DEF Upload, Sockets, Reaches
  <1>23. \A s \in known : Has(s) => Has(s)'
    BY <1>12, <1>15, Something DEF Has, Verifies
  <1>24. Owners'
    <2>1. \A s, x : Fits(s, x)' <=> Fits(s, x)
      BY <1>12 DEF Fits
    <2>2. SUFFICES ASSUME NEW s \in known, phase[s] = "sending"
          PROVE  /\ \A x \in Mail(toMaster'[socket[s]]) : Fits(s, x)
                 /\ active'[socket[s]] # NoTransfer =>
                      /\ active'[socket[s]].id = id[s]
                      /\ "damage" \notin Faults =>
                           \A n \in Offsets : active'[socket[s]].data[n] \in {Hole, <<s, wheel[s]>>}
                 /\ Done \in Mail(toSlave'[socket[s]]) => Has(s)'
      BY <1>12, <1>23, <2>1 DEF Upload, Owners
    <2>3. s \in Slaves /\ socket[s] \in Addrs
      BY <2>2, Channels, Something
    <2>4. \A x \in Mail(toMaster'[socket[s]]) : Fits(s, x)
      BY <1>5, <2>2, <2>3 DEF Upload, Owners
    <2>5. CASE socket[s] = a
      <3>1. id[s] = i
        BY <1>4, <1>14, <2>2, <2>5 DEF Upload, Owners
      <3>2. ASSUME "damage" \notin Faults
            PROVE  \A n \in Offsets : v.data[n] = v.file
        <4>1. m.data = <<s, wheel[s]>>
          BY <1>5, <2>2, <2>5, <3>2 DEF Upload, Owners, Fits
        <4>2. \A n \in Offsets : t.data[n] \in {Hole, <<s, wheel[s]>>}
          BY <1>1, <1>4, <2>2, <2>5, <3>2 DEF Upload, Owners
        <4>3. \A n \in Offsets : v.data[n] # Hole
          BY <1>9 DEF HolesOf
        <4> QED
          BY <4>1, <4>2, <4>3, <1>8, <1>20, <3>1
      <3>3. Has(s)'
        BY <1>12, <3>1, <3>2 DEF Has, Verifies
      <3> QED
        BY <1>12, <2>4, <2>5, <3>3
    <2>6. CASE socket[s] # a
      <3>1. Done \in Mail(toSlave'[socket[s]]) => Done \in Mail(toSlave[socket[s]])
        BY <1>10, <2>3, <2>6 DEF Reaches
      <3> QED
        BY <1>12, <1>23, <2>2, <2>3, <2>4, <2>6, <3>1 DEF Upload, Owners
    <2> QED
      BY <2>5, <2>6
  <1>25. Holes'
    <2>1. \A x : HolesOf(x)' = HolesOf(x) /\ (Finished(x)' <=> Finished(x))
      BY DEF HolesOf, Finished
    <2>2. \A b \in Addrs : active'[b] # NoTransfer => active'[b].missing = HolesOf(active'[b]) /\ ~Finished(active'[b])
      BY <1>12 DEF Upload, Holes
    <2>3. \A j \in Ids :
            /\ pending'[j] # NoTransfer => pending'[j].missing = Offsets /\ HolesOf(pending'[j]) = Offsets
            /\ complete'[j] # NoTransfer => HolesOf(complete'[j]) = {}
      BY <1>9, <1>12 DEF Upload, Holes
    <2>4. \A b \in Addrs : \A x \in Mail(toMaster'[b]) : x.msg = "CHUNK" => x.data # Hole
      BY <1>5 DEF Upload, Holes
    <2> QED
      BY <2>1, <2>2, <2>3, <2>4 DEF Holes
  <1> QED
    BY <1>13, <1>18, <1>19, <1>21, <1>22, <1>24, <1>25 DEF Upload

-----------------------------------------------------------------------------
\* SlaveDriver and the slaves.

\* The driver asks for a wheel, or for none, when nothing is under way.
LEMMA ExpectUpload ==
  ASSUME Upload, NEW s \in known, NEW n \in 0..MaxFiles, Expect(s, n),
         phase[s] # "sending", AtRest(id[s]),
         complete' = [complete EXCEPT ![id[s]] = NoTransfer],
         stored' \in [Files -> Data \cup {NoFile}],
         UNCHANGED <<id, socket, driverVars, active, wires, faults>>
  PROVE  Upload'
  <1>1. PICK i, t : i = id[s] /\ t = NewTransfer(i, <<s, n>>)
    OBVIOUS
  <1>2. i \in Ids /\ s \in Slaves /\ i < nextId
    BY <1>1, Something DEF Upload, Numbers
  <1>3. /\ t.id = i /\ t.file = <<s, n>> /\ t.missing = Offsets /\ HolesOf(t) = Offsets
    BY <1>1 DEF NewTransfer, HolesOf
  <1>4. n # 0 => t \in Transfers
    <2>1. [m \in Offsets |-> Hole] \in Data
      BY DEF Data, Contents
    <2>2. 0 \in 0..Chunks
      BY TransferAssumption
    <2>3. n # 0 => <<s, n>> \in Files
      BY <1>2 DEF Files
    <2> QED
      BY <1>1, <1>2, <2>1, <2>2, <2>3 DEF NewTransfer, Transfers
  <1>5. /\ UNCHANGED <<id, socket, nextId, known, active, toMaster, toSlave, faults>>
        /\ wheel' = [wheel EXCEPT ![s] = n]
        /\ pending' = IF n = 0 THEN pending ELSE [pending EXCEPT ![i] = t]
        /\ phase' = [phase EXCEPT ![s] = IF n = 0 THEN "idle" ELSE "told"]
    BY <1>1 DEF Expect, driverVars, wires
  <1>6. TypeOK'
    BY <1>1, <1>2, <1>4, <1>5 DEF Upload, TypeOK
  <1>7. /\ wheel'[s] = n /\ phase'[s] = (IF n = 0 THEN "idle" ELSE "told")
        /\ \A r \in Slaves : r # s => wheel'[r] = wheel[r] /\ phase'[r] = phase[r]
        /\ complete'[i] = NoTransfer
        /\ \A j \in Ids : j # i => complete'[j] = complete[j] /\ pending'[j] = pending[j]
        /\ n = 0 => pending'[i] = NoTransfer
        /\ n # 0 => pending'[i] = t /\ t # NoTransfer
    BY <1>1, <1>2, <1>4, <1>5, Something DEF Upload, TypeOK, AtRest
  <1>8. \A j \in Ids : j # i => (AtRest(j)' <=> AtRest(j))
    BY <1>5, <1>7 DEF AtRest, Under
  <1>9. n = 0 => AtRest(i)'
    BY <1>1, <1>5, <1>7 DEF AtRest, Under
  <1>10. \A r \in known : r # s => r \in Slaves /\ id[r] \in Ids /\ id[r] # i
    BY <1>1, Something DEF Upload, Numbers
  <1>11. Numbers'
    <2>1. nextId \in Nat
      BY DEF Upload, TypeOK
    <2>2. \A j \in Ids : j >= nextId => j # i
      BY <1>2, <2>1 DEF Ids
    <2> QED
      BY <1>5, <1>7, <1>8, <2>2 DEF Upload, Numbers
  <1>12. OnePlace'
    <2>1. \A j \in Ids :
            /\ pending'[j] # NoTransfer => pending'[j].id = j /\ complete'[j] = NoTransfer
            /\ complete'[j] # NoTransfer => complete'[j].id = j /\ AtRest(j)'
      BY <1>3, <1>7, <1>8 DEF Upload, OnePlace
    <2>2. \A b \in Addrs : active[b] # NoTransfer => active[b].id # i /\ active[b].id \in Ids
      BY <1>1, Something DEF AtRest, Under
    <2>3. \A b \in Addrs : active[b] # NoTransfer => pending'[active[b].id] = NoTransfer
      BY <1>7, <2>2 DEF Upload, OnePlace
    <2> QED
      BY <1>5, <2>1, <2>3 DEF Upload, OnePlace
  <1>13. Tasks'
    <2>1. \A r \in Slaves : (phase'[r] = "idle" <=> wheel'[r] = 0) /\ (id[r] = 0 => phase'[r] = "idle")
      BY <1>1, <1>2, <1>7 DEF Upload, Tasks, Ids
    <2>2. SUFFICES ASSUME NEW r \in known
          PROVE  /\ phase'[r] = "idle" => AtRest(id[r])' /\ complete'[id[r]] = NoTransfer
                 /\ pending'[id[r]] # NoTransfer => pending'[id[r]].file = <<r, wheel'[r]>>
                 /\ complete'[id[r]] # NoTransfer => complete'[id[r]].file = <<r, wheel'[r]>>
                 /\ \A a \in Addrs : Under(id[r], a) => active[a].file = <<r, wheel'[r]>>
      BY <1>5, <2>1 DEF Tasks, Under
    <2>3. CASE r = s
      <3>1. \A a \in Addrs : ~Under(id[r], a)
        BY <2>3 DEF AtRest
      <3>2. phase'[r] = "idle" => AtRest(id[r])'
        BY <1>1, <1>5, <1>7, <2>3, <3>1 DEF AtRest, Under
      <3> QED
        BY <1>1, <1>3, <1>7, <2>3, <3>1, <3>2
    <2>4. CASE r # s
      <3>1. phase'[r] = "idle" => AtRest(id[r])
        BY <1>7, <1>10, <2>4 DEF Upload, Tasks
      <3>2. AtRest(id[r]) => AtRest(id[r])'
        BY <1>5, <1>7, <1>10, <2>4 DEF AtRest, Under
      <3>3. /\ phase'[r] = phase[r] /\ wheel'[r] = wheel[r]
            /\ pending'[id[r]] = pending[id[r]] /\ complete'[id[r]] = complete[id[r]]
        BY <1>7, <1>10, <2>4
      <3>4. /\ phase[r] = "idle" => complete[id[r]] = NoTransfer
            /\ pending[id[r]] # NoTransfer => pending[id[r]].file = <<r, wheel[r]>>
            /\ complete[id[r]] # NoTransfer => complete[id[r]].file = <<r, wheel[r]>>
            /\ \A a \in Addrs : Under(id[r], a) => active[a].file = <<r, wheel[r]>>
        BY DEF Upload, Tasks
      <3>5. phase'[r] = "idle" => AtRest(id[r])'
        BY <3>1, <3>2, Zenon
      <3> QED
        BY <3>3, <3>4, <3>5
    <2> QED
      BY <2>3, <2>4
  <1>14. Sockets'
    BY <1>5, <1>7 DEF Upload, Sockets
  <1>15. Owners'
    <2>1. \A r \in known : r # s => (Has(r)' <=> Has(r))
      BY <1>5, <1>7, <1>10 DEF Has, Verifies
    <2>2. \A r \in known : \A m : r # s => (Fits(r, m)' <=> Fits(r, m))
      BY <1>5, <1>7, <1>10 DEF Fits
    <2>3. phase'[s] \notin {"sending", "sent"}
      BY <1>7
    <2>4. \A r \in known : r # s => phase'[r] = phase[r] /\ wheel'[r] = wheel[r]
      BY <1>7, <1>10
    <2> QED
      BY <1>5, <2>1, <2>2, <2>3, <2>4 DEF Upload, Owners
  <1>16. Holes'
    <2>1. \A x : HolesOf(x)' = HolesOf(x) /\ (Finished(x)' <=> Finished(x))
      BY DEF HolesOf, Finished
    <2> QED
      BY <1>3, <1>5, <1>7, <2>1 DEF Upload, Holes
  <1> QED
    BY <1>6, <1>11, <1>12, <1>13, <1>14, <1>15, <1>16 DEF Upload

LEMMA BuiltUpload ==
  ASSUME Upload, NEW s \in Slaves, Built(s)
  PROVE  Upload'
  <1>1. s \in known /\ phase[s] = "idle" /\ AtRest(id[s]) /\ complete[id[s]] = NoTransfer
    BY DEF Built, Upload, Tasks
  <1>2. Expect(s, 1) /\ UNCHANGED <<id, socket, driverVars, complete, active, stored, wires, faults>>
    BY DEF Built
  <1>3. complete' = [complete EXCEPT ![id[s]] = NoTransfer] /\ stored' \in [Files -> Data \cup {NoFile}]
    BY <1>1, <1>2 DEF Upload, TypeOK
  <1>4. 1 \in 0..MaxFiles
    BY TransferAssumption
  <1> QED
    BY <1>1, <1>2, <1>3, <1>4, ExpectUpload

\* What a slave that says SENT has sent.
LEMMA SentHas ==
  ASSUME Upload, NEW s \in Slaves, Sent(s)
  PROVE  /\ s \in known /\ phase[s] = "sent" /\ Has(s) /\ AtRest(id[s]) /\ id[s] \in Ids
         /\ complete[id[s]] \in Transfers /\ complete[id[s]].file = <<s, wheel[s]>>
         /\ wheel[s] \in 1..MaxFiles
  <1>1. s \in known /\ phase[s] = "sent" /\ Has(s) /\ id[s] \in Ids
    BY Something DEF Sent, Upload, Owners
  <1>2. complete[id[s]] \in Transfers /\ AtRest(id[s]) /\ complete[id[s]].file = <<s, wheel[s]>>
    BY <1>1, Something DEF Has, Upload, OnePlace, Tasks
  <1>3. wheel[s] \in 1..MaxFiles
    BY <1>1, TransferAssumption DEF Upload, TypeOK, Tasks
  <1> QED
    BY <1>1, <1>2, <1>3

LEMMA SentVerifiedUpload ==
  ASSUME Upload, NEW s \in Slaves, SentVerified(s)
  PROVE  Upload'
  <1>1. Sent(s)
    BY DEF SentVerified
  <1>2. PICK n \in {0, wheel[s] + 1} : n <= MaxFiles /\ Expect(s, n)
    BY DEF SentVerified
  <1>3. n \in 0..MaxFiles
    BY <1>1, <1>2, SentHas, TransferAssumption
  <1>4. complete[id[s]].file \in Files /\ complete[id[s]].data \in Data
    BY <1>1, SentHas DEF Transfers
  <1>5. stored' \in [Files -> Data \cup {NoFile}]
    BY <1>4 DEF SentVerified, Upload, TypeOK
  <1>6. /\ complete' = [complete EXCEPT ![id[s]] = NoTransfer]
        /\ UNCHANGED <<id, socket, driverVars, active, wires, faults>>
    BY DEF SentVerified
  <1> QED
    BY <1>1, <1>2, <1>3, <1>5, <1>6, SentHas, ExpectUpload

LEMMA SentRejectedUpload ==
  ASSUME Upload, NEW s \in Slaves, SentRejected(s)
  PROVE  Upload'
  <1>1. PICK n : n = wheel[s]
    OBVIOUS
  <1>2. /\ Sent(s) /\ Expect(s, n)
        /\ complete' = [complete EXCEPT ![id[s]] = NoTransfer]
        /\ UNCHANGED <<id, socket, driverVars, active, stored, wires, faults>>
    BY <1>1 DEF SentRejected
  <1>3. n \in 0..MaxFiles /\ stored' \in [Files -> Data \cup {NoFile}]
    BY <1>1, <1>2 DEF Upload, TypeOK
  <1> QED
    BY <1>2, <1>3, SentHas, ExpectUpload

\* A new session has a number that nothing has.
LEMMA JoinUpload ==
  ASSUME Upload, NEW s \in Slaves, Join(s)
  PROVE  Upload'
  <1>1. PICK i \in Ids : i = nextId
    BY DEF Join
  <1>2. /\ s \notin known /\ phase[s] # "sending" /\ i \in Nat
        /\ known' = known \cup {s} /\ nextId' = i + 1
        /\ id' = [id EXCEPT ![s] = i] /\ phase' = [phase EXCEPT ![s] = "idle"]
        /\ wheel' = [wheel EXCEPT ![s] = 0]
        /\ UNCHANGED <<socket, pending, complete, active, stored, toMaster, toSlave, faults>>
    BY <1>1 DEF Join, jugglerVars, wires, Ids
  <1>3. TypeOK'
    BY <1>1, <1>2, TransferAssumption DEF Upload, TypeOK
  <1>4. /\ id'[s] = i /\ phase'[s] = "idle" /\ wheel'[s] = 0
        /\ \A r \in Slaves : r # s => id'[r] = id[r] /\ phase'[r] = phase[r] /\ wheel'[r] = wheel[r]
    BY <1>2 DEF Upload, TypeOK
  <1>5. \A r \in known : r # s /\ r \in Slaves
    BY <1>2, Something
  <1>6. \A j : AtRest(j)' <=> AtRest(j)
    BY <1>2 DEF AtRest, Under
  <1>7. AtRest(i) /\ complete[i] = NoTransfer
    BY <1>1, <1>2 DEF Upload, Numbers
  <1>8. Numbers'
    <2>1. \A r \in known : id'[r] \in Ids /\ id'[r] < i
      BY <1>1, <1>4, <1>5 DEF Upload, Numbers
    <2>2. \A r \in known' : id'[r] \in Ids /\ id'[r] < nextId'
      BY <2>1, <1>2, <1>4 DEF Ids
    <2>3. \A r, q \in known' : id'[r] = id'[q] => r = q
      BY <2>1, <1>2, <1>4, <1>5 DEF Upload, Numbers
    <2>4. \A j \in Ids : j >= nextId' => AtRest(j)' /\ complete'[j] = NoTransfer
      BY <1>1, <1>2, <1>6 DEF Upload, Numbers, Ids
    <2> QED
      BY <2>2, <2>3, <2>4 DEF Numbers
  <1>9. OnePlace'
    BY <1>2, <1>6 DEF Upload, OnePlace
  <1>10. Tasks'
    <2>1. \A r \in Slaves : (phase'[r] = "idle" <=> wheel'[r] = 0) /\ (id'[r] = 0 => phase'[r] = "idle")
      BY <1>4 DEF Upload, Tasks
    <2>2. \A r \in known :
            /\ phase'[r] = "idle" => AtRest(id[r])
            /\ id'[r] = id[r] /\ wheel'[r] = wheel[r] /\ phase'[r] = phase[r]
      BY <1>4, <1>5 DEF Upload, Tasks
    <2>3. ASSUME NEW r \in known'
          PROVE  /\ phase'[r] = "idle" => AtRest(id'[r]) /\ complete[id'[r]] = NoTransfer
                 /\ pending[id'[r]] # NoTransfer => pending[id'[r]].file = <<r, wheel'[r]>>
                 /\ complete[id'[r]] # NoTransfer => complete[id'[r]].file = <<r, wheel'[r]>>
                 /\ \A a \in Addrs : Under(id'[r], a) => active[a].file = <<r, wheel'[r]>>
      <3>1. CASE r = s
        BY <1>4, <1>7, <3>1 DEF AtRest
      <3>2. CASE r # s
        <4>1. r \in known
          BY <1>2, <3>2
        <4> QED
          BY <2>2, <4>1 DEF Upload, Tasks
      <3> QED
        BY <3>1, <3>2
    <2> QED
      BY <1>2, <2>1, <2>3 DEF Tasks, AtRest, Under
  <1>11. Sockets'
    BY <1>2, <1>4 DEF Upload, Sockets
  <1>12. Owners'
    <2>1. \A r \in known : Has(r)' <=> Has(r)
      BY <1>2, <1>4, <1>5 DEF Has, Verifies
    <2>2. \A r \in known : \A m : Fits(r, m)' <=> Fits(r, m)
      BY <1>2, <1>4, <1>5 DEF Fits
    <2> QED
      BY <1>2, <1>4, <1>5, <2>1, <2>2 DEF Upload, Owners
  <1>13. Holes'
    BY <1>2 DEF Upload, Holes, HolesOf, Finished
  <1> QED
    BY <1>3, <1>8, <1>9, <1>10, <1>11, <1>12, <1>13 DEF Upload

\* A new socket carries nothing yet.
LEMMA StartSendUpload ==
  ASSUME Upload, NEW s \in Slaves, StartSend(s)
  PROVE  Upload'
  <1>1. PICK a \in Addrs :
          /\ \A o \in Slaves : socket[o] # a
          /\ active[a] = NoTransfer /\ toMaster[a] = <<>>
          /\ socket' = [socket EXCEPT ![s] = a]
          /\ Send(a, Hello(s))
    BY DEF StartSend
  <1>2. PICK m : m = Hello(s)
    OBVIOUS
  <1>3. /\ phase[s] = "told" /\ phase' = [phase EXCEPT ![s] = "sending"]
        /\ UNCHANGED <<id, wheel, nextId, known, pending, complete, active, stored, toSlave, faults>>
    BY DEF StartSend, driverVars, jugglerVars
  <1>4. m \in Uploads /\ m.msg = "HELLO" /\ m.id = id[s]
    BY <1>2, <1>3 DEF Hello, Uploads, Hellos, Upload, TypeOK, Tasks
  <1>5. /\ toMaster' \in [Addrs -> Seq(Uploads)]
        /\ \A b \in Addrs : Mail(toMaster'[b]) = Mail(toMaster[b]) \cup (IF b = a THEN {m} ELSE {})
    <2>1. Send(a, m)
      BY <1>1, <1>2
    <2> QED
      BY <2>1, <1>4, Sending DEF Upload
  <1>6. Mail(toMaster'[a]) = {m} /\ \A b \in Addrs : b # a => Mail(toMaster'[b]) = Mail(toMaster[b])
    <2>1. Mail(toMaster[a]) = {}
      BY <1>1 DEF Mail
    <2> QED
      BY <2>1, <1>5
  <1>7. toSlave[a] = <<>> /\ Done \notin Mail(toSlave[a])
    BY <1>1 DEF Upload, Sockets, Mail
  <1>8. TypeOK'
    BY <1>1, <1>3, <1>5 DEF Upload, TypeOK, Uploads
  <1>9. /\ socket'[s] = a /\ phase'[s] = "sending" /\ a # NoAddr
        /\ \A r \in Slaves : r # s => socket'[r] = socket[r] /\ phase'[r] = phase[r]
    BY <1>1, <1>3, TransferAssumption DEF Upload, TypeOK
  <1>10. Numbers' /\ OnePlace'
    BY <1>3 DEF Upload, Numbers, OnePlace, AtRest, Under
  <1>11. Tasks'
    <2>1. \A r \in Slaves : phase'[r] = "idle" <=> phase[r] = "idle"
      BY <1>3, <1>9
    <2>2. known \subseteq Slaves
      BY Something
    <2> QED
      BY <1>3, <2>1, <2>2 DEF Upload, Tasks, AtRest, Under
  <1>12. Sockets'
    <2>1. socket[s] = NoAddr
      BY <1>3 DEF Upload, Sockets
    <2>2. \A b \in Addrs : toSlave[b] # <<>> => \E r \in Slaves : socket'[r] = b
      <3>1. \A b \in Addrs : toSlave[b] # <<>> => \E r \in Slaves : socket[r] = b /\ r # s
        BY <2>1, TransferAssumption DEF Upload, Sockets
      <3> QED
        BY <1>9, <3>1
    <2> QED
      BY <1>1, <1>3, <1>9, <2>2 DEF Upload, Sockets
  <1>13. Owners'
    <2>1. \A r : Has(r)' <=> Has(r)
      BY <1>3 DEF Has, Verifies
    <2>2. \A r, x : Fits(r, x)' <=> Fits(r, x)
      BY <1>3 DEF Fits
    <2>3. SUFFICES ASSUME NEW r \in known
          PROVE  /\ phase'[r] = "sending" =>
                      /\ \A x \in Mail(toMaster'[socket'[r]]) : Fits(r, x)
                      /\ active[socket'[r]] # NoTransfer =>
                           /\ active[socket'[r]].id = id[r]
                           /\ "damage" \notin Faults =>
                                \A n \in Offsets : active[socket'[r]].data[n] \in {Hole, <<r, wheel[r]>>}
                      /\ Done \in Mail(toSlave[socket'[r]]) => Has(r)
                 /\ phase'[r] = "sent" => Has(r)
      BY <1>3, <2>1, <2>2 DEF Owners
    <2>4. r \in Slaves
      BY Something
    <2>5. CASE r = s
      <3>1. Fits(r, m)
        BY <1>4, <2>5 DEF Fits
      <3> QED
        BY <1>1, <1>6, <1>7, <1>9, <2>5, <3>1
    <2>6. CASE r # s
      <3>1. socket'[r] = socket[r] /\ phase'[r] = phase[r] /\ socket[r] # a
        BY <1>1, <1>9, <2>4, <2>6
      <3>2. phase[r] = "sending" => socket[r] \in Addrs
        BY <2>4, Channels
      <3> QED
        BY <1>6, <3>1, <3>2 DEF Upload, Owners
    <2> QED
      BY <2>5, <2>6
  <1>14. Holes'
    <2>1. \A x : HolesOf(x)' = HolesOf(x) /\ (Finished(x)' <=> Finished(x))
      BY DEF HolesOf, Finished
    <2>2. \A b \in Addrs : \A x \in Mail(toMaster'[b]) : x.msg = "CHUNK" => x.data # Hole
      BY <1>4, <1>6 DEF Upload, Holes
    <2> QED
      BY <1>3, <2>1, <2>2 DEF Upload, Holes
  <1> QED
    BY <1>8, <1>10, <1>11, <1>12, <1>13, <1>14 DEF Upload

\* A socket is closed: by do_send, or with its slave.
LEMMA ClosesUpload ==
  ASSUME Upload, NEW s \in Slaves,
         UNCHANGED <<id, nextId, jugglerVars, toMaster>>, faults' \in 0..MaxFaults,
         known' \subseteq known, socket' = [socket EXCEPT ![s] = NoAddr],
         toSlave' = IF socket[s] = NoAddr THEN toSlave ELSE [toSlave EXCEPT ![socket[s]] = <<>>],
         \/ /\ phase' = [phase EXCEPT ![s] = "sent"] /\ wheel' = wheel
            /\ phase[s] = "sending" /\ (s \in known => Has(s))
         \/ /\ phase' = [phase EXCEPT ![s] = "idle"] /\ wheel' = [wheel EXCEPT ![s] = 0]
            /\ s \notin known'
  PROVE  Upload'
  <1> USE DEF jugglerVars
  <1>1. TypeOK'
    <2>1. toSlave' \in [Addrs -> Seq(Requests)]
      <3>1. toSlave \in [Addrs -> Seq(Requests)] /\ <<>> \in Seq(Requests)
        BY Channels
      <3> QED
        BY <3>1
    <2>2. /\ phase' \in [Slaves -> {"idle", "told", "sending", "sent"}]
          /\ wheel' \in [Slaves -> 0..MaxFiles]
      <3>1. /\ phase \in [Slaves -> {"idle", "told", "sending", "sent"}]
            /\ wheel \in [Slaves -> 0..MaxFiles] /\ 0 \in 0..MaxFiles
        BY TransferAssumption DEF Upload, TypeOK
      <3>2. \E p \in {"idle", "sent"} : phase' = [phase EXCEPT ![s] = p]
        OBVIOUS
      <3>3. wheel' = wheel \/ wheel' = [wheel EXCEPT ![s] = 0]
        OBVIOUS
      <3> QED
        BY <3>1, <3>2, <3>3
    <2>3. socket' \in [Slaves -> Addrs \cup {NoAddr}]
      BY DEF Upload, TypeOK
    <2> QED
      BY <2>1, <2>2, <2>3 DEF Upload, TypeOK, Requests
  <1>2. /\ socket'[s] = NoAddr /\ phase'[s] # "sending"
        /\ \A r \in Slaves : r # s => socket'[r] = socket[r] /\ phase'[r] = phase[r] /\ wheel'[r] = wheel[r]
        /\ \A r \in known' : r \in known /\ r \in Slaves /\ wheel'[r] = wheel[r]
        /\ s \in known' => phase[s] = "sending" /\ phase'[s] = "sent" /\ Has(s)
    BY DEF Upload, TypeOK
  <1>3. \A b \in Addrs : toSlave'[b] = IF b = socket[s] THEN <<>> ELSE toSlave[b]
    BY TransferAssumption DEF Upload, TypeOK
  <1>4. Numbers' /\ OnePlace'
    BY <1>2 DEF Upload, Numbers, OnePlace, AtRest, Under
  <1>5. Tasks'
    <2>1. \A r \in Slaves : (phase'[r] = "idle" <=> wheel'[r] = 0) /\ (id[r] = 0 => phase'[r] = "idle")
      <3>1. (phase'[s] = "idle" <=> wheel'[s] = 0) /\ (id[s] = 0 => phase'[s] = "idle")
        BY DEF Upload, TypeOK, Tasks
      <3> QED
        BY <1>2, <3>1 DEF Upload, Tasks
    <2>2. \A r \in known' : phase'[r] = "idle" => phase[r] = "idle"
      BY <1>2
    <2>3. \A r \in known' : r \in known /\ wheel'[r] = wheel[r]
      BY <1>2
    <2>4. \A r \in known' :
            /\ phase'[r] = "idle" => AtRest(id[r]) /\ complete[id[r]] = NoTransfer
            /\ pending[id[r]] # NoTransfer => pending[id[r]].file = <<r, wheel'[r]>>
            /\ complete[id[r]] # NoTransfer => complete[id[r]].file = <<r, wheel'[r]>>
            /\ \A a \in Addrs : Under(id[r], a) => active[a].file = <<r, wheel'[r]>>
      BY <2>2, <2>3 DEF Upload, Tasks
    <2> QED
      BY <2>1, <2>4 DEF Tasks, AtRest, Under
  <1>6. Sockets'
    BY <1>2, <1>3 DEF Upload, Sockets
  <1>7. Owners'
    <2>1. \A r : Has(r)' <=> Has(r)
      BY DEF Has, Verifies
    <2>2. \A r \in known' : \A x : Fits(r, x)' <=> Fits(r, x)
      BY <1>2 DEF Fits
    <2>3. \A r \in known' : phase'[r] = "sending" =>
            /\ phase[r] = "sending" /\ socket'[r] = socket[r]
            /\ Done \in Mail(toSlave'[socket[r]]) => Done \in Mail(toSlave[socket[r]])
      <3>1. \A b \in Addrs : Done \in Mail(toSlave'[b]) => Done \in Mail(toSlave[b])
        BY <1>3 DEF Mail
      <3> QED
        BY <1>2, <3>1, Channels
    <2>4. \A r \in known' : phase'[r] = "sent" => Has(r)
      BY <1>2 DEF Upload, Owners
    <2> QED
      BY <1>2, <2>1, <2>2, <2>3, <2>4 DEF Upload, Owners
  <1>8. Holes'
    BY DEF Upload, Holes, HolesOf, Finished
  <1> QED
    BY <1>1, <1>4, <1>5, <1>6, <1>7, <1>8 DEF Upload

LEMMA DoneHeardUpload ==
  ASSUME Upload, NEW s \in Slaves, DoneHeard(s)
  PROVE  Upload'
  <1>1. PICK a \in Addrs : a = socket[s]
    BY Channels DEF DoneHeard, Hears
  <1>2. PICK q \in Seq(Requests) : q = toSlave[a]
    BY Channels
  <1>3. /\ phase[s] = "sending" /\ q # <<>> /\ Head(q).msg = "DONE"
        /\ phase' = [phase EXCEPT ![s] = "sent"] /\ socket' = [socket EXCEPT ![s] = NoAddr]
        /\ toSlave' = [toSlave EXCEPT ![socket[s]] = <<>>]
        /\ UNCHANGED <<id, wheel, toMaster, driverVars, jugglerVars, faults>>
    BY <1>1, <1>2 DEF DoneHeard, Hears
  <1>4. Head(q) \in Requests /\ Head(q) \in Mail(q)
    BY <1>3, MailTaken, HeadTailProperties
  <1>5. Done \in Mail(toSlave[socket[s]])
    BY <1>1, <1>2, <1>3, <1>4 DEF Requests, Fetches, Done
  <1>6. s \in known => Has(s)
    BY <1>3, <1>5 DEF Upload, Owners
  <1>7. socket[s] # NoAddr
    BY <1>1, TransferAssumption
  <1> QED
    BY <1>3, <1>6, <1>7, Channels, ClosesUpload DEF driverVars

LEMMA ExitUpload ==
  ASSUME Upload, NEW s \in Slaves, Exit(s)
  PROVE  Upload'
  <1>1. faults' \in 0..MaxFaults
    BY FaultCounts DEF Exit, Upload
  <1> QED
    BY <1>1, ClosesUpload DEF Exit

LEMMA RestartUpload ==
  ASSUME Upload, Restart
  PROVE  Upload'
  <1> USE DEF slaveVars, wires
  <1>1. faults' \in 0..MaxFaults
    BY FaultCounts DEF Restart, Upload
  <1>2. TypeOK'
    BY <1>1 DEF Upload, TypeOK, Restart
  <1>3. Numbers' /\ OnePlace'
    BY DEF Restart, Numbers, OnePlace, AtRest, Under
  <1>4. Tasks' /\ Sockets' /\ Owners'
    BY DEF Upload, Restart, Tasks, Sockets, Owners
  <1>5. Holes'
    BY DEF Upload, Restart, Holes
  <1> QED
    BY <1>2, <1>3, <1>4, <1>5 DEF Upload

-----------------------------------------------------------------------------
\* The invariant and what follows from it.

LEMMA StepUpload == Upload /\ [Next]_vars => Upload'
  <1> SUFFICES ASSUME Upload, [Next]_vars PROVE Upload'
    OBVIOUS
  <1>1. ASSUME NEW a \in Addrs, HandleFile(a) PROVE Upload'
    BY <1>1, HelloStartsUpload, HelloIgnoredUpload, HelloProdsUpload, ChunkIgnoredUpload,
       ChunkStoredUpload, ChunkCompletesUpload DEF HandleFile
  <1>2. ASSUME NEW s \in Slaves, SlaveStep(s) PROVE Upload'
    <2>1. CASE Prod(s)
      <3>1. Prods(s) /\ faults' \in 0..MaxFaults
        BY <2>1, Channels DEF Prod
      <3> QED
        BY <3>1, ProdsUpload
    <2> QED
      BY <1>2, <2>1, StartSendUpload, FetchAnsweredUpload, DoneHeardUpload, SentVerifiedUpload,
         SentRejectedUpload DEF SlaveStep
  <1>3. ASSUME NEW s \in Slaves, EarlyProd(s) PROVE Upload'
    <2>1. Prods(s) /\ faults' \in 0..MaxFaults
      BY <1>3, FaultCounts DEF EarlyProd, Upload
    <2> QED
      BY <2>1, ProdsUpload
  <1>4. CASE UNCHANGED vars
    <2>1. UNCHANGED <<slaveVars, driverVars, jugglerVars>> /\ faults' \in 0..MaxFaults
      BY <1>4, Channels DEF vars, slaveVars, driverVars, jugglerVars
    <2>2. UNCHANGED <<toMaster, toSlave>>
      BY <1>4 DEF vars
    <2> QED
      BY <2>1, <2>2, Channels, MovesMail
  <1> QED
    BY <1>1, <1>2, <1>3, <1>4, JoinUpload, BuiltUpload, ExitUpload, LoseToMasterUpload,
       LoseToSlaveUpload, DamageUpload, RestartUpload DEF Next

\* The invariant holds of every behaviour: numbers, places, sockets and their
\* owners fit together in SlaveDriver, FileJuggler and the slaves.
THEOREM UploadInvariant == Spec => []Upload
  <1> QED
    BY InitUpload, StepUpload, PTL DEF Spec

LEMMA UploadIsDone == Upload => DoneMeansComplete
  <1> SUFFICES ASSUME Upload PROVE DoneMeansComplete
    OBVIOUS
  <1>1. CompleteMeansComplete
    BY DEF CompleteMeansComplete, Upload, Holes, HolesOf
  <1>2. SentMeansComplete
    BY SentHas DEF SentMeansComplete, Has
  <1> QED
    BY <1>1, <1>2 DEF DoneMeansComplete

\* Every variable keeps its type; above all, fetch never goes beyond the end of
\* a file, for any number of chunks and any size of the pipeline
\* (TransferState.fetch).
THEOREM TypesHold == Spec => []TypeOK
  <1>1. Upload => TypeOK
    BY DEF Upload
  <1> QED
    BY UploadInvariant, <1>1, PTL

\* Whatever is lost, delayed, damaged, stopped or restarted, FileJuggler takes a
\* file for complete only when all of it has come, and a slave that says SENT
\* to a driver that knows it has its wheel, and no other, waiting to be
\* verified (TransferState.chunk, FileJuggler.handle_file, do_sent).
THEOREM DoneIsComplete == Spec => []DoneMeansComplete
  <1> QED
    BY UploadInvariant, UploadIsDone, PTL

-----------------------------------------------------------------------------
\* The refinement: what each step is to FileCopy.

StoredCopy(f) == IF stored[f] = NoFile THEN "no" ELSE CopyOf(f, stored[f])

LEMMA CopyStutters ==
  ASSUME \A r \in Slaves : Wanted(r)' = Wanted(r) /\ ArrivedCopy(r)' = ArrivedCopy(r),
         stored' = stored
  PROVE  UNCHANGED Copy!copyVars
  <1>1. \A f \in Files : StoredCopy(f)' = StoredCopy(f)
    BY DEF StoredCopy, CopyOf
  <1> QED
    BY <1>1 DEF Copy!copyVars, StoredCopy

\* Most steps change nothing of this.
LEMMA CopyKeeps ==
  ASSUME UNCHANGED <<known, wheel, id, complete, stored>>
  PROVE  UNCHANGED Copy!copyVars
  <1>1. \A r \in Slaves : Wanted(r)' = Wanted(r) /\ ArrivedCopy(r)' = ArrivedCopy(r)
    BY DEF Wanted, ArrivedCopy, CopyOf
  <1> QED
    BY <1>1, CopyStutters

LEMMA StoredStays ==
  ASSUME stored' = stored
  PROVE  [f \in Files |-> StoredCopy(f)]' = [f \in Files |-> StoredCopy(f)]
  <1>1. \A f \in Files : StoredCopy(f)' = StoredCopy(f)
    BY DEF StoredCopy, CopyOf
  <1> QED
    BY <1>1

LEMMA CopyOfIs ==
  ASSUME NEW f, NEW data
  PROVE  /\ CopyOf(f, data) \in {"whole", "broken"}
         /\ CopyOf(f, data) = "whole" <=> \A n \in Offsets : data[n] = f
  BY DEF CopyOf

LEMMA InitCopy == Init => Copy!CopyInit
  <1> SUFFICES ASSUME Init PROVE Copy!CopyInit
    OBVIOUS
  <1>1. \A s \in Slaves : Wanted(s) = 0 /\ ArrivedCopy(s) = "no"
    BY DEF Init, Wanted, ArrivedCopy
  <1>2. \A f \in Files : stored[f] = NoFile
    BY DEF Init
  <1> QED
    BY <1>1, <1>2 DEF Copy!CopyInit, Copy!AllWheels, Files

\* The last chunk is the arrival of a copy, unless nobody waits for it any more.
LEMMA ChunkCompletesCopy ==
  ASSUME Upload, NEW a \in Addrs, ChunkCompletes(a)
  PROVE  Copy!CopyNext \/ UNCHANGED Copy!copyVars
  <1>1. PICK t, m, v : t = active[a] /\ m = Head(toMaster[a]) /\ v = Chunk(t, m)
    OBVIOUS
  <1>2. /\ t # NoTransfer /\ complete' = [complete EXCEPT ![v.id] = v]
        /\ UNCHANGED <<stored, known, wheel, id>>
    BY <1>1 DEF ChunkCompletes, driverVars, slaveVars
  <1>3. PICK i \in Ids : i = t.id
    BY <1>1, <1>2, Something
  <1>4. v.id = i /\ v.file = t.file /\ v \in Transfers /\ v # NoTransfer
    <2>1. t \in Transfers
      BY <1>1, <1>2, Something
    <2>2. v.id = i /\ v.file = t.file
      BY <1>1, <1>3, <2>1 DEF Chunk, Transfers
    <2>3. Upload'
      BY ChunkCompletesUpload
    <2>4. complete' \in [Ids -> Transfers \cup {NoTransfer}] /\ complete \in [Ids -> Transfers \cup {NoTransfer}]
      BY <2>3 DEF Upload, TypeOK
    <2>5. complete'[i] = v
      BY <1>2, <2>2, <2>4
    <2>6. Receives(a, "CHUNK") /\ Take(a)
      BY DEF ChunkCompletes
    <2>7. m \in Mail(toMaster[a]) /\ m.msg = "CHUNK" /\ m.at \in Offsets /\ m.data \in Contents
      BY <1>1, <2>6, Taking DEF Upload
    <2>8. m.data # Hole /\ t.missing = HolesOf(t)
      BY <1>1, <1>2, <2>7 DEF Upload, Holes
    <2>9. v \in Transfers
      BY <1>1, <2>1, <2>7, <2>8, ChunkFills
    <2> QED
      BY <2>2, <2>9, Something
  <1>5. complete'[i] = v /\ \A j \in Ids : j # i => complete'[j] = complete[j]
    BY <1>2, <1>4 DEF Upload, TypeOK
  <1>6. Under(i, a) /\ complete[i] = NoTransfer /\ ~AtRest(i)
    BY <1>1, <1>2, <1>3 DEF Under, AtRest, Upload, OnePlace
  <1>7. \A r \in known : r \in Slaves /\ id[r] \in Ids
    BY Something
  <1>8. \A r \in Slaves : Wanted(r)' = Wanted(r)
    BY <1>2 DEF Wanted
  <1>9. \A r \in Slaves : ~(r \in known /\ id[r] = i) => ArrivedCopy(r)' = ArrivedCopy(r)
    BY <1>2, <1>5, <1>7 DEF ArrivedCopy, Wanted, CopyOf
  <1>10. CASE \E s \in known : id[s] = i
    <2>1. PICK s \in known : id[s] = i
      BY <1>10
    <2>2. wheel[s] # 0 /\ v.file = <<s, wheel[s]>>
      BY <1>1, <1>4, <1>6, <1>7, <2>1 DEF Upload, Tasks
    <2>3. Wanted(s) = wheel[s] /\ ArrivedCopy(s) = "no"
      BY <1>6, <2>1 DEF Wanted, ArrivedCopy
    <2>4. PICK q : q = CopyOf(<<s, wheel[s]>>, v.data)
      OBVIOUS
    <2>5. q \in {"whole", "broken"}
      BY <2>4, CopyOfIs
    <2>6. ArrivedCopy(s)' = q
      BY <1>2, <1>4, <1>5, <2>1, <2>2, <2>4 DEF Wanted, ArrivedCopy, CopyOf
    <2>7. \A r \in Slaves : r # s => ArrivedCopy(r)' = ArrivedCopy(r)
      BY <1>9, <2>1 DEF Upload, Numbers
    <2>8. Copy!Arrive(s)
      BY <1>2, <1>7, <1>8, <2>2, <2>3, <2>5, <2>6, <2>7, StoredStays DEF Copy!Arrive, StoredCopy
    <2> QED
      BY <1>7, <2>8 DEF Copy!CopyNext
  <1>11. CASE ~\E s \in known : id[s] = i
    BY <1>2, <1>8, <1>9, <1>11, CopyStutters
  <1> QED
    BY <1>10, <1>11

\* For the other slaves nothing changes.
LEMMA OthersKeep ==
  ASSUME Upload, NEW s \in Slaves,
         \A r \in Slaves : r # s => (r \in known' <=> r \in known) /\ wheel'[r] = wheel[r] /\ id'[r] = id[r],
         \A r \in known : r # s => complete'[id[r]] = complete[id[r]]
  PROVE  \A r \in Slaves : r # s => Wanted(r)' = Wanted(r) /\ ArrivedCopy(r)' = ArrivedCopy(r)
  <1>1. ASSUME NEW r \in Slaves, r # s
        PROVE  Wanted(r)' = Wanted(r) /\ ArrivedCopy(r)' = ArrivedCopy(r)
    <2>1. CASE r \in known
      BY <1>1, <2>1 DEF Wanted, ArrivedCopy, CopyOf
    <2>2. CASE r \notin known
      BY <1>1, <2>2 DEF Wanted, ArrivedCopy
    <2> QED
      BY <2>1, <2>2
  <1> QED
    BY <1>1

LEMMA JoinCopy ==
  ASSUME Upload, NEW s \in Slaves, Join(s)
  PROVE  UNCHANGED Copy!copyVars
  <1>1. /\ s \notin known /\ known' = known \cup {s} /\ complete' = complete /\ stored' = stored
        /\ wheel'[s] = 0
        /\ \A r \in Slaves : r # s => wheel'[r] = wheel[r] /\ id'[r] = id[r]
    BY DEF Join, jugglerVars, Upload, TypeOK
  <1>2. Wanted(s) = 0 /\ Wanted(s)' = 0 /\ ArrivedCopy(s) = "no" /\ ArrivedCopy(s)' = "no"
    BY <1>1 DEF Wanted, ArrivedCopy
  <1>3. \A r \in Slaves : r # s => Wanted(r)' = Wanted(r) /\ ArrivedCopy(r)' = ArrivedCopy(r)
    BY <1>1, OthersKeep
  <1> QED
    BY <1>1, <1>2, <1>3, CopyStutters

\* The first wheel of a build is asked for.
LEMMA BuiltCopy ==
  ASSUME Upload, NEW s \in Slaves, Built(s)
  PROVE  Copy!CopyNext
  <1>1. /\ s \in known /\ wheel[s] = 0 /\ complete[id[s]] = NoTransfer
        /\ UNCHANGED <<known, id, complete, stored>>
        /\ wheel'[s] = 1 /\ \A r \in Slaves : r # s => wheel'[r] = wheel[r]
    BY DEF Built, Expect, driverVars, Upload, TypeOK, Tasks
  <1>2. /\ Wanted(s) = 0 /\ Wanted(s)' = 1
        /\ ArrivedCopy(s) = "no" /\ ArrivedCopy(s)' = "no"
    BY <1>1 DEF Wanted, ArrivedCopy
  <1>3. \A r \in Slaves : r # s => Wanted(r)' = Wanted(r) /\ ArrivedCopy(r)' = ArrivedCopy(r)
    BY <1>1, OthersKeep
  <1>4. Copy!Ask(s)
    BY <1>1, <1>2, <1>3, StoredStays DEF Copy!Ask, StoredCopy
  <1> QED
    BY <1>4 DEF Copy!CopyNext

\* What do_sent does to the driver's view.
LEMMA SentView ==
  ASSUME Upload, NEW s \in Slaves, Sent(s), NEW n \in 0..MaxFiles, Expect(s, n),
         complete' = [complete EXCEPT ![id[s]] = NoTransfer], UNCHANGED <<known, id>>
  PROVE  /\ Wanted(s) = wheel[s] /\ wheel[s] # 0 /\ Wanted(s)' = n
         /\ ArrivedCopy(s) = CopyOf(<<s, wheel[s]>>, complete[id[s]].data)
         /\ ArrivedCopy(s)' = "no"
         /\ \A r \in Slaves : r # s => Wanted(r)' = Wanted(r) /\ ArrivedCopy(r)' = ArrivedCopy(r)
  <1>1. /\ s \in known /\ id[s] \in Ids /\ complete[id[s]] # NoTransfer
        /\ complete[id[s]].file = <<s, wheel[s]>> /\ wheel[s] # 0
    BY SentHas, TransferAssumption DEF Has
  <1>2. wheel'[s] = n /\ \A r \in Slaves : r # s => wheel'[r] = wheel[r]
    BY DEF Expect, Upload, TypeOK
  <1>3. complete'[id[s]] = NoTransfer
    BY <1>1 DEF Upload, TypeOK
  <1>4. \A r \in known : r # s => complete'[id[r]] = complete[id[r]]
    BY <1>1, Something DEF Upload, TypeOK, Numbers
  <1>5. \A r \in Slaves : r # s => Wanted(r)' = Wanted(r) /\ ArrivedCopy(r)' = ArrivedCopy(r)
    BY <1>2, <1>4, OthersKeep
  <1>6. Wanted(s) = wheel[s] /\ Wanted(s)' = n
    BY <1>1, <1>2 DEF Wanted
  <1>7. ArrivedCopy(s) = CopyOf(<<s, wheel[s]>>, complete[id[s]].data)
    BY <1>1, <1>6 DEF ArrivedCopy
  <1>8. ArrivedCopy(s)' = "no"
    BY <1>3 DEF ArrivedCopy
  <1> QED
    BY <1>1, <1>5, <1>6, <1>7, <1>8

\* A verified copy is stored.
LEMMA SentVerifiedCopy ==
  ASSUME Upload, NEW s \in Slaves, SentVerified(s)
  PROVE  Copy!CopyNext
  <1>1. PICK t, f : t = complete[id[s]] /\ f = <<s, wheel[s]>>
    OBVIOUS
  <1>2. /\ Sent(s) /\ Verifies(t) /\ stored' = [stored EXCEPT ![t.file] = t.data]
        /\ complete' = [complete EXCEPT ![id[s]] = NoTransfer] /\ UNCHANGED <<known, id>>
    BY <1>1 DEF SentVerified, driverVars
  <1>3. PICK n \in {0, wheel[s] + 1} : n <= MaxFiles /\ Expect(s, n)
    BY DEF SentVerified
  <1>4. t \in Transfers /\ t.file = f /\ f \in Files /\ wheel[s] \in 1..MaxFiles
    BY <1>1, <1>2, SentHas DEF Files
  <1>5. n \in 0..MaxFiles
    BY <1>3, <1>4, TransferAssumption
  <1>6. /\ Wanted(s) = wheel[s] /\ Wanted(s)' = n
        /\ ArrivedCopy(s) = CopyOf(f, t.data) /\ ArrivedCopy(s)' = "no"
        /\ \A r \in Slaves : r # s => Wanted(r)' = Wanted(r) /\ ArrivedCopy(r)' = ArrivedCopy(r)
    BY <1>1, <1>2, <1>3, <1>5, SentView
  <1>7. CopyOf(f, t.data) = "whole"
    BY <1>2, <1>4 DEF Verifies, CopyOf
  <1>8. t.data \in Data /\ t.data # NoFile
    BY <1>4, NothingAssumption DEF Transfers
  <1>9. stored'[f] = t.data /\ \A g \in Files : g # f => stored'[g] = stored[g]
    BY <1>2, <1>4 DEF Upload, TypeOK
  <1>10. \A g \in Files : StoredCopy(g)' = IF g = f THEN "whole" ELSE StoredCopy(g)
    <2>1. StoredCopy(f)' = "whole"
      BY <1>7, <1>8, <1>9 DEF StoredCopy, CopyOf
    <2>2. \A g \in Files : g # f => StoredCopy(g)' = StoredCopy(g)
      BY <1>9 DEF StoredCopy, CopyOf
    <2> QED
      BY <2>1, <2>2
  <1>11. [g \in Files |-> StoredCopy(g)]' = [[g \in Files |-> StoredCopy(g)] EXCEPT ![f] = "whole"]
    BY <1>4, <1>10
  <1>12. f = <<s, [r \in Slaves |-> Wanted(r)][s]>>
    BY <1>1, <1>6
  <1>13. Copy!Store(s)
    BY <1>3, <1>6, <1>7, <1>11, <1>12 DEF Copy!Store, StoredCopy
  <1> QED
    BY <1>13 DEF Copy!CopyNext

\* A copy that is not verified is rejected.
LEMMA SentRejectedCopy ==
  ASSUME Upload, NEW s \in Slaves, SentRejected(s)
  PROVE  Copy!CopyNext
  <1>1. PICK t, f, n : t = complete[id[s]] /\ f = <<s, wheel[s]>> /\ n = wheel[s]
    OBVIOUS
  <1>2. /\ Sent(s) /\ (t # NoTransfer => ~Verifies(t)) /\ Expect(s, n) /\ stored' = stored
        /\ complete' = [complete EXCEPT ![id[s]] = NoTransfer] /\ UNCHANGED <<known, id>>
    BY <1>1 DEF SentRejected, driverVars
  <1>3. t # NoTransfer /\ t.file = f /\ n \in 0..MaxFiles
    BY <1>1, <1>2, SentHas DEF Has
  <1>4. /\ Wanted(s) = n /\ Wanted(s)' = n
        /\ ArrivedCopy(s) = CopyOf(f, t.data) /\ ArrivedCopy(s)' = "no"
        /\ \A r \in Slaves : r # s => Wanted(r)' = Wanted(r) /\ ArrivedCopy(r)' = ArrivedCopy(r)
    BY <1>1, <1>2, <1>3, SentView
  <1>5. CopyOf(f, t.data) = "broken"
    BY <1>2, <1>3 DEF Verifies, CopyOf
  <1>6. Copy!Reject(s)
    BY <1>2, <1>4, <1>5, StoredStays DEF Copy!Reject, StoredCopy
  <1> QED
    BY <1>6 DEF Copy!CopyNext

LEMMA ExitCopy ==
  ASSUME Upload, NEW s \in Slaves, Exit(s)
  PROVE  Copy!CopyNext
  <1>1. /\ known' = known \ {s} /\ UNCHANGED <<id, complete, stored>>
        /\ \A r \in Slaves : r # s => wheel'[r] = wheel[r]
    BY DEF Exit, jugglerVars, Upload, TypeOK
  <1>2. Wanted(s)' = 0 /\ ArrivedCopy(s)' = "no"
    BY <1>1 DEF Wanted, ArrivedCopy
  <1>3. \A r \in Slaves : r # s => Wanted(r)' = Wanted(r) /\ ArrivedCopy(r)' = ArrivedCopy(r)
    BY <1>1, OthersKeep
  <1>4. Copy!Forget({s})
    BY <1>1, <1>2, <1>3, StoredStays DEF Copy!Forget, StoredCopy
  <1> QED
    BY <1>4 DEF Copy!CopyNext

LEMMA RestartCopy ==
  ASSUME Upload, Restart
  PROVE  Copy!CopyNext
  <1>1. known' = {} /\ stored' = stored
    BY DEF Restart
  <1>2. \A r \in Slaves : Wanted(r)' = 0 /\ ArrivedCopy(r)' = "no"
    BY <1>1 DEF Wanted, ArrivedCopy
  <1>3. Copy!Forget(Slaves)
    BY <1>1, <1>2, StoredStays DEF Copy!Forget, StoredCopy
  <1> QED
    BY <1>3 DEF Copy!CopyNext

LEMMA StepCopy == Upload /\ [Next]_vars => [Copy!CopyNext]_Copy!copyVars
  <1> SUFFICES ASSUME Upload, [Next]_vars PROVE Copy!CopyNext \/ UNCHANGED Copy!copyVars
    OBVIOUS
  <1> USE DEF driverVars, slaveVars, jugglerVars
  <1>1. ASSUME NEW a \in Addrs, HandleFile(a) PROVE Copy!CopyNext \/ UNCHANGED Copy!copyVars
    <2>1. ~ChunkCompletes(a) => UNCHANGED <<known, wheel, id, complete, stored>>
      BY <1>1 DEF HandleFile, HelloStarts, HelloIgnored, HelloProds, ChunkIgnored, ChunkStored
    <2> QED
      BY <2>1, ChunkCompletesCopy, CopyKeeps
  <1>2. ASSUME NEW s \in Slaves, SlaveStep(s) PROVE Copy!CopyNext \/ UNCHANGED Copy!copyVars
    <2>1. SentVerified(s) \/ SentRejected(s) \/ UNCHANGED <<known, wheel, id, complete, stored>>
      BY <1>2 DEF SlaveStep, StartSend, Prod, Prods, FetchAnswered, DoneHeard
    <2> QED
      BY <2>1, SentVerifiedCopy, SentRejectedCopy, CopyKeeps
  <1>3. ASSUME NEW s \in Slaves, EarlyProd(s) PROVE UNCHANGED Copy!copyVars
    <2>1. UNCHANGED <<known, wheel, id, complete, stored>>
      BY <1>3 DEF EarlyProd, Prods
    <2> QED
      BY <2>1, CopyKeeps
  <1>4. ASSUME NEW a \in Addrs, LoseToMaster(a) \/ LoseToSlave(a) \/ Damage(a)
        PROVE  UNCHANGED Copy!copyVars
    <2>1. UNCHANGED <<known, wheel, id, complete, stored>>
      BY <1>4 DEF LoseToMaster, LoseToSlave, Damage
    <2> QED
      BY <2>1, CopyKeeps
  <1>5. CASE UNCHANGED vars
    BY <1>5, CopyKeeps DEF vars
  <1> QED
    BY <1>1, <1>2, <1>3, <1>4, <1>5, JoinCopy, BuiltCopy, ExitCopy, RestartCopy DEF Next

\* The transfer implements FileCopy (Wheel.transfer, FileJuggler, and do_built
\* and do_sent of SlaveDriver): whatever is lost, delayed, damaged, stopped or
\* restarted, and whoever's transfer is mistaken for another's, one copy at a
\* time arrives of the wheel that was asked for, and only a whole one is stored.
THEOREM CopiesFiles == Spec => ImplementsFileCopy
  <1> QED
    BY UploadInvariant, InitCopy, StepCopy, PTL DEF Spec, ImplementsFileCopy, Copy!CopySpec

-----------------------------------------------------------------------------
\* The pipeline.

\* The messages of a channel of certain kinds.
Places(q, kinds) == {n \in DOMAIN q : q[n].msg \in kinds}
Count(q, kinds) == Cardinality(Places(q, kinds))

LEMMA CountIsNat ==
  ASSUME NEW S, NEW q \in Seq(S), NEW kinds
  PROVE  /\ DOMAIN q = 1..Len(q) /\ Len(q) \in Nat
         /\ Places(q, kinds) \subseteq 1..Len(q) /\ IsFiniteSet(Places(q, kinds))
         /\ Count(q, kinds) \in Nat /\ Count(q, kinds) <= Len(q)
  <1>1. DOMAIN q = 1..Len(q) /\ Len(q) \in Nat
    BY LenProperties
  <1>2. Places(q, kinds) \subseteq 1..Len(q)
    BY <1>1 DEF Places
  <1>3. IsFiniteSet(1..Len(q)) /\ Cardinality(1..Len(q)) = Len(q)
    BY <1>1, FS_Interval
  <1> QED
    BY <1>1, <1>2, <1>3, FS_Subset, FS_CardinalityType DEF Count

\* A sequence whose messages are those of another, at other places.
LEMMA CountEmbeds ==
  ASSUME NEW S, NEW p \in Seq(S), NEW q \in Seq(S), NEW kinds,
         NEW Some \in SUBSET Places(q, kinds),
         NEW f \in [Places(p, kinds) -> Some],
         \A i, j \in Places(p, kinds) : f[i] = f[j] => i = j
  PROVE  Count(p, kinds) <= Cardinality(Some)
  <1>1. f \in Injection(Places(p, kinds), Some)
    BY DEF Injection, IsInjective
  <1>2. IsFiniteSet(Some)
    BY CountIsNat, FS_Subset
  <1> QED
    BY <1>1, <1>2, FS_Injection DEF Count

LEMMA CountAppend ==
  ASSUME NEW S, NEW q \in Seq(S), NEW m \in S, NEW kinds
  PROVE  Count(Append(q, m), kinds) = Count(q, kinds) + (IF m.msg \in kinds THEN 1 ELSE 0)
  <1>1. PICK r : r = Append(q, m)
    OBVIOUS
  <1>2. PICK n \in Nat : n = Len(q)
    BY LenProperties
  <1>3. /\ DOMAIN q = 1..n /\ DOMAIN r = 1..(n + 1)
        /\ \A i \in 1..n : r[i] = q[i]
        /\ r[n + 1] = m
    BY <1>1, <1>2, AppendProperties, LenProperties
  <1>4. 1..(n + 1) = 1..n \cup {n + 1} /\ n + 1 \notin 1..n
    BY <1>2
  <1>5. Places(r, kinds) = Places(q, kinds) \cup (IF m.msg \in kinds THEN {n + 1} ELSE {})
    BY <1>3, <1>4 DEF Places
  <1>6. n + 1 \notin Places(q, kinds) /\ IsFiniteSet(Places(q, kinds)) /\ Count(q, kinds) \in Nat
    BY <1>2, <1>4, CountIsNat
  <1>7. CASE m.msg \in kinds
    <2>1. Cardinality(Places(q, kinds) \cup {n + 1}) = Cardinality(Places(q, kinds)) + 1
      BY <1>6, FS_AddElement
    <2> QED
      BY <1>1, <1>5, <1>7, <2>1 DEF Count
  <1>8. CASE m.msg \notin kinds
    BY <1>1, <1>5, <1>6, <1>8 DEF Count
  <1> QED
    BY <1>7, <1>8

LEMMA CountTail ==
  ASSUME NEW S, NEW q \in Seq(S), q # <<>>, NEW kinds
  PROVE  Count(Tail(q), kinds) + (IF Head(q).msg \in kinds THEN 1 ELSE 0) <= Count(q, kinds)
  <1>1. PICK t : t = Tail(q)
    OBVIOUS
  <1>2. PICK n \in Nat : n = Len(q)
    BY LenProperties
  <1>3. /\ t \in Seq(S) /\ DOMAIN q = 1..n /\ n > 0 /\ DOMAIN t = 1..(n - 1)
        /\ \A i \in 1..(n - 1) : t[i] = q[i + 1]
        /\ Head(q) = q[1]
    BY <1>1, <1>2, HeadTailProperties, LenProperties, EmptySeq
  <1> DEFINE P == Places(q, kinds)
             f == [i \in Places(t, kinds) |-> i + 1]
  <1>4. ASSUME NEW i \in Places(t, kinds)
        PROVE  i \in 1..(n - 1) /\ i + 1 \in P \ {1}
    BY <1>2, <1>3 DEF Places
  <1>5. f \in [Places(t, kinds) -> P \ {1}]
    BY <1>4
  <1>6. \A i, j \in Places(t, kinds) : f[i] = f[j] => i = j
    BY <1>2, <1>4
  <1>7. Count(t, kinds) <= Cardinality(P \ {1})
    <2>1. P \ {1} \in SUBSET Places(q, kinds)
      OBVIOUS
    <2> HIDE DEF P, f
    <2> QED
      BY <1>3, <1>5, <1>6, <2>1, CountEmbeds
  <1>8. IsFiniteSet(P) /\ Cardinality(P) \in Nat
    BY CountIsNat DEF Count
  <1>9. Cardinality(P \ {1}) = IF 1 \in P THEN Cardinality(P) - 1 ELSE Cardinality(P)
    BY <1>8, FS_RemoveElement
  <1>10. Head(q).msg \in kinds => 1 \in P
    BY <1>2, <1>3 DEF Places
  <1>11. Count(t, kinds) \in Nat
    BY <1>3, CountIsNat
  <1> HIDE DEF P
  <1>12. Count(q, kinds) = Cardinality(P)
    BY DEF Count, P
  <1> QED
    BY <1>1, <1>7, <1>8, <1>9, <1>10, <1>11, <1>12

LEMMA CountConcat ==
  ASSUME NEW S, NEW p \in Seq(S), NEW q \in Seq(S), NEW kinds
  PROVE  /\ Count(p \o q, kinds) <= Count(p, kinds) + Len(q)
         /\ (\A i \in DOMAIN q : q[i].msg \notin kinds) => Count(p \o q, kinds) <= Count(p, kinds)
  <1>1. PICK r : r = p \o q
    OBVIOUS
  <1>2. PICK n \in Nat, m \in Nat : n = Len(p) /\ m = Len(q)
    BY LenProperties
  <1>3. /\ r \in Seq(S) /\ DOMAIN p = 1..n /\ DOMAIN q = 1..m /\ DOMAIN r = 1..(n + m)
        /\ \A i \in 1..(n + m) : r[i] = IF i <= n THEN p[i] ELSE q[i - n]
    BY <1>1, <1>2, ConcatProperties, LenProperties
  <1> DEFINE P == Places(p, kinds)  B == (n + 1)..(n + m)
  <1>4. Places(r, kinds) \subseteq P \cup B
    BY <1>2, <1>3 DEF Places
  <1>5. /\ IsFiniteSet(P) /\ Cardinality(P) \in Nat
        /\ IsFiniteSet(B) /\ Cardinality(B) = m
    <2>1. IsFiniteSet(B) /\ Cardinality(B) = m
      <3>1. n + 1 \in Int /\ n + m \in Int
        BY <1>2
      <3>2. IsFiniteSet(B) /\ Cardinality(B) = IF n + 1 > n + m THEN 0 ELSE (n + m) - (n + 1) + 1
        BY <3>1, FS_Interval
      <3> HIDE DEF B
      <3> QED
        BY <1>2, <3>2
    <2>2. IsFiniteSet(P) /\ Cardinality(P) \in Nat
      BY CountIsNat DEF Count
    <2> HIDE DEF P, B
    <2> QED
      BY <2>1, <2>2
  <1>6. IsFiniteSet(P \cup B) /\ Cardinality(P \cup B) <= Cardinality(P) + m
    <2>1. Cardinality(P \cup B) = Cardinality(P) + Cardinality(B) - Cardinality(P \cap B)
          /\ IsFiniteSet(P \cup B)
      BY <1>5, FS_Union
    <2>2. Cardinality(P \cap B) \in Nat
      BY <1>5, FS_Subset, FS_CardinalityType, P \cap B \subseteq P
    <2> HIDE DEF P, B
    <2> QED
      BY <1>2, <1>5, <2>1, <2>2
  <1>7. Count(r, kinds) <= Cardinality(P \cup B) /\ Count(r, kinds) \in Nat
    BY <1>3, <1>4, <1>6, FS_Subset, CountIsNat DEF Count
  <1>8. ASSUME \A i \in DOMAIN q : q[i].msg \notin kinds
        PROVE  Count(r, kinds) <= Cardinality(P)
    <2>1. Places(r, kinds) \subseteq P
      <3>1. ASSUME NEW i \in Places(r, kinds)
            PROVE  i \in P
        <4>1. i \in 1..(n + m) /\ r[i].msg \in kinds
          BY <1>3 DEF Places
        <4>2. CASE i <= n
          BY <1>2, <1>3, <4>1, <4>2 DEF Places
        <4>3. CASE ~(i <= n)
          <5>1. i - n \in DOMAIN q /\ r[i] = q[i - n]
            BY <1>2, <1>3, <4>1, <4>3
          <5> QED
            BY <1>8, <4>1, <5>1
        <4> QED
          BY <4>2, <4>3
      <3> QED
        BY <3>1
    <2> QED
      BY <1>5, <2>1, FS_Subset DEF Count
  <1>9. Cardinality(P) = Count(p, kinds)
    BY DEF Count
  <1> HIDE DEF P, B
  <1>10. Cardinality(P \cup B) \in Nat
    BY <1>6, FS_CardinalityType
  <1>11. Count(r, kinds) <= Count(p, kinds) + m
    BY <1>2, <1>5, <1>6, <1>7, <1>9, <1>10
  <1> QED
    BY <1>1, <1>2, <1>8, <1>9, <1>11

LEMMA CountLost ==
  ASSUME NEW S, NEW q \in Seq(S), NEW k \in DOMAIN q, NEW kinds
  PROVE  Count(Without(q, k), kinds) <= Count(q, kinds)
  <1>1. PICK r : r = Without(q, k)
    OBVIOUS
  <1>2. PICK n \in Nat : n = Len(q) /\ DOMAIN q = 1..n
    BY LenProperties
  <1>3. PICK a, b : a = SubSeq(q, 1, k - 1) /\ b = SubSeq(q, k + 1, n)
    OBVIOUS
  <1>4. \A i \in 1..n : q[i] \in S
    BY <1>2, ElementOfSeq
  <1>5. a \in Seq(S) /\ Len(a) = k - 1 /\ \A i \in 1..(k - 1) : a[i] = q[i]
    BY <1>2, <1>3, <1>4, SubSeqProperties
  <1>6. b \in Seq(S) /\ Len(b) = n - k /\ \A i \in 1..(n - k) : b[i] = q[k + i]
    BY <1>2, <1>3, <1>4, SubSeqProperties
  <1>7. r = a \o b
    BY <1>1, <1>2, <1>3 DEF Without
  <1>8. /\ r \in Seq(S) /\ Len(r) = Len(a) + Len(b)
        /\ \A i \in 1..(Len(a) + Len(b)) : r[i] = IF i <= Len(a) THEN a[i] ELSE b[i - Len(a)]
    BY <1>5, <1>6, <1>7, ConcatProperties
  <1>9. Len(a) + Len(b) = n - 1 /\ DOMAIN r = 1..(n - 1)
    BY <1>2, <1>5, <1>6, <1>8, LenProperties
  <1> DEFINE From(i) == IF i <= k - 1 THEN i ELSE i + 1
             f == [i \in Places(r, kinds) |-> From(i)]
  <1>10. ASSUME NEW i \in 1..(n - 1)
         PROVE  From(i) \in 1..n /\ r[i] = q[From(i)]
    <2>1. CASE i <= k - 1
      BY <1>2, <1>5, <1>8, <1>9, <2>1
    <2>2. CASE ~(i <= k - 1)
      <3>1. i - (k - 1) \in 1..(n - k) /\ k + (i - (k - 1)) = i + 1 /\ i + 1 \in 1..n
        BY <1>2, <2>2
      <3>2. r[i] = b[i - (k - 1)]
        BY <1>5, <1>8, <1>9, <2>2
      <3>3. b[i - (k - 1)] = q[i + 1]
        BY <1>6, <3>1
      <3> QED
        BY <2>2, <3>1, <3>2, <3>3
    <2> QED
      BY <2>1, <2>2
  <1>11. \A i \in Places(r, kinds) : i \in 1..(n - 1)
    BY <1>9 DEF Places
  <1>12. f \in [Places(r, kinds) -> Places(q, kinds)]
    <2>1. ASSUME NEW i \in Places(r, kinds)
          PROVE  From(i) \in Places(q, kinds)
      <3>1. r[i].msg \in kinds
        BY DEF Places
      <3> HIDE DEF From
      <3> QED
        BY <1>2, <1>10, <1>11, <3>1 DEF Places
    <2> HIDE DEF From
    <2> QED
      BY <2>1
  <1>13. \A i, j \in Places(r, kinds) : f[i] = f[j] => i = j
    BY <1>2, <1>11
  <1>14. Count(r, kinds) <= Cardinality(Places(q, kinds))
    <2> HIDE DEF f
    <2> QED
      BY <1>8, <1>12, <1>13, CountEmbeds
  <1> QED
    BY <1>1, <1>14 DEF Count

\* What the messages of a channel may add to the chunks under way: a HELLO is
\* worth the window that it will open.
Wire == {"FETCH", "CHUNK"}
Weight(q) == Count(q, Wire) + Credit * Count(q, {"HELLO"})
Worth(m) == IF m.msg = "HELLO" THEN Credit ELSE IF m.msg \in Wire THEN 1 ELSE 0

\* A HELLO that comes too early is a fault.
Flow == \A a \in Addrs : Weight(toMaster[a]) + Weight(toSlave[a]) <= Credit * (1 + faults)

LEMMA Multiples ==
  ASSUME NEW c \in Nat, NEW x \in Nat, NEW y \in Nat
  PROVE  /\ c * x \in Nat /\ c * (x + 1) = c * x + c
         /\ x <= y => c * x <= c * y
  OBVIOUS

LEMMA WeightIsNat ==
  ASSUME NEW S, NEW q \in Seq(S)
  PROVE  Weight(q) \in Nat
  <1>1. Count(q, Wire) \in Nat /\ Count(q, {"HELLO"}) \in Nat
    BY CountIsNat
  <1>2. Credit * Count(q, {"HELLO"}) \in Nat
    BY <1>1, CreditIsNat, Multiples
  <1> QED
    BY <1>1, <1>2 DEF Weight

LEMMA WeightEmpty == Weight(<<>>) = 0
  <1>1. \A kinds : Places(<<>>, kinds) = {}
    BY DEF Places
  <1>2. \A kinds : Count(<<>>, kinds) = 0
    BY <1>1, FS_EmptySet DEF Count
  <1> QED
    BY <1>2, CreditIsNat DEF Weight

LEMMA WeightAppend ==
  ASSUME NEW S, NEW q \in Seq(S), NEW m \in S
  PROVE  Weight(Append(q, m)) = Weight(q) + Worth(m)
  <1>1. PICK x, y : x = Count(q, Wire) /\ y = Count(q, {"HELLO"})
    OBVIOUS
  <1>2. x \in Nat /\ y \in Nat
    BY <1>1, CountIsNat
  <1>3. Count(Append(q, m), Wire) = x + (IF m.msg \in Wire THEN 1 ELSE 0)
    BY <1>1, CountAppend
  <1>4. Count(Append(q, m), {"HELLO"}) = y + (IF m.msg = "HELLO" THEN 1 ELSE 0)
    BY <1>1, CountAppend
  <1>5. Credit \in Nat /\ Credit * (y + 1) = Credit * y + Credit /\ Credit * y \in Nat
    BY <1>2, CreditIsNat, Multiples
  <1>6. PICK h : h = m.msg
    OBVIOUS
  <1>7. Weight(q) = x + Credit * y
    BY <1>1 DEF Weight
  <1>8. PICK u, v : u = Count(Append(q, m), Wire) /\ v = Count(Append(q, m), {"HELLO"})
    OBVIOUS
  <1>9. Weight(Append(q, m)) = u + Credit * v
    BY <1>8 DEF Weight
  <1>10. CASE h = "HELLO"
    <2>1. u = x /\ v = y + 1 /\ Worth(m) = Credit
      BY <1>2, <1>3, <1>4, <1>6, <1>8, <1>10 DEF Wire, Worth
    <2> QED
      BY <1>2, <1>5, <1>7, <1>9, <2>1
  <1>11. CASE h # "HELLO"
    <2>1. u = x + Worth(m) /\ v = y /\ Worth(m) \in {0, 1}
      BY <1>2, <1>3, <1>4, <1>6, <1>8, <1>11 DEF Worth
    <2> QED
      BY <1>2, <1>5, <1>7, <1>9, <2>1
  <1> QED
    BY <1>10, <1>11

LEMMA WeightTail ==
  ASSUME NEW S, NEW q \in Seq(S), q # <<>>
  PROVE  Weight(Tail(q)) + Worth(Head(q)) <= Weight(q)
  <1>1. PICK x, y : x = Count(q, Wire) /\ y = Count(q, {"HELLO"})
    OBVIOUS
  <1>2. PICK u, v : u = Count(Tail(q), Wire) /\ v = Count(Tail(q), {"HELLO"})
    OBVIOUS
  <1>3. x \in Nat /\ y \in Nat /\ u \in Nat /\ v \in Nat
    BY <1>1, <1>2, CountIsNat, HeadTailProperties
  <1>4. PICK h : h = Head(q).msg
    OBVIOUS
  <1>5. u + (IF h \in Wire THEN 1 ELSE 0) <= x /\ v + (IF h = "HELLO" THEN 1 ELSE 0) <= y
    BY <1>1, <1>2, <1>4, CountTail
  <1>6. /\ Credit \in Nat /\ Credit * v \in Nat /\ Credit * y \in Nat
        /\ v <= y => Credit * v <= Credit * y
        /\ Credit * (v + 1) = Credit * v + Credit
        /\ v + 1 <= y => Credit * (v + 1) <= Credit * y
    BY <1>3, CreditIsNat, Multiples
  <1>7. Weight(q) = x + Credit * y /\ Weight(Tail(q)) = u + Credit * v
    BY <1>1, <1>2 DEF Weight
  <1>8. Worth(Head(q)) = IF h = "HELLO" THEN Credit ELSE IF h \in Wire THEN 1 ELSE 0
    BY <1>4 DEF Worth
  <1>9. CASE h = "HELLO"
    BY <1>3, <1>5, <1>6, <1>7, <1>8, <1>9 DEF Wire
  <1>10. CASE h # "HELLO"
    BY <1>3, <1>5, <1>6, <1>7, <1>8, <1>10, SMTT(40)
  <1> QED
    BY <1>9, <1>10

LEMMA WeightConcat ==
  ASSUME NEW S, NEW p \in Seq(S), NEW q \in Seq(S), \A i \in DOMAIN q : q[i].msg # "HELLO"
  PROVE  /\ Weight(p \o q) <= Weight(p) + Len(q)
         /\ (\A i \in DOMAIN q : q[i].msg \notin Wire) => Weight(p \o q) <= Weight(p)
  <1>1. PICK x, y : x = Count(p, Wire) /\ y = Count(p, {"HELLO"})
    OBVIOUS
  <1>2. PICK u, v : u = Count(p \o q, Wire) /\ v = Count(p \o q, {"HELLO"})
    OBVIOUS
  <1>3. x \in Nat /\ y \in Nat /\ u \in Nat /\ v \in Nat /\ Len(q) \in Nat
    BY <1>1, <1>2, CountIsNat, ConcatProperties, LenProperties
  <1>4. v <= y
    BY <1>1, <1>2, CountConcat
  <1>5. u <= x + Len(q) /\ ((\A i \in DOMAIN q : q[i].msg \notin Wire) => u <= x)
    BY <1>1, <1>2, CountConcat
  <1>6. Credit * v \in Nat /\ Credit * y \in Nat /\ Credit * v <= Credit * y
    BY <1>3, <1>4, CreditIsNat, Multiples
  <1>7. Weight(p) = x + Credit * y /\ Weight(p \o q) = u + Credit * v
    BY <1>1, <1>2 DEF Weight
  <1> QED
    BY <1>3, <1>5, <1>6, <1>7

LEMMA WeightLost ==
  ASSUME NEW S, NEW q \in Seq(S), NEW n \in DOMAIN q
  PROVE  Weight(Without(q, n)) <= Weight(q)
  <1>1. PICK x, y : x = Count(q, Wire) /\ y = Count(q, {"HELLO"})
    OBVIOUS
  <1>2. PICK u, v : u = Count(Without(q, n), Wire) /\ v = Count(Without(q, n), {"HELLO"})
    OBVIOUS
  <1>3. x \in Nat /\ y \in Nat /\ u \in Nat /\ v \in Nat
    BY <1>1, <1>2, CountIsNat, MailLost
  <1>4. u <= x /\ v <= y
    BY <1>1, <1>2, CountLost
  <1>5. Credit * v \in Nat /\ Credit * y \in Nat /\ Credit * v <= Credit * y
    BY <1>3, <1>4, CreditIsNat, Multiples
  <1> QED
    BY <1>1, <1>2, <1>3, <1>4, <1>5 DEF Weight

LEMMA Widens ==
  ASSUME NEW m \in Nat, NEW n \in Nat, m <= n
  PROVE  Credit * (1 + m) \in Nat /\ Credit * (1 + n) \in Nat /\ Credit * (1 + m) <= Credit * (1 + n)
  <1>1. PICK x, y : x = 1 + m /\ y = 1 + n
    OBVIOUS
  <1>2. x \in Nat /\ y \in Nat /\ x <= y
    BY <1>1
  <1> QED
    BY <1>1, <1>2, CreditIsNat, Multiples

\* The window stays, or widens for a fault.
LEMMA FlowKeeps ==
  ASSUME Upload, Flow, faults' \in Nat, faults <= faults',
         toMaster' \in [Addrs -> Seq(Uploads)], toSlave' \in [Addrs -> Seq(Requests)],
         \A a \in Addrs :
           Weight(toMaster'[a]) + Weight(toSlave'[a]) <= Weight(toMaster[a]) + Weight(toSlave[a])
  PROVE  Flow'
  <1>1. faults \in Nat
    BY Channels, TransferAssumption
  <1>2. PICK x, y : x = Credit * (1 + faults) /\ y = Credit * (1 + faults')
    OBVIOUS
  <1>3. x \in Nat /\ y \in Nat /\ x <= y
    BY <1>1, <1>2, Widens
  <1>4. ASSUME NEW a \in Addrs
        PROVE  Weight(toMaster'[a]) + Weight(toSlave'[a]) <= y
    <2>1. Weight(toMaster[a]) \in Nat /\ Weight(toSlave[a]) \in Nat
      BY Channels, WeightIsNat
    <2>2. Weight(toMaster'[a]) \in Nat /\ Weight(toSlave'[a]) \in Nat
      BY WeightIsNat
    <2>3. Weight(toMaster[a]) + Weight(toSlave[a]) <= x
      BY <1>2 DEF Flow
    <2>4. Weight(toMaster'[a]) + Weight(toSlave'[a]) <= Weight(toMaster[a]) + Weight(toSlave[a])
      OBVIOUS
    <2> QED
      BY <1>3, <2>1, <2>2, <2>3, <2>4
  <1> QED
    BY <1>2, <1>4 DEF Flow

\* Reading a message takes its worth, which is the credit for what is fetched.
LEMMA TakingFlow ==
  ASSUME Upload, Flow, NEW a \in Addrs, NEW kind, Receives(a, kind), Take(a),
         NEW c \in Nat, c <= Worth(Head(toMaster[a])),
         toSlave' \in [Addrs -> Seq(Requests)],
         \A b \in Addrs : Weight(toSlave'[b]) <= Weight(toSlave[b]) + (IF b = a THEN c ELSE 0),
         UNCHANGED faults
  PROVE  Flow'
  <1>1. toMaster \in [Addrs -> Seq(Uploads)] /\ toSlave \in [Addrs -> Seq(Requests)]
    BY Channels
  <1>2. /\ toMaster' \in [Addrs -> Seq(Uploads)]
        /\ toMaster'[a] = Tail(toMaster[a])
        /\ \A b \in Addrs : b # a => toMaster'[b] = toMaster[b]
    BY <1>1, Taking DEF Take, Upload
  <1>3. Weight(Tail(toMaster[a])) + Worth(Head(toMaster[a])) <= Weight(toMaster[a])
    BY <1>1, WeightTail DEF Receives
  <1>4. ASSUME NEW b \in Addrs
        PROVE  Weight(toMaster'[b]) + Weight(toSlave'[b]) <= Weight(toMaster[b]) + Weight(toSlave[b])
    <2>1. /\ Weight(toMaster[b]) \in Nat /\ Weight(toSlave[b]) \in Nat
          /\ Weight(toMaster'[b]) \in Nat /\ Weight(toSlave'[b]) \in Nat
      BY <1>1, <1>2, WeightIsNat
    <2>2. CASE b = a
      <3>1. Worth(Head(toMaster[a])) \in Nat
        BY CreditIsNat DEF Worth
      <3>2. Weight(toMaster'[a]) + Worth(Head(toMaster[a])) <= Weight(toMaster[a])
        BY <1>2, <1>3
      <3>3. Weight(toSlave'[a]) <= Weight(toSlave[a]) + c
        OBVIOUS
      <3> QED
        BY <2>1, <2>2, <3>1, <3>2, <3>3
    <2>3. CASE b # a
      <3>1. Weight(toSlave'[b]) <= Weight(toSlave[b]) + 0
        BY <2>3
      <3> QED
        BY <1>2, <2>1, <2>3, <3>1
    <2> QED
      BY <2>2, <2>3
  <1>5. faults' \in Nat /\ faults <= faults'
    BY Channels, TransferAssumption
  <1> QED
    BY <1>2, <1>4, <1>5, FlowKeeps

Adds(msgs, c) == \A q \in Seq(Requests) : Weight(q \o msgs) <= Weight(q) + c

LEMMA DeliversWeight ==
  ASSUME Upload, NEW a \in Addrs, NEW msgs \in Seq(Requests), Deliver(a, msgs), NEW c \in Nat,
         Adds(msgs, c)
  PROVE  \A b \in Addrs : Weight(toSlave'[b]) <= Weight(toSlave[b]) + (IF b = a THEN c ELSE 0)
  <1> TAKE b \in Addrs
  <1>1. toSlave \in [Addrs -> Seq(Requests)] /\ Weight(toSlave[b]) \in Nat
    BY Channels, WeightIsNat
  <1>2. toSlave'[b] = toSlave[b] \/ (b = a /\ toSlave'[b] = toSlave[b] \o msgs)
    BY <1>1 DEF Deliver
  <1>3. Weight(toSlave[b] \o msgs) <= Weight(toSlave[b]) + c
    BY <1>1 DEF Adds
  <1>4. CASE b = a
    <2>1. PICK w, v, u :
            w = Weight(toSlave[b]) /\ v = Weight(toSlave'[b]) /\ u = Weight(toSlave[b] \o msgs)
      OBVIOUS
    <2>2. v = w \/ v = u
      BY <1>2, <2>1
    <2>3. v <= w + c
      BY <1>1, <1>3, <2>1, <2>2
    <2> QED
      BY <1>4, <2>1, <2>3
  <1>5. CASE b # a
    <2>1. toSlave'[b] = toSlave[b]
      BY <1>2, <1>5
    <2> QED
      BY <1>1, <1>5, <2>1
  <1> QED
    BY <1>4, <1>5

\* The loop at the end of handle_file asks for as many chunks as it has credits.
LEMMA FetchingWeight ==
  ASSUME Upload, NEW a \in Addrs, NEW t \in Transfers, t.missing # {}, NEW n \in {1, Credit},
         FetchMore(a, t, n)
  PROVE  /\ toSlave' \in [Addrs -> Seq(Requests)]
         /\ \A b \in Addrs : Weight(toSlave'[b]) <= Weight(toSlave[b]) + (IF b = a THEN n ELSE 0)
  <1>1. n \in Nat \ {0} /\ 1..n \subseteq 1..Credit
    BY CreditIsNat
  <1>2. PICK o : o = OffsetAfter(t)
    OBVIOUS
  <1>3. PICK msgs : msgs = [k \in 1..n |-> [msg |-> "FETCH", at |-> o[k] - 1]]
    OBVIOUS
  <1>4. \A k \in 1..n : o[k] - 1 \in Offsets
    BY <1>1, <1>2, OffsetsAreChunks DEF Transfers
  <1>5. msgs \in [1..n -> Fetches] /\ \A k \in 1..n : msgs[k].msg = "FETCH"
    BY <1>3, <1>4 DEF Fetches
  <1>6. msgs \in Seq(Requests) /\ Len(msgs) = n /\ DOMAIN msgs = 1..n
    BY <1>1, <1>5 DEF Requests
  <1>7. Deliver(a, msgs)
    BY <1>2, <1>3 DEF FetchMore
  <1>8. Adds(msgs, n)
    BY <1>5, <1>6, WeightConcat DEF Adds
  <1>9. toSlave' \in [Addrs -> Seq(Requests)]
    BY Fetching DEF Upload, Reaches
  <1> QED
    BY <1>1, <1>6, <1>7, <1>8, <1>9, DeliversWeight

LEMMA HandleFileFlow ==
  ASSUME Upload, Flow, NEW a \in Addrs, HandleFile(a)
  PROVE  Flow'
  <1>1. PICK m : m = Head(toMaster[a])
    OBVIOUS
  <1>2. ASSUME NEW kind, Receives(a, kind), Take(a), UNCHANGED <<toSlave, faults>>
        PROVE  Flow'
    <2>1. 0 <= Worth(m)
      BY CreditIsNat DEF Worth
    <2>2. \A b \in Addrs : Weight(toSlave'[b]) <= Weight(toSlave[b]) + (IF b = a THEN 0 ELSE 0)
      BY <1>2, Channels, WeightIsNat
    <2> QED
      BY <1>1, <1>2, <2>1, <2>2, Channels, TakingFlow
  <1>3. CASE HelloIgnored(a) \/ ChunkIgnored(a)
    BY <1>2, <1>3 DEF HelloIgnored, ChunkIgnored
  <1>4. CASE HelloStarts(a)
    <2>1. PICK i, t : i = Head(toMaster[a]).id /\ t = pending[i]
      OBVIOUS
    <2>2. Receives(a, "HELLO") /\ pending[i] # NoTransfer /\ FetchMore(a, t, Credit) /\ Take(a) /\ UNCHANGED faults
      BY <1>4, <2>1 DEF HelloStarts
    <2>3. i \in Ids
      BY <2>1, <2>2, Taking DEF Upload
    <2>4. t \in Transfers /\ t.missing # {}
      <3>1. Offsets # {}
        BY TransferAssumption DEF Offsets
      <3> QED
        BY <2>1, <2>2, <2>3, <3>1, Something DEF Upload, Holes
    <2>5. Worth(m) = Credit
      BY <1>1, <2>2 DEF Worth, Receives
    <2> QED
      BY <1>1, <2>2, <2>4, <2>5, CreditIsNat, FetchingWeight, TakingFlow
  <1>5. CASE HelloProds(a)
    <2>1. Receives(a, "HELLO") /\ FetchMore(a, active[a], Credit) /\ Take(a) /\ UNCHANGED faults
      BY <1>5 DEF HelloProds
    <2>2. active[a] \in Transfers /\ active[a].missing # {}
      BY <1>5, Something DEF HelloProds, Upload, Holes, Finished
    <2>3. Worth(m) = Credit
      BY <1>1, <2>1 DEF Worth, Receives
    <2> QED
      BY <1>1, <2>1, <2>2, <2>3, CreditIsNat, FetchingWeight, TakingFlow
  <1>6. ASSUME Receives(a, "CHUNK")
        PROVE  Worth(m) = 1
    BY <1>1, <1>6 DEF Worth, Receives, Wire
  <1>7. CASE ChunkStored(a)
    <2>1. PICK v : v = Chunk(active[a], m)
      OBVIOUS
    <2>2. /\ Receives(a, "CHUNK") /\ active[a] # NoTransfer /\ ~Finished(v)
          /\ FetchMore(a, v, 1) /\ Take(a) /\ UNCHANGED faults
      BY <1>1, <1>7, <2>1 DEF ChunkStored
    <2>3. m \in Mail(toMaster[a]) /\ m.msg = "CHUNK" /\ m.at \in Offsets /\ m.data \in Contents
      BY <1>1, <2>2, Taking DEF Upload
    <2>4. m.data # Hole
      BY <2>3 DEF Upload, Holes
    <2>5. active[a] \in Transfers /\ active[a].missing = HolesOf(active[a])
      BY <2>2, Something DEF Upload, Holes
    <2>6. v \in Transfers /\ v.missing # {}
      BY <2>1, <2>2, <2>3, <2>4, <2>5, ChunkFills DEF Finished
    <2>7. /\ toSlave' \in [Addrs -> Seq(Requests)]
          /\ \A b \in Addrs : Weight(toSlave'[b]) <= Weight(toSlave[b]) + (IF b = a THEN 1 ELSE 0)
      BY <2>2, <2>6, FetchingWeight
    <2>8. 1 \in Nat /\ 1 <= Worth(Head(toMaster[a]))
      BY <1>1, <1>6, <2>2
    <2> QED
      BY <2>2, <2>7, <2>8, TakingFlow
  <1>8. CASE ChunkCompletes(a)
    <2>1. Receives(a, "CHUNK") /\ Deliver(a, <<Done>>) /\ Take(a) /\ UNCHANGED faults
      BY <1>8 DEF ChunkCompletes
    <2>2. <<Done>> \in Seq(Requests) /\ DOMAIN <<Done>> = {1} /\ <<Done>>[1].msg = "DONE"
      BY DEF Requests, Done
    <2>3. Adds(<<Done>>, 0)
      <3> SUFFICES ASSUME NEW q \in Seq(Requests)
                   PROVE  Weight(q \o <<Done>>) <= Weight(q) + 0
        BY DEF Adds
      <3>1. Weight(q \o <<Done>>) <= Weight(q) /\ Weight(q) \in Nat
        BY <2>2, WeightConcat, WeightIsNat DEF Wire
      <3> QED
        BY <3>1
    <2>4. toSlave' \in [Addrs -> Seq(Requests)]
      BY <2>1, <2>2, Delivers DEF Upload, Reaches
    <2>5. \A b \in Addrs : Weight(toSlave'[b]) <= Weight(toSlave[b]) + (IF b = a THEN 0 ELSE 0)
      BY <2>1, <2>2, <2>3, DeliversWeight
    <2>6. 0 <= Worth(m)
      BY <1>6, <2>1
    <2> QED
      BY <1>1, <2>1, <2>4, <2>5, <2>6, TakingFlow
  <1> QED
    BY <1>3, <1>4, <1>5, <1>7, <1>8 DEF HandleFile

\* Steps that leave the messages where they are.
LEMMA StillFlow ==
  ASSUME Upload, Flow, UNCHANGED <<toMaster, toSlave>>, faults' \in Nat, faults <= faults'
  PROVE  Flow'
  <1>1. toMaster \in [Addrs -> Seq(Uploads)] /\ toSlave \in [Addrs -> Seq(Requests)]
    BY Channels
  <1>2. \A a \in Addrs : Weight(toMaster[a]) \in Nat /\ Weight(toSlave[a]) \in Nat
    BY <1>1, WeightIsNat
  <1>3. \A a \in Addrs :
          Weight(toMaster'[a]) + Weight(toSlave'[a]) <= Weight(toMaster[a]) + Weight(toSlave[a])
    BY <1>2
  <1> QED
    BY <1>1, <1>3, FlowKeeps

LEMMA FaultsRise ==
  ASSUME Upload
  PROVE  /\ faults \in Nat
         /\ UNCHANGED faults => faults' \in Nat /\ faults <= faults'
         /\ \A kind : Fault(kind) => faults' \in Nat /\ faults <= faults' /\ faults' = faults + 1
  <1>1. faults \in Nat
    BY Channels, TransferAssumption
  <1> QED
    BY <1>1 DEF Fault

\* HELLO fills an empty channel, or one that has a window for the fault.
LEMMA HelloFlow ==
  ASSUME Upload, Flow, NEW s \in Slaves, phase[s] \in {"told", "sending"}, NEW a \in Addrs,
         Send(a, Hello(s)), UNCHANGED toSlave,
         \/ Drained(a) /\ UNCHANGED faults
         \/ faults' = faults + 1
  PROVE  Flow'
  <1>1. toMaster \in [Addrs -> Seq(Uploads)] /\ toSlave \in [Addrs -> Seq(Requests)]
    BY Channels
  <1>2. PICK m : m = Hello(s)
    OBVIOUS
  <1>3. m \in Uploads /\ Worth(m) = Credit
    BY <1>2 DEF Hello, Uploads, Hellos, Upload, TypeOK, Tasks, Worth
  <1>4. /\ toMaster'[a] = Append(toMaster[a], m)
        /\ \A b \in Addrs : b # a => toMaster'[b] = toMaster[b]
    BY <1>1, <1>2 DEF Send
  <1>5. Weight(toMaster'[a]) = Weight(toMaster[a]) + Credit
    BY <1>1, <1>3, <1>4, WeightAppend
  <1>6. PICK x, y : x = Credit * (1 + faults) /\ y = Credit * (1 + faults')
    OBVIOUS
  <1>7. faults \in Nat /\ faults' \in Nat /\ faults <= faults'
    BY FaultsRise
  <1>8. x \in Nat /\ y \in Nat /\ x <= y
    BY <1>6, <1>7, Widens
  <1>9. Credit <= y
    <2>1. Credit * (1 + 0) <= Credit * (1 + faults')
      BY <1>7, Widens
    <2> QED
      BY <1>6, <2>1, CreditIsNat
  <1>10. faults' = faults + 1 => y = x + Credit
    <2>1. Credit * ((1 + faults) + 1) = Credit * (1 + faults) + Credit
      BY <1>7, CreditIsNat, Multiples
    <2>2. faults' = faults + 1 => 1 + faults' = (1 + faults) + 1
      BY <1>7
    <2> QED
      BY <1>6, <2>1, <2>2
  <1>11. \A b \in Addrs : Weight(toMaster[b]) \in Nat /\ Weight(toSlave[b]) \in Nat
    BY <1>1, WeightIsNat
  <1>12. ASSUME NEW b \in Addrs
         PROVE  Weight(toMaster'[b]) + Weight(toSlave'[b]) <= y
    <2>1. Weight(toMaster[b]) + Weight(toSlave[b]) <= x
      BY <1>6 DEF Flow
    <2>2. CASE b # a
      <3>1. Weight(toMaster'[b]) = Weight(toMaster[b]) /\ Weight(toSlave'[b]) = Weight(toSlave[b])
        BY <1>4, <2>2
      <3> QED
        BY <1>8, <1>11, <2>1, <3>1
    <2>3. CASE b = a /\ Drained(a) /\ UNCHANGED faults
      <3>1. Weight(toMaster[a]) = 0 /\ Weight(toSlave'[a]) = 0
        BY <2>3, WeightEmpty DEF Drained
      <3>2. Weight(toMaster'[a]) = Credit
        BY <1>5, <3>1, CreditIsNat
      <3> QED
        BY <1>9, <2>3, <3>1, <3>2, CreditIsNat
    <2>4. CASE b = a /\ faults' = faults + 1
      <3>1. y = x + Credit /\ Weight(toSlave'[a]) = Weight(toSlave[a])
        BY <1>10, <2>4
      <3> QED
        BY <1>5, <1>8, <1>11, <2>1, <2>4, <3>1, CreditIsNat
    <2> QED
      BY <2>2, <2>3, <2>4
  <1> QED
    BY <1>6, <1>12 DEF Flow

LEMMA StartSendFlow ==
  ASSUME Upload, Flow, NEW s \in Slaves, StartSend(s)
  PROVE  Flow'
  <1>1. PICK a \in Addrs : (\A o \in Slaves : socket[o] # a) /\ toMaster[a] = <<>> /\ Send(a, Hello(s))
    BY DEF StartSend
  <1>2. Drained(a)
    BY <1>1, Channels DEF Drained
  <1> QED
    BY <1>1, <1>2, HelloFlow DEF StartSend

LEMMA ProdsFlow ==
  ASSUME Upload, Flow, NEW s \in Slaves, Prod(s) \/ EarlyProd(s)
  PROVE  Flow'
  <1>1. phase[s] = "sending" /\ Send(socket[s], Hello(s)) /\ UNCHANGED toSlave
    BY DEF Prod, EarlyProd, Prods
  <1>2. socket[s] \in Addrs
    BY <1>1, Channels
  <1>3. \/ Drained(socket[s]) /\ UNCHANGED faults
        \/ faults' = faults + 1
    BY DEF Prod, EarlyProd, Fault
  <1> QED
    BY <1>1, <1>2, <1>3, HelloFlow

\* A chunk takes the place of the fetch that it answers.
LEMMA FetchAnsweredFlow ==
  ASSUME Upload, Flow, NEW s \in Slaves, FetchAnswered(s), Upload'
  PROVE  Flow'
  <1>1. PICK a \in Addrs : a = socket[s]
    BY Channels DEF FetchAnswered, Hears
  <1>2. PICK m : m = [msg |-> "CHUNK", at |-> Head(toSlave[a]).at, data |-> <<s, wheel[s]>>]
    OBVIOUS
  <1>3. /\ toSlave[a] # <<>> /\ Head(toSlave[a]).msg = "FETCH" /\ UNCHANGED faults
        /\ toSlave' = [toSlave EXCEPT ![a] = Tail(@)] /\ Send(a, m)
        /\ wheel[s] \in 0..MaxFiles /\ phase[s] = "sending"
    BY <1>1, <1>2 DEF FetchAnswered, Hears, Upload, TypeOK
  <1>4. toMaster \in [Addrs -> Seq(Uploads)] /\ toSlave \in [Addrs -> Seq(Requests)]
    BY Channels
  <1>5. toMaster' \in [Addrs -> Seq(Uploads)] /\ toSlave' \in [Addrs -> Seq(Requests)]
    BY DEF Upload, TypeOK, Uploads, Requests
  <1>6. Head(toSlave[a]) \in Requests
    BY <1>3, <1>4, HeadTailProperties
  <1>7. Head(toSlave[a]).at \in Offsets
    BY <1>3, <1>6 DEF Requests, Fetches, Done
  <1>8. m \in Uploads /\ Worth(m) = 1 /\ Worth(Head(toSlave[a])) = 1
    BY <1>2, <1>3, <1>7 DEF Uploads, ChunkMsgs, Contents, Files, Upload, Tasks, Worth, Wire
  <1>9. Weight(toMaster'[a]) = Weight(toMaster[a]) + 1
    BY <1>3, <1>4, <1>8, WeightAppend DEF Send
  <1>10. Weight(toSlave'[a]) + 1 <= Weight(toSlave[a])
    BY <1>3, <1>4, <1>8, WeightTail
  <1>11. \A b \in Addrs :
           /\ Weight(toMaster[b]) \in Nat /\ Weight(toSlave[b]) \in Nat
           /\ Weight(toMaster'[b]) \in Nat /\ Weight(toSlave'[b]) \in Nat
    BY <1>4, <1>5, WeightIsNat
  <1>12. ASSUME NEW b \in Addrs
         PROVE  Weight(toMaster'[b]) + Weight(toSlave'[b]) <= Weight(toMaster[b]) + Weight(toSlave[b])
    <2>1. CASE b = a
      BY <1>9, <1>10, <1>11, <2>1
    <2>2. CASE b # a
      <3>1. toMaster'[b] = toMaster[b] /\ toSlave'[b] = toSlave[b]
        BY <1>3, <1>4, <2>2 DEF Send
      <3> QED
        BY <1>11, <3>1
    <2> QED
      BY <2>1, <2>2
  <1> QED
    BY <1>3, <1>5, <1>12, FaultsRise, FlowKeeps

\* Messages are lost, thrown away or damaged.
LEMMA LossFlow ==
  ASSUME Upload, Flow, Upload', faults' \in Nat, faults <= faults', NEW a \in Addrs,
         \/ UNCHANGED toSlave /\ \E n \in DOMAIN toMaster[a] : toMaster' = [toMaster EXCEPT ![a] = Without(@, n)]
         \/ UNCHANGED toMaster /\ \E n \in DOMAIN toSlave[a] : toSlave' = [toSlave EXCEPT ![a] = Without(@, n)]
         \/ UNCHANGED toMaster /\ toSlave' = [toSlave EXCEPT ![a] = <<>>]
  PROVE  Flow'
  <1>1. toMaster \in [Addrs -> Seq(Uploads)] /\ toSlave \in [Addrs -> Seq(Requests)]
    BY Channels
  <1>2. toMaster' \in [Addrs -> Seq(Uploads)] /\ toSlave' \in [Addrs -> Seq(Requests)]
    BY DEF Upload, TypeOK, Uploads, Requests
  <1>3. \A b \in Addrs :
          /\ Weight(toMaster[b]) \in Nat /\ Weight(toSlave[b]) \in Nat
          /\ Weight(toMaster'[b]) \in Nat /\ Weight(toSlave'[b]) \in Nat
    BY <1>1, <1>2, WeightIsNat
  <1>4. Weight(toMaster'[a]) <= Weight(toMaster[a])
    BY <1>1, <1>3, WeightLost
  <1>5. Weight(toSlave'[a]) <= Weight(toSlave[a])
    BY <1>1, <1>3, WeightLost, WeightEmpty
  <1>6. \A b \in Addrs : b # a => toMaster'[b] = toMaster[b] /\ toSlave'[b] = toSlave[b]
    BY <1>1
  <1>7. ASSUME NEW b \in Addrs
        PROVE  Weight(toMaster'[b]) + Weight(toSlave'[b]) <= Weight(toMaster[b]) + Weight(toSlave[b])
    <2>1. Weight(toMaster'[b]) <= Weight(toMaster[b]) /\ Weight(toSlave'[b]) <= Weight(toSlave[b])
      BY <1>3, <1>4, <1>5, <1>6
    <2> QED
      BY <1>3, <2>1
  <1> QED
    BY <1>2, <1>7, FlowKeeps

LEMMA DamageFlow ==
  ASSUME Upload, Flow, Upload', NEW a \in Addrs, Damage(a)
  PROVE  Flow'
  <1>1. PICK q : q = toMaster[a]
    OBVIOUS
  <1>2. PICK n \in DOMAIN q :
          q[n].msg = "CHUNK" /\ toMaster' = [toMaster EXCEPT ![a][n].data = Damaged]
    BY <1>1 DEF Damage
  <1>3. PICK r : r = toMaster'[a]
    OBVIOUS
  <1>4. toMaster \in [Addrs -> Seq(Uploads)] /\ toSlave \in [Addrs -> Seq(Requests)] /\ UNCHANGED toSlave
    BY Channels DEF Damage
  <1>5. toMaster' \in [Addrs -> Seq(Uploads)]
    BY DEF Upload, TypeOK, Uploads
  <1>6. /\ r = [q EXCEPT ![n] = [q[n] EXCEPT !.data = Damaged]]
        /\ \A b \in Addrs : b # a => toMaster'[b] = toMaster[b]
    BY <1>1, <1>2, <1>3, <1>4
  <1>7. q[n] \in ChunkMsgs
    BY <1>1, <1>2, <1>4, ElementOfSeq, LenProperties DEF Uploads, Hellos
  <1>8. DOMAIN r = DOMAIN q /\ \A i \in DOMAIN q : r[i].msg = q[i].msg
    BY <1>6, <1>7 DEF ChunkMsgs
  <1>9. \A kinds : Places(r, kinds) = Places(q, kinds)
    BY <1>8 DEF Places
  <1>10. Weight(r) = Weight(q)
    BY <1>9 DEF Weight, Count
  <1>11. \A b \in Addrs : Weight(toMaster[b]) \in Nat /\ Weight(toSlave[b]) \in Nat
    BY <1>4, WeightIsNat
  <1>12. ASSUME NEW b \in Addrs
         PROVE  Weight(toMaster'[b]) + Weight(toSlave'[b]) <= Weight(toMaster[b]) + Weight(toSlave[b])
    <2>1. Weight(toMaster'[b]) = Weight(toMaster[b]) /\ toSlave'[b] = toSlave[b]
      BY <1>1, <1>3, <1>4, <1>6, <1>10
    <2> QED
      BY <1>11, <2>1
  <1>13. faults' \in Nat /\ faults <= faults'
    BY FaultsRise DEF Damage
  <1> QED
    BY <1>4, <1>5, <1>12, <1>13, FlowKeeps

LEMMA InitFlow == Init => Flow
  <1> SUFFICES ASSUME Init PROVE Flow
    OBVIOUS
  <1>1. Credit * (1 + 0) \in Nat
    BY Widens
  <1>2. \A a \in Addrs : Weight(toMaster[a]) = 0 /\ Weight(toSlave[a]) = 0
    BY WeightEmpty DEF Init
  <1> QED
    BY <1>1, <1>2 DEF Init, Flow

LEMMA StepFlow == Upload /\ Upload' /\ Flow /\ [Next]_vars => Flow'
  <1> SUFFICES ASSUME Upload, Upload', Flow, [Next]_vars PROVE Flow'
    OBVIOUS
  <1>1. ASSUME NEW a \in Addrs, HandleFile(a) PROVE Flow'
    BY <1>1, HandleFileFlow
  <1>2. ASSUME NEW s \in Slaves, Join(s) \/ Built(s) \/ SentVerified(s) \/ SentRejected(s)
        PROVE  Flow'
    BY <1>2, StillFlow, FaultsRise DEF Join, Built, SentVerified, SentRejected, wires
  <1>3. ASSUME NEW s \in Slaves, StartSend(s) \/ Prod(s) \/ EarlyProd(s) \/ FetchAnswered(s)
        PROVE  Flow'
    BY <1>3, StartSendFlow, ProdsFlow, FetchAnsweredFlow
  <1>4. ASSUME NEW s \in Slaves, DoneHeard(s) PROVE Flow'
    <2>1. /\ socket[s] \in Addrs /\ UNCHANGED <<toMaster, faults>>
          /\ toSlave' = [toSlave EXCEPT ![socket[s]] = <<>>]
      BY <1>4, Channels DEF DoneHeard, Hears
    <2> QED
      BY <2>1, FaultsRise, LossFlow
  <1>5. ASSUME NEW s \in Slaves, Exit(s) PROVE Flow'
    <2>1. UNCHANGED toMaster /\ faults' \in Nat /\ faults <= faults'
      BY <1>5, FaultsRise DEF Exit
    <2>2. CASE socket[s] = NoAddr
      BY <1>5, <2>1, <2>2, StillFlow DEF Exit
    <2>3. CASE socket[s] # NoAddr
      <3>1. socket[s] \in Addrs /\ toSlave' = [toSlave EXCEPT ![socket[s]] = <<>>]
        BY <1>5, <2>3 DEF Exit, Upload, TypeOK
      <3> QED
        BY <2>1, <3>1, LossFlow
    <2> QED
      BY <2>2, <2>3
  <1>6. ASSUME NEW a \in Addrs, LoseToMaster(a) PROVE Flow'
    BY <1>6, FaultsRise, LossFlow DEF LoseToMaster
  <1>7. ASSUME NEW a \in Addrs, LoseToSlave(a) PROVE Flow'
    <2>1. PICK n \in DOMAIN toSlave[a] :
            /\ Fault(IF toSlave[a][n] = Done THEN "lost DONE" ELSE "loss")
            /\ toSlave' = [toSlave EXCEPT ![a] = Without(@, n)]
      BY <1>7 DEF LoseToSlave
    <2> QED
      BY <1>7, <2>1, FaultsRise, LossFlow DEF LoseToSlave
  <1>8. ASSUME NEW a \in Addrs, Damage(a) PROVE Flow'
    BY <1>8, DamageFlow
  <1>9. CASE Restart \/ UNCHANGED vars
    BY <1>9, StillFlow, FaultsRise DEF Restart, vars, wires
  <1> QED
    BY <1>1, <1>2, <1>3, <1>4, <1>5, <1>6, <1>7, <1>8, <1>9 DEF Next, SlaveStep

\* Whatever is lost and whoever prods too early, the chunks that are asked for
\* and not received fit into one window, and one more for each fault
\* (TransferState.fetch and its _credit, Wheel.transfer): no sequence of HELLO,
\* FETCH and CHUNK makes credit out of nothing.
THEOREM WindowHolds == Spec => []PipelineBounded
  <1>1. Upload /\ Flow => PipelineBounded
    <2> SUFFICES ASSUME Upload, Flow, NEW a \in Addrs
                 PROVE  UnderWay(toMaster[a]) + UnderWay(toSlave[a]) <= Credit * (1 + faults)
      BY DEF PipelineBounded
    <2>1. /\ UnderWay(toMaster[a]) \in Nat /\ UnderWay(toMaster[a]) <= Weight(toMaster[a])
          /\ UnderWay(toSlave[a]) \in Nat /\ UnderWay(toSlave[a]) <= Weight(toSlave[a])
      <3>1. ASSUME NEW S, NEW q \in Seq(S)
            PROVE  UnderWay(q) \in Nat /\ UnderWay(q) <= Weight(q)
        <4>1. UnderWay(q) = Count(q, Wire)
          BY DEF UnderWay, Count, Places, Wire
        <4>2. Count(q, Wire) \in Nat /\ Count(q, {"HELLO"}) \in Nat
          BY CountIsNat
        <4>3. Credit * Count(q, {"HELLO"}) \in Nat
          BY <4>2, CreditIsNat, Multiples
        <4> QED
          BY <4>1, <4>2, <4>3 DEF Weight
      <3>2. toMaster[a] \in Seq(Uploads) /\ toSlave[a] \in Seq(Requests)
        BY Channels
      <3> QED
        BY <3>1, <3>2
    <2>2. Weight(toMaster[a]) \in Nat /\ Weight(toSlave[a]) \in Nat
      BY Channels, WeightIsNat
    <2>3. Weight(toMaster[a]) + Weight(toSlave[a]) <= Credit * (1 + faults)
      BY DEF Flow
    <2>4. faults \in Nat
      BY FaultsRise
    <2>5. Credit * (1 + faults) \in Nat
      BY <2>4, Widens
    <2> QED
      BY <2>1, <2>2, <2>3, <2>5
  <1>2. Spec => []Flow
    BY UploadInvariant, InitFlow, StepFlow, PTL DEF Spec
  <1> QED
    BY UploadInvariant, <1>1, <1>2, PTL
=============================================================================
