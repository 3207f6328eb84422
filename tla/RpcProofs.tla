------------------------------- MODULE RpcProofs -------------------------------
(***************************************************************************)
(* For any number of clients and oracles: replies find the call that they  *)
(* answer, and Seraph with its oracles implements RpcService.              *)
(***************************************************************************)
EXTENDS Rpc, TLAPS

RpcInv == TypeOK /\ OraclesAreShared /\ RepliesMatch

-----------------------------------------------------------------------------
\* The list of oracles after append and pop(0).
LEMMA AppendIsShared ==
  ASSUME NEW S, NEW s \in Seq(S), NEW w \in S
  PROVE  /\ Append(s, w) \in Seq(S)
         /\ Len(Append(s, w)) = Len(s) + 1
         /\ Append(s, w)[Len(s) + 1] = w
         /\ \A i \in 1..Len(s) : Append(s, w)[i] = s[i]
  OBVIOUS

LEMMA TailIsShared ==
  ASSUME NEW S, NEW s \in Seq(S), s # <<>>
  PROVE  /\ Tail(s) \in Seq(S) /\ Head(s) \in S /\ Head(s) = s[1] /\ Len(s) \in Nat \ {0}
         /\ Len(Tail(s)) = Len(s) - 1
         /\ \A i \in 1..Len(Tail(s)) : Tail(s)[i] = s[i + 1]
  OBVIOUS

LEMMA InitInv == Init => RpcInv
  <1> SUFFICES ASSUME Init PROVE RpcInv
    OBVIOUS
  <1>1. TypeOK
    BY RpcAssumption DEF Init, TypeOK, Replies, Statuses
  <1>2. OraclesAreShared
    BY DEF Init, OraclesAreShared, Ready, Nothing
  <1>3. RepliesMatch
    BY DEF Init, RepliesMatch, Ready
  <1> QED
    BY <1>1, <1>2, <1>3 DEF RpcInv

-----------------------------------------------------------------------------
\* _execute.
LEMMA ExecuteInv ==
  ASSUME RpcInv, NEW c \in Clients, Execute(c)
  PROVE  RpcInv'
  <1> USE RpcAssumption DEF RpcInv, Execute
  <1>1. TypeOK'
    BY DEF TypeOK
  <1>2. OraclesAreShared'
    BY DEF OraclesAreShared
  <1>3. \A d \in Clients : d \in Answered' <=> d \in Answered
    BY DEF Answered
  <1>4. RepliesMatch'
    BY <1>3 DEF RepliesMatch, TypeOK, Answered
  <1> QED
    BY <1>1, <1>2, <1>4

\* The return of _execute.
LEMMA ReturnInv ==
  ASSUME RpcInv, NEW c \in Clients, Return(c)
  PROVE  RpcInv'
  <1> USE RpcAssumption DEF RpcInv
  <1>1. PICK r \in inbox :
          /\ r.client = c /\ c \in waiting
          /\ inbox' = inbox \ {r} /\ waiting' = waiting \ {c}
          /\ result' = [result EXCEPT ![c] = r.status]
          /\ UNCHANGED <<front, workers, job, back, count, executed, outcome>>
    BY DEF Return
  <1>2. TypeOK'
    BY <1>1 DEF TypeOK, Replies
  <1>3. OraclesAreShared'
    BY <1>1 DEF OraclesAreShared
  <1>4. \A d \in Clients : d \in Answered' => d \in Answered
    BY <1>1 DEF Answered
  <1>5. c \in Answered
    BY <1>1 DEF Answered
  <1>6. \A q \in inbox' : q.client # c
    <2>1. \A q \in Replies : q = [client |-> q.client, status |-> q.status]
      BY DEF Replies
    <2>2. ASSUME NEW q \in inbox, q.client = c PROVE q = r
      BY <2>1, <2>2, <1>1 DEF RepliesMatch, TypeOK
    <2> QED
      BY <2>2, <1>1
  <1>7. RepliesMatch'
    BY <1>1, <1>4, <1>5, <1>6 DEF RepliesMatch, TypeOK, Replies
  <1> QED
    BY <1>2, <1>3, <1>7

-----------------------------------------------------------------------------
LEMMA HandleFrontInv ==
  ASSUME RpcInv, NEW c \in Clients, HandleFront(c)
  PROVE  RpcInv'
  <1> USE RpcAssumption DEF RpcInv, HandleFront, history
  <1> DEFINE w == Head(workers)
  <1>1. /\ workers \in Seq(Oracles) /\ workers # <<>> /\ w \in Oracles /\ w = workers[1]
        /\ Len(workers) \in Nat \ {0} /\ Len(workers') = Len(workers) - 1
        /\ workers' \in Seq(Oracles)
        /\ \A i \in 1..Len(workers') : workers'[i] = workers[i + 1]
    BY TailIsShared DEF TypeOK
  <1>2. job[w] = Nobody /\ back[w] = Nothing
    BY <1>1 DEF OraclesAreShared
  <1>3. job' = [job EXCEPT ![w] = c]
    OBVIOUS
  <1>4. TypeOK'
    BY <1>1, <1>3 DEF TypeOK
  <1>5. OraclesAreShared'
    <2> DEFINE n == Len(workers)
    <2>1. n \in Nat \ {0} /\ Len(workers') = n - 1
      BY <1>1
    <2>2. \A i \in 1..(n - 1) : workers'[i] = workers[i + 1] /\ i + 1 \in 1..n
      BY <1>1, <2>1
    <2>3. \A i, j \in 1..n : workers[i] = workers[j] => i = j
      BY DEF OraclesAreShared
    <2>4. \A i, j \in 1..(n - 1) : workers'[i] = workers'[j] => i = j
      BY <2>1, <2>2, <2>3
    <2>5. \A i \in 1..(n - 1) : workers'[i] # w
      BY <1>1, <2>1, <2>2, <2>3
    <2>6. \A i \in 1..(n - 1) : job'[workers'[i]] = Nobody /\ back'[workers'[i]] = Nothing
      <3> TAKE i \in 1..(n - 1)
      <3>1. workers[i + 1] \in Oracles /\ workers'[i] = workers[i + 1]
        BY <1>1, <2>1, <2>2
      <3>2. job[workers[i + 1]] = Nobody /\ back[workers[i + 1]] = Nothing
        BY <2>2 DEF OraclesAreShared
      <3> QED
        BY <3>1, <3>2, <2>5, <1>3 DEF TypeOK
    <2>7. \A o \in Oracles : job'[o] = Nobody \/ back'[o] = Nothing
      BY <1>2, <1>3 DEF OraclesAreShared, TypeOK
    <2>8. ASSUME NEW o \in Oracles, job'[o] = Nobody, back'[o] = Nothing
          PROVE  \E i \in 1..(n - 1) : workers'[i] = o
      <3>1. o # w /\ job[o] = Nobody /\ back[o] = Nothing
        BY <2>8, <1>1, <1>3 DEF TypeOK
      <3>2. PICK i \in 1..n : workers[i] = o
        BY <3>1 DEF OraclesAreShared
      <3>3. i # 1 /\ i - 1 \in 1..(n - 1)
        BY <3>1, <3>2, <1>1, <2>1
      <3>4. workers'[i - 1] = o
        BY <3>2, <3>3, <2>1, <2>2
      <3> QED
        BY <3>3, <3>4
    <2> QED
      BY <2>1, <2>4, <2>6, <2>7, <2>8 DEF OraclesAreShared
  <1>6. \A d \in Clients : d \in Answered' <=> d \in Answered
    BY DEF Answered
  <1>7. RepliesMatch'
    BY <1>1, <1>2, <1>3, <1>6 DEF RepliesMatch, TypeOK
  <1> QED
    BY <1>4, <1>5, <1>7

LEMMA HandleDbRequestInv ==
  ASSUME RpcInv, NEW w \in Oracles, HandleDbRequest(w)
  PROVE  RpcInv'
  <1> USE RpcAssumption DEF RpcInv
  <1> DEFINE c == job[w]
  <1>1. PICK s \in Statuses :
          /\ back' = [back EXCEPT ![w] = [client |-> c, status |-> s]]
          /\ outcome' = [outcome EXCEPT ![c] = s]
    BY DEF HandleDbRequest
  <1>2. /\ c # Nobody /\ job' = [job EXCEPT ![w] = Nobody]
        /\ executed' = [executed EXCEPT ![c] = @ + 1]
        /\ UNCHANGED <<waiting, front, workers, inbox, count, result>>
    BY DEF HandleDbRequest
  <1>3. c \in Clients /\ c \in waiting /\ c \notin Answered /\ back[w] = Nothing
    BY <1>2 DEF TypeOK, RepliesMatch, OraclesAreShared
  <1>4. TypeOK'
    BY <1>1, <1>2, <1>3 DEF TypeOK, Replies
  <1>5. OraclesAreShared'
    BY <1>1, <1>2, <1>3 DEF OraclesAreShared, TypeOK, Nothing
  <1>6. \A d \in Clients : d # c => (d \in Answered' <=> d \in Answered)
    BY <1>1, <1>2, <1>3 DEF Answered, TypeOK, Nothing
  <1>7. \A o \in Oracles : o # w => back'[o] = back[o] /\ back[o].client # c
    BY <1>1, <1>3 DEF TypeOK, Answered
  <1>8. \A r \in inbox : r.client # c
    BY <1>3 DEF Answered
  <1>9. back'[w].client = c /\ back'[w].status = s /\ outcome'[c] = s /\ job'[w] = Nobody
    BY <1>1, <1>2, <1>3 DEF TypeOK
  <1>10. \A o \in Oracles : o # w => job'[o] = job[o] /\ job[o] # c
    BY <1>2, <1>3 DEF TypeOK, RepliesMatch
  <1>11. \A d \in Clients : d # c => outcome'[d] = outcome[d]
    BY <1>1 DEF TypeOK
  <1>12. \A o \in Oracles : back[o].client \in Clients \cup {Nobody} /\ job[o] \in Clients \cup {Nobody}
    BY DEF TypeOK, Replies, Ready, Nothing
  <1>13. RepliesMatch'
    <2>1. \A d \in front' : d \in waiting' /\ d \notin Answered' /\ \A o \in Oracles : job'[o] # d
      BY <1>2, <1>3, <1>6, <1>9, <1>10 DEF RepliesMatch, TypeOK
    <2>2. \A o \in Oracles : job'[o] # Nobody =>
            /\ job'[o] \in waiting' /\ job'[o] \notin Answered'
            /\ \A u \in Oracles : job'[u] = job'[o] => u = o
      BY <1>2, <1>6, <1>9, <1>10, <1>12 DEF RepliesMatch
    <2>3. \A o \in Oracles : back'[o].client # Nobody =>
            /\ back'[o].client \in waiting'
            /\ back'[o].status = outcome'[back'[o].client]
            /\ \A r \in inbox' : r.client # back'[o].client
            /\ \A u \in Oracles : back'[u].client = back'[o].client => u = o
      BY <1>2, <1>3, <1>7, <1>8, <1>9, <1>11, <1>12 DEF RepliesMatch
    <2>4. \A r \in inbox' : r.client \in waiting' /\ r.status = outcome'[r.client]
      BY <1>2, <1>8, <1>11 DEF RepliesMatch, TypeOK, Replies
    <2> QED
      BY <2>1, <2>2, <2>3, <2>4 DEF RepliesMatch
  <1> QED
    BY <1>4, <1>5, <1>13

\* A reply, or the READY, puts the oracle at the end of the list.
LEMMA HandleBackInv ==
  ASSUME RpcInv, NEW w \in Oracles, HandleBack(w)
  PROVE  RpcInv'
  <1> USE RpcAssumption DEF RpcInv
  <1>1. /\ back[w] # Nothing /\ back' = [back EXCEPT ![w] = Nothing]
        /\ workers' = Append(workers, w)
        /\ inbox' = IF back[w] = Ready THEN inbox ELSE inbox \cup {back[w]}
        /\ UNCHANGED <<waiting, front, job, count, executed, outcome, result>>
    BY DEF HandleBack, history
  <1>2. /\ workers' \in Seq(Oracles) /\ Len(workers') = Len(workers) + 1
        /\ Len(workers) \in Nat /\ workers'[Len(workers) + 1] = w
        /\ \A i \in 1..Len(workers) : workers'[i] = workers[i] /\ workers[i] \in Oracles
    BY <1>1, AppendIsShared DEF TypeOK
  <1>3. TypeOK'
    BY <1>1, <1>2 DEF TypeOK
  <1>4. OraclesAreShared'
    <2> DEFINE n == Len(workers)
    <2>1. job[w] = Nobody /\ back'[w] = Nothing
      BY <1>1 DEF OraclesAreShared, TypeOK
    <2>2. \A i \in 1..n : workers[i] # w
      BY <1>1 DEF OraclesAreShared
    <2>3. n \in Nat /\ Len(workers') = n + 1 /\ workers'[n + 1] = w
          /\ \A i \in 1..n : workers'[i] = workers[i] /\ workers[i] \in Oracles
      BY <1>2
    <2>4. \A i \in 1..(n + 1) : i \in 1..n \/ i = n + 1
      BY <2>3
    <2>5. \A i, j \in 1..n : workers[i] = workers[j] => i = j
      BY DEF OraclesAreShared
    <2>6. \A i, j \in 1..(n + 1) : workers'[i] = workers'[j] => i = j
      BY <2>2, <2>3, <2>4, <2>5
    <2>7. \A i \in 1..n : job[workers[i]] = Nobody /\ back[workers[i]] = Nothing
      BY DEF OraclesAreShared
    <2>8. \A i \in 1..n : job'[workers'[i]] = Nobody /\ back'[workers'[i]] = Nothing
      BY <1>1, <2>2, <2>3, <2>7 DEF TypeOK
    <2>9. \A i \in 1..(n + 1) : job'[workers'[i]] = Nobody /\ back'[workers'[i]] = Nothing
      BY <1>1, <2>1, <2>3, <2>4, <2>8
    <2>10. \A o \in Oracles : job'[o] = Nobody \/ back'[o] = Nothing
      BY <1>1, <2>1 DEF OraclesAreShared, TypeOK
    <2>11. ASSUME NEW o \in Oracles, job'[o] = Nobody, back'[o] = Nothing
           PROVE  \E i \in 1..(n + 1) : workers'[i] = o
      <3>1. CASE o = w
        BY <3>1, <2>3
      <3>2. CASE o # w
        <4>1. job[o] = Nobody /\ back[o] = Nothing
          BY <3>2, <2>11, <1>1 DEF TypeOK
        <4>2. PICK i \in 1..n : workers[i] = o
          BY <4>1 DEF OraclesAreShared
        <4>3. i \in 1..(n + 1) /\ workers'[i] = o
          BY <4>2, <2>3
        <4> QED
          BY <4>3
      <3> QED
        BY <3>1, <3>2
    <2> QED
      BY <2>3, <2>6, <2>9, <2>10, <2>11 DEF OraclesAreShared
  <1>5. \A d \in Clients : d \in Answered' <=> d \in Answered
    BY <1>1 DEF Answered, TypeOK, Ready, Nothing, Replies
  <1>6. RepliesMatch'
    <2>1. \A d \in front' : d \in waiting' /\ d \notin Answered' /\ \A o \in Oracles : job'[o] # d
      BY <1>1, <1>5 DEF RepliesMatch, TypeOK
    <2>2. \A o \in Oracles : job'[o] # Nobody =>
            /\ job'[o] \in waiting' /\ job'[o] \notin Answered'
            /\ \A u \in Oracles : job'[u] = job'[o] => u = o
      BY <1>1, <1>5 DEF RepliesMatch, TypeOK
    <2>3. back'[w].client = Nobody /\ \A o \in Oracles : o # w => back'[o] = back[o]
      BY <1>1 DEF TypeOK, Nothing
    <2>4. back[w] = Ready \/ back[w].client # Nobody
      BY <1>1 DEF TypeOK, Replies
    <2>5. \A o \in Oracles : back'[o].client # Nobody =>
            /\ back'[o].client \in waiting'
            /\ back'[o].status = outcome'[back'[o].client]
            /\ \A r \in inbox' : r.client # back'[o].client
            /\ \A u \in Oracles : back'[u].client = back'[o].client => u = o
      BY <1>1, <2>3, <2>4 DEF RepliesMatch
    <2>6. \A r \in inbox' : r.client \in waiting' /\ r.status = outcome'[r.client]
      BY <1>1, <2>4 DEF RepliesMatch
    <2> QED
      BY <2>1, <2>2, <2>5, <2>6 DEF RepliesMatch
  <1> QED
    BY <1>3, <1>4, <1>6

-----------------------------------------------------------------------------
LEMMA NextInv == RpcInv /\ [Next]_vars => RpcInv'
  <1> SUFFICES ASSUME RpcInv, [Next]_vars PROVE RpcInv'
    OBVIOUS
  <1>1. CASE UNCHANGED vars
    BY <1>1 DEF RpcInv, TypeOK, OraclesAreShared, RepliesMatch, Answered, vars, history
  <1>2. ASSUME NEW c \in Clients, Execute(c) PROVE RpcInv'
    BY <1>2, ExecuteInv
  <1>3. ASSUME NEW c \in Clients, HandleFront(c) PROVE RpcInv'
    BY <1>3, HandleFrontInv
  <1>4. ASSUME NEW c \in Clients, Return(c) PROVE RpcInv'
    BY <1>4, ReturnInv
  <1>5. ASSUME NEW w \in Oracles, HandleDbRequest(w) PROVE RpcInv'
    BY <1>5, HandleDbRequestInv
  <1>6. ASSUME NEW w \in Oracles, HandleBack(w) PROVE RpcInv'
    BY <1>6, HandleBackInv
  <1> QED
    BY <1>1, <1>2, <1>3, <1>4, <1>5, <1>6 DEF Next, Over

LEMMA Invariance == Spec => []RpcInv
  BY InitInv, NextInv, PTL DEF Spec

\* The list of workers, and what each of them has in hand, always agree: no
\* request is ever sent to an oracle that is busy.
THEOREM OraclesShared == Spec => []OraclesAreShared
  BY Invariance, PTL DEF RpcInv

\* Every reply on its way is that of the call which its client is in.
THEOREM RepliesMatchCalls == Spec => []RepliesMatch
  BY Invariance, PTL DEF RpcInv

-----------------------------------------------------------------------------
LEMMA InitMaps == Init => Service!Init
  BY DEF Init, Service!Init, phase

LEMMA StepMaps == RpcInv /\ RpcInv' /\ [Next]_vars => [Service!Next]_Service!vars
  <1> SUFFICES ASSUME RpcInv, RpcInv', [Next]_vars
               PROVE  [Service!Next]_Service!vars
    OBVIOUS
  <1> USE RpcAssumption DEF RpcInv
  <1>1. CASE UNCHANGED vars
    BY <1>1 DEF vars, history, Service!vars, phase, Answered
  <1>2. ASSUME NEW c \in Clients, Execute(c) PROVE Service!Next
    <2>1. c \notin Answered
      BY <1>2 DEF Execute, Answered, RepliesMatch, TypeOK
    <2>2. \A d \in Clients : d \in Answered' <=> d \in Answered
      BY <1>2 DEF Execute, Answered
    <2>3. phase[c] = "idle" /\ phase' = [phase EXCEPT ![c] = "called"]
      BY <1>2, <2>1, <2>2 DEF Execute, phase
    <2> QED
      BY <1>2, <2>3 DEF Execute, Service!Next, Service!Call
  <1>3. ASSUME NEW c \in Clients, HandleFront(c) PROVE UNCHANGED Service!vars
    <2>1. \A d \in Clients : d \in Answered' <=> d \in Answered
      BY <1>3 DEF HandleFront, Answered
    <2> QED
      BY <1>3, <2>1 DEF HandleFront, history, Service!vars, phase
  <1>4. ASSUME NEW c \in Clients, Return(c) PROVE Service!Next
    <2>1. PICK r \in inbox :
            /\ r.client = c /\ c \in waiting
            /\ inbox' = inbox \ {r} /\ waiting' = waiting \ {c}
            /\ result' = [result EXCEPT ![c] = r.status]
            /\ UNCHANGED <<front, workers, job, back, count, executed, outcome>>
      BY <1>4 DEF Return
    <2>2. c \in Answered /\ r.status = outcome[c]
      BY <2>1 DEF Answered, RepliesMatch
    <2>3. \A d \in Clients : d # c => (d \in Answered' <=> d \in Answered)
      BY <2>1 DEF Answered
    <2>4. phase[c] = "executed" /\ phase' = [phase EXCEPT ![c] = "idle"]
      BY <2>1, <2>2, <2>3 DEF phase
    <2> QED
      BY <2>1, <2>2, <2>4 DEF Service!Next, Service!Return
  <1>5. ASSUME NEW w \in Oracles, HandleDbRequest(w) PROVE Service!Next
    <2> DEFINE c == job[w]
    <2>1. PICK s \in Statuses :
            /\ back' = [back EXCEPT ![w] = [client |-> c, status |-> s]]
            /\ outcome' = [outcome EXCEPT ![c] = s]
      BY <1>5 DEF HandleDbRequest
    <2>2. /\ c # Nobody /\ executed' = [executed EXCEPT ![c] = @ + 1]
          /\ UNCHANGED <<waiting, front, workers, inbox, count, result>>
      BY <1>5 DEF HandleDbRequest
    <2>3. c \in Clients /\ c \in waiting /\ c \notin Answered /\ back[w] = Nothing
      BY <2>2 DEF TypeOK, RepliesMatch, OraclesAreShared
    <2>4. \A d \in Clients : d # c => (d \in Answered' <=> d \in Answered)
      BY <2>1, <2>2, <2>3 DEF Answered, TypeOK, Nothing
    <2>5. c \in Answered'
      BY <2>1 DEF Answered, TypeOK
    <2>6. phase[c] = "called" /\ phase' = [phase EXCEPT ![c] = "executed"]
      BY <2>2, <2>3, <2>4, <2>5 DEF phase
    <2>7. Service!Execute(c)
      BY <2>1, <2>2, <2>6 DEF Service!Execute, Service!Statuses, Statuses
    <2> QED
      BY <2>3, <2>7 DEF Service!Next
  <1>6. ASSUME NEW w \in Oracles, HandleBack(w) PROVE UNCHANGED Service!vars
    <2>1. \A d \in Clients : d \in Answered' <=> d \in Answered
      BY <1>6 DEF HandleBack, Answered, TypeOK, Ready, Nothing, Replies
    <2> QED
      BY <1>6, <2>1 DEF HandleBack, history, Service!vars, phase
  <1> QED
    BY <1>1, <1>2, <1>3, <1>4, <1>5, <1>6 DEF Next, Over

\* Seraph, TheOracle and DbClient give what RpcService promises: every call
\* runs its method once, and returns the outcome of that.
THEOREM ImplementsService == Spec => ImplementsRpcService
  BY Invariance, InitMaps, StepMaps, PTL DEF Spec, Service!Spec, ImplementsRpcService
=============================================================================
