---------------------------------- MODULE Rpc ----------------------------------
(***************************************************************************)
(* The calls of tasks to the database: DbClient sends a request to Seraph, *)
(* which shares the load among several instances of TheOracle.  Requests   *)
(* and replies carry no number; the addresses of client and oracle are all *)
(* that relates them.                                                      *)
(***************************************************************************)
EXTENDS Naturals, Sequences

CONSTANTS
  Clients,
  Oracles,
  Nobody,
  MaxCalls    \* bound: calls of each client

ASSUME RpcAssumption ==
  Nobody \notin Clients /\ Nobody \notin Oracles /\ MaxCalls \in Nat

VARIABLES
  waiting,    \* clients that are in recv_msg
  front,      \* requests at the front queue, each its client
  workers,    \* Seraph.workers, oracles
  job,        \* whose request an oracle was sent
  back,       \* what each oracle sent to the back queue
  inbox,      \* replies on their way to clients
  count, executed, outcome, result    \* as in RpcService

history == <<count, executed, outcome, result>>
vars == <<waiting, front, workers, job, back, inbox, history>>

Statuses == {"OK", "ERROR"}
Replies == [client : Clients, status : Statuses]
Ready == [client |-> Nobody, status |-> "READY"]
Nothing == [client |-> Nobody, status |-> "NONE"]

TypeOK ==
  /\ waiting \subseteq Clients /\ front \subseteq Clients
  /\ workers \in Seq(Oracles)
  /\ job \in [Oracles -> Clients \cup {Nobody}]
  /\ back \in [Oracles -> Replies \cup {Ready, Nothing}]
  /\ inbox \subseteq Replies
  /\ count \in [Clients -> 0..MaxCalls] /\ executed \in [Clients -> Nat]
  /\ outcome \in [Clients -> Statuses] /\ result \in [Clients -> Statuses]

\* Every oracle has sent READY.
Init ==
  /\ waiting = {} /\ front = {} /\ workers = <<>> /\ inbox = {}
  /\ job = [w \in Oracles |-> Nobody]
  /\ back = [w \in Oracles |-> Ready]
  /\ count = [c \in Clients |-> 0] /\ executed = [c \in Clients |-> 0]
  /\ outcome = [c \in Clients |-> "OK"] /\ result = [c \in Clients |-> "OK"]

\* Mutant of Execute: the send does not wait for the reply to the last one.
ExecuteAgain(c) ==
  /\ count[c] < MaxCalls
  /\ waiting' = waiting \cup {c} /\ front' = front \cup {c}
  /\ count' = [count EXCEPT ![c] = @ + 1]
  /\ UNCHANGED <<workers, job, back, inbox, executed, outcome, result>>

\* _execute sends the request...
Execute(c) ==
  /\ c \notin waiting /\ count[c] < MaxCalls
  /\ waiting' = waiting \cup {c} /\ front' = front \cup {c}
  /\ count' = [count EXCEPT ![c] = @ + 1]
  /\ UNCHANGED <<workers, job, back, inbox, executed, outcome, result>>

\* Mutant of Return: the failure of a method is not reported.
ReturnOK(c) ==
  \E r \in inbox :
    /\ r.client = c /\ c \in waiting
    /\ inbox' = inbox \ {r} /\ waiting' = waiting \ {c}
    /\ result' = [result EXCEPT ![c] = "OK"]
    /\ UNCHANGED <<front, workers, job, back, count, executed, outcome>>

\* ... and returns, or raises, what the reply says.
Return(c) ==
  \E r \in inbox :
    /\ r.client = c /\ c \in waiting
    /\ inbox' = inbox \ {r} /\ waiting' = waiting \ {c}
    /\ result' = [result EXCEPT ![c] = r.status]
    /\ UNCHANGED <<front, workers, job, back, count, executed, outcome>>

\* Mutant of HandleFront: the oracle stays in the list.
HandleFrontKeeps(c) ==
  /\ workers # <<>> /\ c \in front
  /\ front' = front \ {c}
  /\ job' = [job EXCEPT ![Head(workers)] = c]
  /\ UNCHANGED <<waiting, workers, back, inbox, history>>

\* A request is left in the queue while all oracles are busy.  (One that was
\* sent to a busy oracle would be lost.)
HandleFront(c) ==
  /\ workers # <<>> /\ c \in front
  /\ front' = front \ {c}
  /\ job' = [job EXCEPT ![Head(workers)] = c]
  /\ workers' = Tail(workers)
  /\ UNCHANGED <<waiting, back, inbox, history>>

\* The method is run; if it raises, whatever it is, the reply is ERROR.
HandleDbRequest(w) ==
  /\ job[w] # Nobody
  /\ \E s \in Statuses :
       /\ back' = [back EXCEPT ![w] = [client |-> job[w], status |-> s]]
       /\ outcome' = [outcome EXCEPT ![job[w]] = s]
  /\ executed' = [executed EXCEPT ![job[w]] = @ + 1]
  /\ job' = [job EXCEPT ![w] = Nobody]
  /\ UNCHANGED <<waiting, front, workers, inbox, count, result>>

\* Mutant of HandleBack: only a READY puts the oracle into the list.
HandleBackOnce(w) ==
  /\ back[w] # Nothing
  /\ back' = [back EXCEPT ![w] = Nothing]
  /\ workers' = IF back[w] = Ready THEN Append(workers, w) ELSE workers
  /\ inbox' = IF back[w] = Ready THEN inbox ELSE inbox \cup {back[w]}
  /\ UNCHANGED <<waiting, front, job, history>>

HandleBack(w) ==
  /\ back[w] # Nothing
  /\ back' = [back EXCEPT ![w] = Nothing]
  /\ workers' = Append(workers, w)
  /\ inbox' = IF back[w] = Ready THEN inbox ELSE inbox \cup {back[w]}
  /\ UNCHANGED <<waiting, front, job, history>>

\* The bound is reached and every task has gone on.
Over == waiting = {} /\ UNCHANGED vars

Next ==
  \/ \E c \in Clients : Execute(c) \/ HandleFront(c) \/ Return(c)
  \/ \E w \in Oracles : HandleDbRequest(w) \/ HandleBack(w)
  \/ Over

Spec == Init /\ [][Next]_vars

\* The front queue takes from its clients in turn; methods end.
Fairness ==
  /\ \A c \in Clients : SF_vars(HandleFront(c)) /\ WF_vars(Return(c))
  /\ \A w \in Oracles : WF_vars(HandleDbRequest(w)) /\ WF_vars(HandleBack(w))

FairSpec == Spec /\ Fairness

-----------------------------------------------------------------------------
\* Clients whose reply is on its way.
Answered == {r.client : r \in inbox} \cup {back[w].client : w \in Oracles}

phase == [c \in Clients |-> IF c \notin waiting THEN "idle"
                            ELSE IF c \in Answered THEN "executed" ELSE "called"]

Service == INSTANCE RpcService

\* Seraph, the oracles and their queues are what DbClient promises: each call
\* runs its method once, and returns the outcome of no other.
ImplementsRpcService == Service!Spec

\* No oracle is given a request while it has another, or a reply on its way;
\* none is lost from the list either.
OraclesAreShared ==
  /\ \A i, j \in 1..Len(workers) : workers[i] = workers[j] => i = j
  /\ \A i \in 1..Len(workers) :
       job[workers[i]] = Nobody /\ back[workers[i]] = Nothing
  /\ \A w \in Oracles : job[w] = Nobody \/ back[w] = Nothing
  /\ \A w \in Oracles : job[w] = Nobody /\ back[w] = Nothing =>
       \E i \in 1..Len(workers) : workers[i] = w

\* A client that waits has one request or one reply on its way, and the reply
\* is what its own method gave: only the addresses make it so.
RepliesMatch ==
  /\ \A c \in front : c \in waiting /\ c \notin Answered /\ \A w \in Oracles : job[w] # c
  /\ \A w \in Oracles : job[w] # Nobody =>
       /\ job[w] \in waiting /\ job[w] \notin Answered
       /\ \A o \in Oracles : job[o] = job[w] => o = w
  /\ \A w \in Oracles : back[w].client # Nobody =>
       /\ back[w].client \in waiting
       /\ back[w].status = outcome[back[w].client]
       /\ \A r \in inbox : r.client # back[w].client
       /\ \A o \in Oracles : back[o].client = back[w].client => o = w
  /\ \A r \in inbox : r.client \in waiting /\ r.status = outcome[r.client]

\* With more clients than oracles, every call returns nevertheless.
EveryCallReturns == \A c \in Clients : c \in waiting ~> c \notin waiting
=============================================================================
