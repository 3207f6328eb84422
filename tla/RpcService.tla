------------------------------ MODULE RpcService ------------------------------
(***************************************************************************)
(* What DbClient promises: a call runs one method of Database, once, and   *)
(* returns what came of it.                                                *)
(***************************************************************************)
EXTENDS Naturals

CONSTANTS
  Clients,
  MaxCalls    \* bound: calls of each client

VARIABLES
  count,      \* calls that each client has made
  executed,   \* methods that were run for it
  phase,      \* of its current call
  outcome,    \* of the last method that was run for it
  result      \* what its last call returned

vars == <<count, executed, phase, outcome, result>>

Statuses == {"OK", "ERROR"}

Init ==
  /\ count = [c \in Clients |-> 0]
  /\ executed = [c \in Clients |-> 0]
  /\ phase = [c \in Clients |-> "idle"]
  /\ outcome = [c \in Clients |-> "OK"]
  /\ result = [c \in Clients |-> "OK"]

Call(c) ==
  /\ phase[c] = "idle" /\ count[c] < MaxCalls
  /\ count' = [count EXCEPT ![c] = @ + 1]
  /\ phase' = [phase EXCEPT ![c] = "called"]
  /\ UNCHANGED <<executed, outcome, result>>

Execute(c) ==
  /\ phase[c] = "called"
  /\ executed' = [executed EXCEPT ![c] = @ + 1]
  /\ phase' = [phase EXCEPT ![c] = "executed"]
  /\ \E s \in Statuses : outcome' = [outcome EXCEPT ![c] = s]
  /\ UNCHANGED <<count, result>>

Return(c) ==
  /\ phase[c] = "executed"
  /\ phase' = [phase EXCEPT ![c] = "idle"]
  /\ result' = [result EXCEPT ![c] = outcome[c]]
  /\ UNCHANGED <<count, executed, outcome>>

Next == \E c \in Clients : Call(c) \/ Execute(c) \/ Return(c)

Spec == Init /\ [][Next]_vars
=============================================================================
