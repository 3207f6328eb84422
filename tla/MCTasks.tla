-------------------------------- MODULE MCTasks --------------------------------
(***************************************************************************)
(* The master's tasks under its commands (TaskControl), and their calls to *)
(* the database (Rpc).  A behaviour is one of either part; the variables   *)
(* of the other keep their initial values.  Four of the thirteen tasks, of *)
(* every kind: those that a deep chain of calls runs through.              *)
(***************************************************************************)
EXTENDS Rpc

CONSTANTS oracle, scribe, secretary, driver, Worlds

VARIABLES part, world, master, stage, isReady, paused, waits, serving, ctrl, died,
          asleep, forced, spent

Tasks == {oracle, scribe, secretary, driver}
Order == <<oracle, scribe, secretary, driver>>
Kind == [t \in Tasks |-> CASE t = oracle -> "nonstop"
                           [] t = scribe -> "pauseable"
                           [] OTHER -> "pausing"]
Calls ==
  {<<driver, secretary>>, <<driver, oracle>>, <<secretary, scribe>>, <<scribe, oracle>>}

CalmWorld == [fills |-> FALSE, slow |-> FALSE, maxSleeps |-> 0, maxFailures |-> 0]
SleepWorld == [CalmWorld EXCEPT !.maxSleeps = 1]
DeathWorld == [CalmWorld EXCEPT !.maxFailures = 1]
SlowWorld == [CalmWorld EXCEPT !.slow = TRUE]
FullWorld == [CalmWorld EXCEPT !.fills = TRUE]

TaskWorlds == {CalmWorld, SleepWorld, DeathWorld, SlowWorld, FullWorld}
PauseWorlds == {[SleepWorld EXCEPT !.fills = TRUE]}

Control == INSTANCE TaskControl WITH
  NoTask <- Nobody, Database <- oracle,
  Outside <- {driver}, Loaders <- {scribe, secretary}, Savers <- {secretary},
  phase <- stage

ASSUME Control!ControlAssumption

controlVars == <<master, stage, isReady, paused, waits, serving, ctrl, died,
                 asleep, forced, spent>>

\* While the calls run nothing is launched; the world is one in which nothing
\* is promised then.
TasksInit ==
  /\ Init /\ Control!Init
  /\ part = "control" \/ (part = "calls" /\ world = SlowWorld)

TasksNext ==
  /\ UNCHANGED part
  /\ \/ part = "calls" /\ Next /\ UNCHANGED <<world, controlVars>>
     \/ part = "control" /\ Control!Next /\ UNCHANGED vars

\* That of the part that runs.
TasksFairness ==
  \/ part = "calls" /\ Fairness
  \/ part = "control" /\ Control!Fairness

TasksSpec == TasksInit /\ [][TasksNext]_<<part, world, vars, controlVars>> /\ TasksFairness

\* The properties of TaskControl.
StartAndStopEnd == Control!StartAndStopEnd
SleepersWake == Control!SleepersWake
DeathIsNoticed == Control!DeathIsNoticed
ControlsAreSafe == Control!ControlsAreSafe
=============================================================================
