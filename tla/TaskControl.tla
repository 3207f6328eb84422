------------------------------ MODULE TaskControl ------------------------------
(***************************************************************************)
(* How the master starts, pauses, resumes and stops its tasks, which wait  *)
(* for one another's answers: a task that waits does not read its control  *)
(* queue.  What the tasks do is reduced to the calls they make.            *)
(***************************************************************************)
EXTENDS Integers, Sequences, FiniteSets

CONSTANTS
  Tasks,        \* the threads
  NoTask,
  Kind,         \* of each task: "nonstop", "pausing" or "pauseable"
  Order,        \* the order in which the master starts them
  Calls,        \* pairs of a task and one whose answer it waits for
  Outside,      \* tasks that are also at work for slaves, paused or not
  Loaders,      \* tasks that call the database before they are ready
  Savers,       \* tasks that call it when they close
  Database,     \* the task that answers these calls
  Worlds        \* what may happen in a behaviour, see World

\* fills: the disk may fill up, slow: a task may take more than 60 s to get
\* ready; bounds on the SLEEP messages of the operator and on exceptions that
\* no task expects.
World == [fills : BOOLEAN, slow : BOOLEAN, maxSleeps : Nat, maxFailures : Nat]

\* What the constants are; the modules for TLC assume it.
ControlAssumption ==
  /\ NoTask \notin Tasks /\ Database \in Tasks
  /\ Kind \in [Tasks -> {"nonstop", "pausing", "pauseable"}]
  /\ Len(Order) = Cardinality(Tasks) /\ {Order[i] : i \in DOMAIN Order} = Tasks
  /\ Calls \subseteq Tasks \X Tasks
  /\ Outside \subseteq Tasks /\ Loaders \subseteq Tasks /\ Savers \subseteq Tasks
  /\ Worlds \subseteq World

VARIABLES
  world,     \* the one of this behaviour
  master,    \* stage: what __call__ is doing, at: with which task of Order
  phase,     \* of each task
  isReady,   \* tasks whose "ready" event is set
  paused,    \* the flag of PausingTask
  waits,     \* whose answer each task is waiting for
  serving,   \* whose request each task is working on
  ctrl,      \* the control queue of each task
  died,      \* tasks that an exception has ended: each sent QUIT to the master
  asleep,    \* the last command to all tasks was SLEEP
  forced,    \* fs_force_sleep
  spent      \* SLEEP messages and failures so far

taskVars == <<phase, isReady, paused, waits, serving, ctrl, died>>
vars == <<master, taskVars, asleep, forced, spent>>

Init ==
  /\ world \in Worlds
  /\ master = [stage |-> "launch", at |-> 1]
  /\ phase = [t \in Tasks |-> "new"]
  /\ isReady = {} /\ paused = {} /\ died = {}
  /\ waits = [t \in Tasks |-> NoTask]
  /\ serving = [t \in Tasks |-> NoTask]
  /\ ctrl = [t \in Tasks |-> <<>>]
  /\ asleep = FALSE /\ forced = FALSE
  /\ spent = [sleeps |-> 0, failures |-> 0]

Set(f, t, x) == [f EXCEPT ![t] = x]
Alone(t) == waits[t] = NoTask
AtPoll(t) == phase[t] = "ready" /\ Alone(t) /\ serving[t] = NoTask
Current == Order[master.at]
At(stage, i) == master' = [stage |-> stage, at |-> i]
ToAll(msg) ==
  ctrl' = [t \in Tasks |-> IF phase[t] = "stopped" THEN ctrl[t] ELSE Append(ctrl[t], msg)]

-----------------------------------------------------------------------------
\* Calls between tasks.  In once and in close a task only calls the database.
Call(t, s) ==
  /\ Alone(t) /\ waits' = Set(waits, t, s)
  /\ \/ /\ phase[t] = "ready" /\ <<t, s>> \in Calls
        /\ t \in paused => t \in Outside \/ serving[t] # NoTask
     \/ phase[t] = "starting" /\ t \in Loaders /\ s = Database
     \/ phase[t] = "closing" /\ s = Database
  /\ UNCHANGED <<master, phase, isReady, paused, serving, ctrl, died, asleep, forced, spent>>

Take(s, t) ==
  /\ AtPoll(s)
  /\ waits[t] = s /\ \A o \in Tasks : serving[o] # t
  /\ serving' = Set(serving, s, t)
  /\ UNCHANGED <<master, phase, isReady, paused, waits, ctrl, died, asleep, forced, spent>>

\* The answer also ends once, or close.
Reply(s) ==
  /\ phase[s] = "ready" /\ Alone(s) /\ serving[s] # NoTask
  /\ LET t == serving[s] IN
     /\ waits' = Set(waits, t, NoTask)
     /\ phase' = Set(phase, t, CASE phase[t] = "starting" -> "ready"
                                 [] phase[t] = "closing" -> "stopped"
                                 [] OTHER -> phase[t])
     /\ isReady' = IF phase[t] = "starting" THEN isReady \cup {t} ELSE isReady
  /\ serving' = Set(serving, s, NoTask)
  /\ UNCHANGED <<master, paused, ctrl, died, asleep, forced, spent>>

\* once of a task that needs no database.
Once(t) ==
  /\ phase[t] = "starting" /\ t \notin Loaders
  /\ phase' = Set(phase, t, "ready")
  /\ isReady' = isReady \cup {t}
  /\ UNCHANGED <<master, paused, waits, serving, ctrl, died, asleep, forced, spent>>

-----------------------------------------------------------------------------
Close(t) == phase' = Set(phase, t, IF t \in Savers THEN "closing" ELSE "stopped")

\* Mutant of HandleControl: RESUME leaves the flag of a PausingTask set.
HandleControlForgets(t) ==
  /\ ctrl[t] # <<>> /\ (AtPoll(t) \/ phase[t] = "paused")
  /\ LET msg == Head(ctrl[t]) IN
     /\ IF msg = "QUIT" THEN Close(t)
        ELSE phase' = Set(phase, t, IF msg = "PAUSE" /\ Kind[t] = "pauseable"
                                    THEN "paused" ELSE "ready")
     /\ paused' = IF Kind[t] = "pausing" /\ msg = "PAUSE" THEN paused \cup {t} ELSE paused
  /\ ctrl' = Set(ctrl, t, Tail(ctrl[t]))
  /\ UNCHANGED <<master, isReady, waits, serving, died, asleep, forced, spent>>

\* A task looks at its control queue between two handlers; a PauseableTask
\* that is paused looks at nothing else.  There, a second PAUSE is an
\* exception that no one catches.
HandleControl(t) ==
  /\ ctrl[t] # <<>> /\ (AtPoll(t) \/ phase[t] = "paused")
  /\ LET msg == Head(ctrl[t]) IN
     /\ died' = IF phase[t] = "paused" /\ msg = "PAUSE" THEN died \cup {t} ELSE died
     /\ IF msg = "QUIT" \/ died' # died THEN Close(t)
        ELSE phase' = Set(phase, t, IF msg = "PAUSE" /\ Kind[t] = "pauseable"
                                    THEN "paused" ELSE "ready")
     /\ paused' = IF Kind[t] # "pausing" THEN paused
                  ELSE IF msg = "PAUSE" THEN paused \cup {t} ELSE paused \ {t}
  /\ ctrl' = Set(ctrl, t, Tail(ctrl[t]))
  /\ UNCHANGED <<master, isReady, waits, serving, asleep, forced, spent>>

\* Mutant of Fail: the master is not told.
FailQuietly(t) ==
  /\ phase[t] \in {"starting", "ready"} /\ Alone(t)
  /\ spent.failures < world.maxFailures
  /\ spent' = [spent EXCEPT !.failures = @ + 1]
  /\ Close(t)
  /\ UNCHANGED <<master, isReady, paused, waits, serving, ctrl, died, asleep, forced>>

\* An exception in a handler or in once: the task sends QUIT to the master
\* and closes; whoever was waiting for it goes on waiting.
Fail(t) ==
  /\ phase[t] \in {"starting", "ready"} /\ Alone(t)
  /\ spent.failures < world.maxFailures
  /\ spent' = [spent EXCEPT !.failures = @ + 1]
  /\ died' = died \cup {t}
  /\ Close(t)
  /\ UNCHANGED <<master, isReady, paused, waits, serving, ctrl, asleep, forced>>

-----------------------------------------------------------------------------
\* The master starts the tasks one after the other.
Launch ==
  /\ master.stage = "launch"
  /\ phase' = Set(phase, Current, "starting")
  /\ At("await", master.at)
  /\ UNCHANGED <<isReady, paused, waits, serving, ctrl, died, asleep, forced, spent>>

\* Tasks that have ended or are about to.
Gone == {t \in Tasks : phase[t] \in {"closing", "stopped"}}

\* It waits for each, but not for ever; then all must be ready.
Ready ==
  /\ master.stage = "await"
  /\ Current \in isReady \/ world.slow \/ Gone # {}
  /\ IF master.at < Len(Order) THEN At("launch", master.at + 1)
     ELSE At(IF isReady = Tasks THEN "running" ELSE "broken", Len(Order))
  /\ UNCHANGED <<taskVars, asleep, forced, spent>>

\* SLEEP and WAKE for all.  The operator sends them in turn.
DoSleep ==
  /\ master.stage = "running" /\ ~asleep
  /\ spent.sleeps < world.maxSleeps
  /\ spent' = [spent EXCEPT !.sleeps = @ + 1]
  /\ ToAll("PAUSE") /\ asleep' = TRUE
  /\ UNCHANGED <<master, phase, isReady, paused, waits, serving, died, forced>>

DoWake ==
  /\ master.stage = "running" /\ asleep
  /\ ToAll("RESUME") /\ asleep' = FALSE
  /\ UNCHANGED <<master, phase, isReady, paused, waits, serving, died, forced, spent>>

\* There is no space left: the main loop itself puts all tasks to sleep.
DiskFull ==
  /\ world.fills /\ master.stage = "running" /\ ~forced
  /\ ToAll("PAUSE") /\ asleep' = TRUE /\ forced' = TRUE
  /\ UNCHANGED <<master, phase, isReady, paused, waits, serving, died, spent>>

\* QUIT of a task that has died, of the operator, or SIGTERM.
DoQuit ==
  /\ master.stage = "running"
  /\ At("quit", Len(Order))
  /\ UNCHANGED <<taskVars, asleep, forced, spent>>

\* Mutant of QuitTask: the tasks are stopped in the order they were started.
QuitFirst ==
  /\ master.stage = "quit"
  /\ ctrl' = Set(ctrl, Order[Len(Order) + 1 - master.at],
                 Append(ctrl[Order[Len(Order) + 1 - master.at]], "QUIT"))
  /\ At("join", master.at)
  /\ UNCHANGED <<phase, isReady, paused, waits, serving, died, asleep, forced, spent>>

\* The tasks are stopped in turn, the last one first.
QuitTask ==
  /\ master.stage = "quit"
  /\ ctrl' = Set(ctrl, Current, Append(ctrl[Current], "QUIT"))
  /\ At("join", master.at)
  /\ UNCHANGED <<phase, isReady, paused, waits, serving, died, asleep, forced, spent>>

Join ==
  /\ master.stage = "join"
  /\ phase[Current] = "stopped"
  /\ IF master.at = 1 THEN At("done", 0) ELSE At("quit", master.at - 1)
  /\ UNCHANGED <<taskVars, asleep, forced, spent>>

\* The master may wait for ever for a task to start or to end.
Over == master.stage \in {"await", "join", "done", "broken"} /\ UNCHANGED vars

Step ==
  \/ \E t, s \in Tasks : Call(t, s) \/ Take(s, t)
  \/ \E t \in Tasks : Reply(t) \/ Once(t) \/ HandleControl(t) \/ Fail(t)
  \/ Launch \/ Ready \/ DoSleep \/ DoWake \/ DiskFull \/ DoQuit \/ QuitTask \/ Join
  \/ Over

Next == Step /\ UNCHANGED world

Spec == Init /\ [][Next]_<<vars, world>>

\* What a call of t waits for.
Answered(t) == \E s \in Tasks : Take(s, t) \/ (serving[s] = t /\ Reply(s))

\* once and close, and the master's own steps.
StartsOrEnds == \E t \in Tasks : Once(t) \/ (phase[t] # "ready" /\ Call(t, Database))
MasterStep == Launch \/ Ready \/ QuitTask \/ Join

\* A call that was begun is answered: a task polls all its queues in turn and
\* a REP socket its clients, and no handler calls for ever.  The master goes
\* on, and so do once and close; a task that died makes the master quit.
Fairness ==
  /\ \A t \in Tasks : SF_vars(Answered(t)) /\ SF_vars(HandleControl(t))
  /\ WF_vars(StartsOrEnds)
  /\ WF_vars(MasterStep)
  /\ WF_vars(died # {} /\ DoQuit)

FairSpec == Spec /\ Fairness

-----------------------------------------------------------------------------
\* Nobody sleeps or fails.
Calm == world.maxSleeps = 0 /\ world.maxFailures = 0 /\ ~world.fills /\ ~world.slow

\* When the operator wakes the master, all tasks get back to work, whatever
\* they were waiting for when they were paused.
SleepersWake ==
  [](~asleep /\ master.stage = "running" =>
       <>(asleep \/ master.stage # "running"
          \/ (paused = {} /\ \A t \in Tasks : phase[t] # "paused")))

\* The master gets all its tasks started, those that call another before they
\* are ready find it at work; and it stops, every task gets to see its QUIT.
\* (Not if it waits for one that is paused, or has died.)
StartAndStopEnd ==
  /\ (Calm /\ master.stage = "launch") ~> master.stage = "running"
  /\ (Calm /\ master.stage = "quit") ~> master.stage = "done"

\* A task that ends by itself takes the master with it: the others do not go on
\* without it for ever.
DeathIsNoticed ==
  Gone # {} ~> master.stage \in {"quit", "join", "done", "broken"}

\* No command of the operator ends a task: to pause one is idempotent.
ControlsAreSafe == died = {}
=============================================================================
