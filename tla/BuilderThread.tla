---------------------------- MODULE BuilderThread ----------------------------
(***************************************************************************)
(* One build on a slave: the Builder thread, which runs pip and then looks *)
(* at each wheel that pip left, the child processes of proc.py, and the    *)
(* main loop, which asks whether the thread has ended, reports, and stops  *)
(* the thread when the build is to go.  BuildSlave has the messages and    *)
(* takes a build as a single step.  Time is left out: the waits of proc.py *)
(* add up to less than the minute that clean_up_build allows, but opening  *)
(* a wheel, and apt's cache, may take any time.                            *)
(***************************************************************************)
EXTENDS Naturals, FiniteSets

CONSTANTS
  Wheels,     \* files that pip may leave
  MaxLibs,    \* bound: libraries in a wheel
  NoWheel,    \* none in hand
  NoReport

VARIABLES
  thread,     \* where the thread is
  child,      \* the process it waits for: none, running, or told to end
  content,    \* what pip left: a good wheel, one without METADATA, no zip file
  todo,       \* wheels that run() has still to look at
  current,    \* the one in hand
  libs, deps, \* its libraries for ldd; those that ldd found, for apt
  stopped,    \* _stopped
  status,     \* _status
  wheels,     \* _wheels
  raised,     \* an exception that run() does not catch has ended the thread
  main,       \* what the main loop does about the build
  dir,        \* the temporary directory exists
  report      \* the BUILT message

threadVars == <<thread, child, content, todo, current, libs, deps, status, wheels, raised>>
mainVars == <<main, dir, report>>
builderVars == <<threadVars, stopped, mainVars>>

Slow == {"unzip", "apt"}
WheelKinds == {"good", "bad", "corrupt"}

BuilderTypeOK ==
  /\ thread \in {"pip", "wheels", "ldd", "ended"} \cup Slow
  /\ child \in {"none", "runs", "told"}
  /\ content \in [Wheels -> WheelKinds \cup {"none"}]
  /\ todo \subseteq Wheels /\ wheels \subseteq Wheels
  /\ current \in Wheels \cup {NoWheel}
  /\ libs \in 0..MaxLibs /\ deps \in 0..MaxLibs
  /\ {stopped, status, raised, dir} \subseteq BOOLEAN
  /\ main \in {"waits", "joins", "gave up", "closed"}
  /\ report \in [status : BOOLEAN, wheels : SUBSET Wheels] \cup {NoReport}

Made == {w \in Wheels : content[w] # "none"}

BuilderInit ==
  /\ thread = "pip" /\ child = "runs"
  /\ content = [w \in Wheels |-> "none"]
  /\ todo = {} /\ current = NoWheel /\ libs = 0 /\ deps = 0
  /\ stopped = FALSE /\ status = FALSE /\ wheels = {} /\ raised = FALSE
  /\ main = "waits" /\ dir = TRUE /\ report = NoReport

-----------------------------------------------------------------------------
\* Mutant of Finish: the wheels found so far stay.
FinishKeeps(halt) ==
  /\ thread' = "ended"
  /\ stopped' = (stopped \/ halt)
  /\ status' = ~(stopped \/ halt)
  /\ UNCHANGED wheels

\* The end of run() after a successful pip, by an exception that calls stop()
\* or not.
Finish(halt) ==
  /\ thread' = "ended"
  /\ stopped' = (stopped \/ halt)
  /\ status' = ~(stopped \/ halt)
  /\ wheels' = IF stopped \/ halt THEN {} ELSE wheels

\* Any other exception leaves status and wheels as they are.
Raise ==
  /\ thread' = "ended" /\ raised' = TRUE
  /\ UNCHANGED <<stopped, status, wheels>>

\* pip ends by itself, before the event is seen: run() goes on to the wheels.
PipSucceeds(left) ==
  /\ thread = "pip" /\ child = "runs"
  /\ child' = "none" /\ thread' = "wheels" /\ status' = TRUE
  /\ content' = left
  /\ todo' = {w \in Wheels : left[w] # "none"}
  /\ UNCHANGED <<current, libs, deps, stopped, wheels, raised, mainVars>>

PipFails ==
  /\ thread = "pip" /\ child = "runs"
  /\ child' = "none" /\ thread' = "ended"
  /\ UNCHANGED <<content, todo, current, libs, deps, stopped, status, wheels,
                 raised, mainVars>>

\* Mutant of TellChild: nothing looks at the event while pip runs.
TellChildLdd ==
  /\ child = "runs"
  /\ thread = "ldd"
  /\ child' = "told"
  /\ UNCHANGED <<thread, content, todo, current, libs, deps, stopped, status,
                 wheels, raised, mainVars>>

\* _test_term: the event is set, or ldd has had its time.
TellChild ==
  /\ child = "runs"
  /\ thread = "ldd" \/ stopped
  /\ child' = "told"
  /\ UNCHANGED <<thread, content, todo, current, libs, deps, stopped, status,
                 wheels, raised, mainVars>>

\* The child has ended, of itself or by kill(), and the exception goes up.
ChildGone ==
  /\ child = "told"
  /\ child' = "none"
  /\ IF thread = "pip" THEN thread' = "ended" /\ UNCHANGED <<stopped, status, wheels>>
                       ELSE Finish(TRUE)
  /\ UNCHANGED <<content, todo, current, libs, deps, raised, mainVars>>

-----------------------------------------------------------------------------
\* Wheel(path), in the order of the directory.
NextWheel(w) ==
  /\ thread = "wheels" /\ w \in todo
  /\ todo' = todo \ {w}
  /\ CASE content[w] = "good" ->
            thread' = "unzip" /\ current' = w
            /\ UNCHANGED <<stopped, status, wheels, raised>>
       [] content[w] = "bad" -> Finish(TRUE) /\ UNCHANGED <<current, raised>>
       [] content[w] = "corrupt" -> Raise /\ UNCHANGED current
  /\ UNCHANGED <<child, content, libs, deps, mainVars>>

\* calc_apt_dependencies: the libraries are taken out of the wheel.
Unzip(n) ==
  /\ thread = "unzip"
  /\ thread' = "ldd" /\ libs' = n /\ deps' = 0
  /\ UNCHANGED <<child, content, todo, current, stopped, status, wheels, raised, mainVars>>

Ldd ==
  /\ thread = "ldd" /\ child = "none" /\ libs > 0
  /\ child' = "runs" /\ libs' = libs - 1
  /\ UNCHANGED <<thread, content, todo, current, deps, stopped, status, wheels,
                 raised, mainVars>>

\* What ldd names may be known already, and a failure of ldd is passed over.
LddEnds(new) ==
  /\ thread = "ldd" /\ child = "runs"
  /\ child' = "none"
  /\ deps' = IF new /\ deps < MaxLibs THEN deps + 1 ELSE deps
  /\ UNCHANGED <<thread, content, todo, current, libs, stopped, status, wheels,
                 raised, mainVars>>

LddDone ==
  /\ thread = "ldd" /\ child = "none" /\ libs = 0
  /\ thread' = "apt"
  /\ UNCHANGED <<child, content, todo, current, libs, deps, stopped, status,
                 wheels, raised, mainVars>>

\* One library: two packages that claim it fail an assertion; then the event
\* is looked at.
Provider(unique) ==
  /\ thread = "apt" /\ deps > 0
  /\ CASE ~unique -> Raise /\ UNCHANGED deps
       [] unique /\ stopped -> Finish(TRUE) /\ UNCHANGED <<deps, raised>>
       [] unique /\ ~stopped ->
            deps' = deps - 1 /\ UNCHANGED <<thread, stopped, status, wheels, raised>>
  /\ UNCHANGED <<child, content, todo, current, libs, mainVars>>

WheelDone ==
  /\ thread = "apt" /\ deps = 0
  /\ wheels' = wheels \cup {current}
  /\ thread' = "wheels" /\ current' = NoWheel
  /\ UNCHANGED <<child, content, todo, libs, deps, stopped, status, raised, mainVars>>

LastWheel ==
  /\ thread = "wheels" /\ todo = {}
  /\ Finish(FALSE)
  /\ UNCHANGED <<child, content, todo, current, libs, deps, raised, mainVars>>

-----------------------------------------------------------------------------
\* do_cont, once the thread is not alive.
Report ==
  /\ main = "waits" /\ thread = "ended" /\ report = NoReport
  /\ report' = [status |-> status, wheels |-> wheels]
  /\ UNCHANGED <<threadVars, stopped, main, dir>>

\* clean_up_build, for DONE or for the end of the session.
Stop ==
  /\ main = "waits" /\ thread # "ended"
  /\ stopped' = TRUE /\ main' = "joins"
  /\ UNCHANGED <<threadVars, dir, report>>

CloseBuild ==
  /\ main \in {"waits", "joins"} /\ thread = "ended"
  /\ dir' = FALSE /\ main' = "closed"
  /\ UNCHANGED <<threadVars, stopped, report>>

\* Mutant of GiveUp: the directory goes although the thread is alive.
GiveUpAndClose ==
  /\ main = "joins" /\ thread \in Slow
  /\ main' = "gave up" /\ dir' = FALSE
  /\ UNCHANGED <<threadVars, stopped, report>>

\* TerminateTimeout ends the main loop ...
GiveUp ==
  /\ main = "joins" /\ thread \in Slow
  /\ main' = "gave up"
  /\ UNCHANGED <<threadVars, stopped, dir, report>>

\* ... but the interpreter waits for the thread before it removes the
\* directory and exits.
Shutdown ==
  /\ main = "gave up" /\ thread = "ended"
  /\ main' = "closed" /\ dir' = FALSE
  /\ UNCHANGED <<threadVars, stopped, report>>

Scan ==
  \/ \E w \in Wheels : NextWheel(w)
  \/ \E n \in 0..MaxLibs : Unzip(n)
  \/ Ldd \/ (\E new \in BOOLEAN : LddEnds(new)) \/ LddDone
  \/ (\E unique \in BOOLEAN : Provider(unique)) \/ WheelDone \/ LastWheel

ThreadStep == TellChild \/ ChildGone \/ Scan

BuilderNext ==
  \/ \E left \in [Wheels -> WheelKinds \cup {"none"}] : PipSucceeds(left)
  \/ PipFails \/ ThreadStep
  \/ Report \/ Stop \/ CloseBuild \/ GiveUp \/ Shutdown

\* pip may take for ever, the rest may not; and so may the main loop before it
\* stops a build.
BuilderFairness == WF_builderVars(ThreadStep) /\ WF_builderVars(CloseBuild \/ Shutdown)

BuilderSpec == BuilderInit /\ [][BuilderNext]_builderVars /\ BuilderFairness

-----------------------------------------------------------------------------
\* The directory never goes while the thread or a process of its may still
\* write to it, and a thread that ends leaves no process behind: whatever
\* stops the build, and wherever the thread is at that moment.
NothingIsLeft ==
  /\ ~dir => thread = "ended"
  /\ thread = "ended" => child = "none"

\* What is reported is all or nothing: a success has every wheel that pip
\* left, a failure has none, although the build may be stopped, or fail,
\* between two wheels; exceptions that run() does not catch are another matter.
ReportsAreWhole ==
  report # NoReport /\ ~raised => report.wheels = IF report.status THEN Made ELSE {}

\* A build that is stopped ends, and its directory goes, even if pip does not
\* end of itself.
StoppedBuildsGo == stopped /\ main # "waits" ~> ~dir

\* Wheel.__init__ reads the metadata at once "to ensure that we can report
\* corrupt (or invalid) wheels upon construction": a build that leaves one is
\* not reported as a success.
CorruptWheelsAreReported ==
  report # NoReport /\ report.status => \A w \in Wheels : content[w] # "corrupt"
=============================================================================
