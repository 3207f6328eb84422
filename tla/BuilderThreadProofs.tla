------------------------- MODULE BuilderThreadProofs -------------------------
(***************************************************************************)
(* Proofs about module BuilderThread: whatever stops a build, and whatever *)
(* pip leaves, nothing of it is left behind, and what is reported is all   *)
(* or nothing.                                                             *)
(***************************************************************************)
EXTENDS BuilderThread, TLAPS

\* What the thread is doing after a pip that succeeded, and with a wheel in hand.
InHand == {"unzip", "ldd", "apt"}
Looking == InHand \cup {"wheels"}

\* A process is there only while the thread waits for it.
ChildIsAwaited == child # "none" => thread \in {"pip", "ldd"}

\* The directory goes, and the report is made, after the end of the thread.
EndComesFirst == (~dir \/ report # NoReport) => thread = "ended"

\* Before the end of pip there is nothing to report.
NothingYet == thread = "pip" => ~status /\ wheels = {}

\* While the thread looks at the wheels, each is done, to do, or in hand, and
\* nothing but the end of run() takes the status back.
WheelsAreKept ==
  thread \in Looking =>
    /\ status
    /\ Made = wheels \cup todo \cup (IF thread \in InHand THEN {current} ELSE {})

\* Where the thread has ended by itself or by stop(), all or nothing is left
\* to report.
OutcomeIsWhole ==
  thread = "ended" /\ ~raised => wheels = IF status THEN Made ELSE {}

Thread ==
  /\ content \in [Wheels -> WheelKinds \cup {"none"}]
  /\ ChildIsAwaited /\ EndComesFirst
  /\ NothingYet /\ WheelsAreKept /\ OutcomeIsWhole
  /\ ReportsAreWhole

-----------------------------------------------------------------------------
LEMMA ThreadInit == BuilderInit => Thread
BY DEF BuilderInit, Thread, ChildIsAwaited, EndComesFirst, NothingYet, WheelsAreKept,
       OutcomeIsWhole, ReportsAreWhole, Looking, InHand, WheelKinds

\* No step disturbs it: the end of the thread is the hard case, in all the
\* places where it may come.
LEMMA ThreadSteps == Thread /\ [BuilderNext]_builderVars => Thread'
<1> SUFFICES ASSUME Thread, [BuilderNext]_builderVars PROVE Thread'
  OBVIOUS
<1> USE DEF Thread, ChildIsAwaited, EndComesFirst, NothingYet, WheelsAreKept,
            OutcomeIsWhole, ReportsAreWhole, Looking, InHand, Slow, mainVars, threadVars
<1>1. ASSUME NEW left \in [Wheels -> WheelKinds \cup {"none"}], PipSucceeds(left)
      PROVE  Thread'
  BY <1>1 DEF PipSucceeds, Made
<1>2. CASE PipFails
  BY <1>2 DEF PipFails, Made
<1>3. CASE TellChild
  BY <1>3 DEF TellChild, Made
<1>4. CASE ChildGone
  BY <1>4 DEF ChildGone, Finish, Made
<1>5. ASSUME NEW w \in Wheels, NextWheel(w)
      PROVE  Thread'
  <2>1. /\ thread = "wheels" /\ w \in todo /\ todo' = todo \ {w}
        /\ UNCHANGED <<child, content, mainVars>>
    BY <1>5 DEF NextWheel
  <2>2. \/ /\ thread' = "unzip" /\ current' = w
           /\ UNCHANGED <<stopped, status, wheels, raised>>
        \/ Finish(TRUE) /\ UNCHANGED raised
        \/ Raise
    <3>1. content[w] \in WheelKinds
      BY <2>1 DEF Made
    <3>2. QED
      BY <3>1, <1>5 DEF NextWheel, WheelKinds
  <2>3. QED
    BY <2>1, <2>2 DEF Finish, Raise, Made
<1>6. ASSUME NEW n \in 0..MaxLibs, Unzip(n)
      PROVE  Thread'
  BY <1>6 DEF Unzip, Made
<1>7. CASE Ldd
  BY <1>7 DEF Ldd, Made
<1>8. ASSUME NEW new \in BOOLEAN, LddEnds(new)
      PROVE  Thread'
  BY <1>8 DEF LddEnds, Made
<1>9. CASE LddDone
  BY <1>9 DEF LddDone, Made
<1>10. ASSUME NEW unique \in BOOLEAN, Provider(unique)
       PROVE  Thread'
  BY <1>10 DEF Provider, Finish, Raise, Made
<1>11. CASE WheelDone
  BY <1>11 DEF WheelDone, Made
<1>12. CASE LastWheel
  BY <1>12 DEF LastWheel, Finish, Made
<1>13. CASE Report
  BY <1>13 DEF Report, Made
<1>14. CASE Stop
  BY <1>14 DEF Stop, Made
<1>15. CASE CloseBuild
  BY <1>15 DEF CloseBuild, Made
<1>16. CASE GiveUp
  BY <1>16 DEF GiveUp, Made
<1>17. CASE Shutdown
  BY <1>17 DEF Shutdown, Made
<1>18. CASE UNCHANGED builderVars
  BY <1>18 DEF builderVars, Made
<1>19. QED
  BY <1>1, <1>2, <1>3, <1>4, <1>5, <1>6, <1>7, <1>8, <1>9, <1>10, <1>11, <1>12, <1>13,
     <1>14, <1>15, <1>16, <1>17, <1>18 DEF BuilderNext, ThreadStep, Scan

\* The inductive invariant holds.
LEMMA ThreadHolds == BuilderSpec => []Thread
<1>1. QED
  BY ThreadInit, ThreadSteps, PTL DEF BuilderSpec

\* The directory never goes while the thread or a process may still use it,
\* and no process outlives the thread, wherever the stop finds it.
THEOREM NothingStays == BuilderSpec => []NothingIsLeft
<1>1. Thread => NothingIsLeft
  BY DEF Thread, NothingIsLeft, EndComesFirst, ChildIsAwaited
<1>2. QED
  BY <1>1, ThreadHolds, PTL

\* A reported build has all its wheels or none, unless an exception that run()
\* does not catch has ended it.
THEOREM ReportsAreAllOrNothing == BuilderSpec => []ReportsAreWhole
<1>1. Thread => ReportsAreWhole
  BY DEF Thread
<1>2. QED
  BY <1>1, ThreadHolds, PTL
=============================================================================
