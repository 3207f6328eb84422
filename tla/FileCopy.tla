------------------------------- MODULE FileCopy -------------------------------
(***************************************************************************)
(* What the transfer of wheels promises, and all that SlaveDriver relies   *)
(* on: it asks for one wheel of a slave at a time, a copy arrives, and the *)
(* copy is stored if it is whole and asked for again if it is not.  Either *)
(* end may forget the transfer at any time.  BuildFarm uses this view.     *)
(***************************************************************************)
EXTENDS Naturals

CONSTANTS
  Slaves,
  MaxFiles     \* the most wheels that one build makes

VARIABLES
  asked,       \* per slave, the wheel the driver waits for, or 0
  arrived,     \* per slave, what FileJuggler has of it
  stored       \* per wheel, the copy in the public directory

copyVars == <<asked, arrived, stored>>

AllWheels == Slaves \X (1..MaxFiles)
Copies == {"no", "whole", "broken"}

CopyTypeOK ==
  /\ asked \in [Slaves -> 0..MaxFiles]
  /\ arrived \in [Slaves -> Copies]
  /\ stored \in [AllWheels -> Copies \ {"broken"}]

CopyInit ==
  /\ asked = [s \in Slaves |-> 0]
  /\ arrived = [s \in Slaves |-> "no"]
  /\ stored = [w \in AllWheels |-> "no"]

Ask(s) ==
  /\ asked[s] = 0
  /\ asked' = [asked EXCEPT ![s] = 1]
  /\ UNCHANGED <<arrived, stored>>

Arrive(s) ==
  /\ asked[s] # 0 /\ arrived[s] = "no"
  /\ \E q \in {"whole", "broken"} : arrived' = [arrived EXCEPT ![s] = q]
  /\ UNCHANGED <<asked, stored>>

\* The next wheel, if there is one, is asked for at once.
Store(s) ==
  /\ arrived[s] = "whole"
  /\ stored' = [stored EXCEPT ![<<s, asked[s]>>] = "whole"]
  /\ arrived' = [arrived EXCEPT ![s] = "no"]
  /\ \E n \in {0, asked[s] + 1} :
       n <= MaxFiles /\ asked' = [asked EXCEPT ![s] = n]

Reject(s) ==
  /\ arrived[s] = "broken"
  /\ arrived' = [arrived EXCEPT ![s] = "no"]
  /\ UNCHANGED <<asked, stored>>

Forget(S) ==
  /\ asked' = [s \in Slaves |-> IF s \in S THEN 0 ELSE asked[s]]
  /\ arrived' = [s \in Slaves |-> IF s \in S THEN "no" ELSE arrived[s]]
  /\ UNCHANGED stored

CopyNext ==
  \/ \E s \in Slaves : Ask(s) \/ Arrive(s) \/ Store(s) \/ Reject(s)
  \/ \E S \in SUBSET Slaves : Forget(S)

CopySpec == CopyInit /\ [][CopyNext]_copyVars
=============================================================================
