----------------------------- MODULE MCBuildFarm -----------------------------
(***************************************************************************)
(* Small instances of BuildFarm for TLC.                                   *)
(***************************************************************************)
EXTENDS BuildFarm, TLC

CONSTANTS p1, v1, v2, s1, s2

\* Two versions of one package, v1 released first, or just one.
Order == (<<p1, v1>> :> 1) @@ (<<p1, v2>> :> 2)
OrderOne == <<p1, v1>> :> 1
V1 == {<<p1, v1>>}

\* Wheels tagged with their builder's ABI, or v1's with "none".
Native == [b \in Builds |-> "native"]
Pure == [b \in Builds |-> IF b \in V1 THEN "none" ELSE "native"]

\* One ABI for both slaves, or one each.
SameAbi == [s \in Slaves |-> 37]
EachItsAbi == (s1 :> 37) @@ (s2 :> 39)

\* PyPI removes a version, or the whole package.
AnyRemoval == {<<p1, v1>>, <<p1, NoVer>>}

\* All that can happen without removals, orders and restarts.
CalmSpec == Init /\ [][FarmStep]_vars

Symmetry == Permutations(Sockets)
SlaveSymmetry == Permutations(Slaves) \cup Permutations(Sockets)
=============================================================================
