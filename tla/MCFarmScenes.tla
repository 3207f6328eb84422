----------------------------- MODULE MCFarmScenes -----------------------------
(***************************************************************************)
(* Runs of BuildFarm whose behaviours are of two kinds, by what happens in *)
(* them: for its liveness, faults but no orders, or orders but no faults;  *)
(* for its safety, a slave that is alone, or slaves that compete.          *)
(***************************************************************************)
EXTENDS MCBuildFarm

CONSTANT k1

VARIABLE scene

\* A scene is a slave that is alone, on any socket, with any fault and order;
\* or a socket: each slave has that one, and PyPI removes and publishes.  There
\* is one fault then, and no restart and no order; wheels are one.
SafeInit == Init /\ scene \in Slaves \cup Sockets

InSafeScene ==
  /\ UNCHANGED scene
  /\ scene \in Slaves =>
       /\ removal' = NoRemoval
       /\ \A c \in Conns : c[1] # scene => wire'[c] = Quiet
  /\ scene \in Sockets =>
       /\ \A c \in Conns : c[2] # scene => wire'[c] = Quiet
       /\ \A s \in Slaves : builder'[s] # NoBuilder => builder'[s].files <= 1
       /\ faults' <= 1

SafeNext ==
  \/ FarmStep /\ InSafeScene
  \/ RemovalStep /\ InSafeScene
  \/ scene \in Slaves /\ Operator /\ InSafeScene
  \/ scene \in Slaves /\ Crash /\ InSafeScene
  \/ scene \in Slaves /\ Restart /\ InSafeScene

SafeScenes == SafeInit /\ [][SafeNext]_<<vars, scene>>

SceneInit == Init /\ scene \in {"faults", "orders"}

InFairScene ==
  /\ UNCHANGED scene
  /\ scene = "orders" =>
       UNCHANGED faults /\ \A c \in Conns : c[2] # k1 => wire'[c] = Quiet

SceneNext ==
  \/ FarmStep /\ InFairScene
  \/ scene = "orders" /\ Operator /\ InFairScene
  \/ Crash /\ InFairScene
  \/ Restart /\ InFairScene

FairScenes == SceneInit /\ [][SceneNext]_<<vars, scene>> /\ Fairness

\* While nobody gives orders, every queued version is attempted in the end
\* (EveryBuildIsAttempted)...
AttemptedUnlessOrdered == scene = "faults" => EveryBuildIsAttempted

\* ... and every slave that is not stuck in an upload gets back to a session
\* that the master knows (SlavesRejoin), also when the master was replaced.
RejoinUnlessOrdered == scene = "faults" => SlavesRejoin
=============================================================================
