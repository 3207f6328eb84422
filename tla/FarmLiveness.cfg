\* One slave, messages lost and sessions broken, or under every order of the operator.
SPECIFICATION FairScenes
CONSTANTS
  p1 = p1
  v1 = v1
  v2 = v2
  s1 = s1
  s2 = s2
  k1 = k1
  Pkgs = {p1}
  Vers = {v1}
  Abis = {37}
  Released <- OrderOne
  Tag <- Native
  Slaves = {s1}
  Sockets = {k1, k2}
  Abi <- SameAbi
  MaxFiles = 1
  Removals = {}
  Readds = FALSE
  Controls = {"KILL", "SKIP", "SLEEP", "WAKE"}
  Faults = {"loss", "delay", "exit", "restart"}
  MaxFaults = 2
  Punctual = TRUE
  NoVer = NoVer
  NoBuild = NoBuild
  NoQueue = NoQueue
  NoJob = NoJob
  NoConn = NoConn
  NoBuilder = NoBuilder
  NoRemoval = NoRemoval
PROPERTIES
  AttemptedUnlessOrdered
  RejoinUnlessOrdered
  KilledSlavesLeave
  PausedFarmDrains
