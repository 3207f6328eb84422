\* One slave through every kind of fault, killed and skipped, with two connections alive at once;
\* or two slaves of one ABI that compete for a version that PyPI removes and publishes again.
SPECIFICATION SafeScenes
CONSTANTS
  p1 = p1
  v1 = v1
  v2 = v2
  s1 = s1
  s2 = s2
  k1 = k1
  Pkgs = {p1}
  Vers = {v1}
  Abis = {37}
  Released <- OrderOne
  Tag <- Native
  Slaves = {s1, s2}
  Sockets = {k1, k2}
  Abi <- SameAbi
  MaxFiles = 2
  Removals <- AnyRemoval
  Readds = TRUE
  Controls = {"KILL", "SKIP"}
  Faults = {"loss", "delay", "exit", "restart"}
  MaxFaults = 2
  Punctual = TRUE
  NoVer = NoVer
  NoBuild = NoBuild
  NoQueue = NoQueue
  NoJob = NoJob
  NoConn = NoConn
  NoBuilder = NoBuilder
  NoRemoval = NoRemoval
INVARIANTS
  TypeOK
  SlaveAssertions
  SessionsAgree
  NoDuplicateBuilds
  RemovedBuildsAreSkipped
PROPERTIES
  DieOnlyIfKilled
SYMMETRY SlaveSymmetry
CHECK_DEADLOCK FALSE
