\* Two slaves of different ABIs share the versions.
SPECIFICATION CalmSpec
CONSTANTS
  p1 = p1
  v1 = v1
  v2 = v2
  s1 = s1
  s2 = s2
  Pkgs = {p1}
  Vers = {v1, v2}
  Abis = {37, 39}
  Released <- Order
  Tag <- Pure
  Slaves = {s1, s2}
  Sockets = {k1}
  Abi <- EachItsAbi
  MaxFiles = 1
  Removals = {}
  Readds = FALSE
  Controls = {}
  Faults = {"loss", "delay", "exit"}
  MaxFaults = 1
  Punctual = TRUE
  NoVer = NoVer
  NoBuild = NoBuild
  NoQueue = NoQueue
  NoJob = NoJob
  NoConn = NoConn
  NoBuilder = NoBuilder
  NoRemoval = NoRemoval
INVARIANTS
  OneAbiAtATime
  FinishedBuildsAreLogged
