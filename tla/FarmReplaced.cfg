\* One slave, and a master that is restarted.
SPECIFICATION FairSpec
CONSTANTS
  p1 = p1
  v1 = v1
  v2 = v2
  s1 = s1
  s2 = s2
  Pkgs = {p1}
  Vers = {v1}
  Abis = {37}
  Released <- OrderOne
  Tag <- Native
  Slaves = {s1}
  Sockets = {k1}
  Abi <- SameAbi
  MaxFiles = 1
  Removals = {}
  Readds = FALSE
  Controls = {}
  Faults = {"restart"}
  MaxFaults = 1
  Punctual = TRUE
  NoVer = NoVer
  NoBuild = NoBuild
  NoQueue = NoQueue
  NoJob = NoJob
  NoConn = NoConn
  NoBuilder = NoBuilder
  NoRemoval = NoRemoval
PROPERTIES
  SlavesOutliveTheMaster
