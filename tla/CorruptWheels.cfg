\* What a build reports of a wheel that is no zip file.
SPECIFICATION PartsSpec
CONSTANTS
  None = None
  Slaves = {s1}
  Addrs = {k1, k2}
  MaxId = 1
  MaxFiles = 2
  Chunks = 4
  Full = 3
  Pipeline = 2
  Faults = {"loss", "damage"}
  MaxFaults = 2
  NoAddr = None
  NoTransfer = None
  NoFile = None
  Window = 2
  Skew = 1
  PypiEpoch = 2
  PypiMargin = 4
  CacheSize = 1
  Versions = {1, 2}
  Events <- AllEvents
  MaxRows = 6
  MaxTime = 5
  MaxCrashes = 1
  NoTime = None
  NoRow = None
  NoVersion = None
  NoLoop = None
  Wheels = {w1, w2}
  MaxLibs = 2
  NoWheel = None
  NoReport = None
INVARIANTS
  CorruptWheelsAreReported
CHECK_DEADLOCK FALSE
