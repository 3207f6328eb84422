\* Two slaves; messages are lost, and either side stops and starts again.
SPECIFICATION Spec
CONSTANTS
  Slaves = {s1, s2}
  Addrs = {k1, k2, k3, k4}
  MaxId = 4
  MaxFiles = 1
  Chunks = 2
  Full = 1
  Pipeline = 2
  Faults = {"loss", "delay", "damage", "exit", "restart"}
  MaxFaults = 2
  NoAddr = NoAddr
  NoTransfer = NoTransfer
  NoFile = NoFile
PROPERTIES
  ImplementsFileCopy
SYMMETRY Symmetry
