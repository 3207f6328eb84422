\* The operator's SLEEP and a disk that fills up.
SPECIFICATION TasksSpec
CONSTANTS
  Clients = {c1, c2, c3}
  Oracles = {w1, w2}
  Nobody = Nobody
  MaxCalls = 2
  oracle = oracle
  scribe = scribe
  secretary = secretary
  driver = driver
  Worlds <- PauseWorlds
INVARIANTS ControlsAreSafe
