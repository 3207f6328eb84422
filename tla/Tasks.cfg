\* More clients than oracles; the tasks in five worlds.
SPECIFICATION TasksSpec
CONSTANTS
  Clients = {c1, c2, c3}
  Oracles = {w1, w2}
  Nobody = Nobody
  MaxCalls = 2
  oracle = oracle
  scribe = scribe
  secretary = secretary
  driver = driver
  Worlds <- TaskWorlds
INVARIANTS
  OraclesAreShared
  RepliesMatch
PROPERTIES
  ImplementsRpcService
  EveryCallReturns
  StartAndStopEnd
  SleepersWake
  DeathIsNoticed
