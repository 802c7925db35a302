SPECIFICATION FairSpec
CONSTANTS
  logger = logger
  pool = pool
  cache = cache
  Main = main
  Threads = {main, worker, helper}
  Instances = {logger, pool, cache}
  Leaky = {cache}
  Throwing = {pool}
  CtorUses <- MCCtorUses
  DtorUses <- MCDtorUses
  Asserts = TRUE
  MaxCalls = 1
INVARIANTS
  ReturnsAlive
  AllDestroyed
  DependenciesOutlive
PROPERTY PointerReturns
CHECK_DEADLOCK FALSE
