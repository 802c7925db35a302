SPECIFICATION Spec
CONSTANTS
  logger = logger
  pool = pool
  cache = cache
  Main = main
  Threads = {main, worker}
  Instances = {logger, pool, cache}
  Leaky = {cache}
  Throwing = {}
  CtorUses <- MCCtorUses
  DtorUses <- MCDtorUses
  Asserts = TRUE
  MaxCalls = 1
INVARIANT ConstructedOnce
CHECK_DEADLOCK FALSE
