SPECIFICATION FairPoolSpec
CONSTANTS
  Task = {t1, t2, t3}
  Handlers = {"deposit", "convert", "cancelOrder", "tryFill"}
  PoolSize = 3
  None = None
CHECK_DEADLOCK FALSE
INVARIANTS
  MovesUnlessExhausted
PROPERTIES
  EveryTaskEndsUnlessExhausted
