SPECIFICATION FairPoolSpec
CONSTANTS
  Task = {t1, t2, t3}
  Handlers = {"deposit", "convert", "cancelOrder", "tryFill"}
  PoolSize = 2
  None = None
CHECK_DEADLOCK FALSE
INVARIANTS
  NeverAllWaiting
