SPECIFICATION FairSpec
CONSTANTS
  Quoting = {q1}
  Converting = {c1, c2}
  TTL = 2
  Timeout = 1
  None = None
INVARIANTS
  PricesAreRecent
  QuoteIsKept
PROPERTIES
  EveryCallEnds
