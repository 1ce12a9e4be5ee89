SPECIFICATION FairSpec
CONSTANTS
  NumEvents = 2
  Addressed = {1}
  Tick = {k1, k2}
  BatchSize = 2
  MaxFaults = 2
  None = None
INVARIANTS
  TypeOK
  NeitherLostNorPhantom
  DuplicatesAreCharged
  EmailsFollowClaims
PROPERTIES
  EveryEventPublished
  EveryMessageClaimed
