SPECIFICATION FairSpec
CONSTANTS
  ann = ann
  ben = ben
  None = None
  User = {ann, ben}
  Order = {o1, o2}
  Tick = {k1, k2}
  Cancel = {c1}
  Offers <- MCOffers
  Rates = {2, 4}
  BaseScale = 4
  InitialWallet <- MCInitialWallet
  MaxFaults = 1
INVARIANTS
  MoneyFollowsOrders
  ResolvedExactlyOnce
PROPERTIES
  CrossedOrdersResolved
  EveryCancelEnds
