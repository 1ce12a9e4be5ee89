SPECIFICATION FairSpec
CONSTANTS
  ann = ann
  ben = ben
  User = {ann, ben}
  Request = {r1, r2}
  Decision = {d1, d2, d3}
  Amounts = {1, 2}
  InitialWallet <- MCInitialWallet
  None = None
INVARIANTS
  MoneyFollowsDecision
  DecidedExactlyOnce
PROPERTIES
  EveryDecisionEnds
