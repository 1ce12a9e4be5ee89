SPECIFICATION FairSpec
CONSTANTS
  t1 = t1
  t2 = t2
  t3 = t3
  Tx <- MCTx
  alice = alice
  bob = bob
  Platform = Platform
  accountOf <- MCAccountOf
  TransferFee = 1
  SpreadBps = 50
  NumAccounts = 7
  Owned <- MCOwned
  Currency = {"USD", "EUR"}
  currencyOf <- MCCurrencyOf
  Entries <- MCEntries
  InitialBalance <- MCInitialBalance
INVARIANTS
  BalanceIsJournalTotal
  NoOverdraft
  CurrencyConserved
  NoDeadlock
PROPERTIES
  EveryPostingEnds
  ImplementsAtomicLedger
