SPECIFICATION ConsoleSpec
CONSTANTS
  Payload = {p1, p2}
  Blank = Blank
  MaxQuotes = 1
  MaxRequests = 2
  x = x
  y = y
  ItemsOf <- MCItemsOf
  Paged = {"openOrders", "requests", "lines"}
  MaxLoads = 3
  MaxActs = 2
  None = None
INVARIANTS
  ConsoleTypeOK
  OneEntryPerConfirmation
  ReportedIsPosted
  RepeatsAreCharged
  ShownIsLatest
  CreatesAreCharged
  SpinnersHaveRequests
