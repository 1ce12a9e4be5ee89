SPECIFICATION TransferSpec
CONSTANTS
  Payload = {p1, p2}
  Blank = Blank
  MaxQuotes = 1
  MaxRequests = 3
  None = None
INVARIANT NeverSentTwice
SYMMETRY Payloads
