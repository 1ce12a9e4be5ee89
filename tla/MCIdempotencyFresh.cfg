SPECIFICATION FairSpec
CONSTANTS
  r1 = r1
  r2 = r2
  r3 = r3
  r4 = r4
  Same = Same
  Other = Other
  None = None
  Request = {r1, r2, r3, r4}
  Payload = {Same, Other}
  payloadOf <- MCPayloadOf
PROPERTIES
  OnlyStaleReclaimed
