SPECIFICATION OnboardingFairSpec
CONSTANTS
  a1 = a1
  a2 = a2
  b1 = b1
  b2 = b2
  u1 = u1
  s1 = s1
  s2 = s2
  jane = jane
  john = john
  Treasury = Treasury
  Hold = Hold
  Address = Address
  AddressUpper = AddressUpper
  None = None
  Call = {a1, a2, b1, b2, u1}
  Key = {Treasury, Hold}
  keyOf <- MCKeyOf
  Person = {jane, john}
  Spelling = {Address, AddressUpper}
  emailOf <- MCEmailOf
  loginAs <- MCLoginAs
  lower <- MCLower
  AdminEmail = Address
  Seed = {s1, s2}
  seedCalls <- MCSeedCalls
INVARIANTS
  OneAccountPerKey
  AnswersArePostable
  RegistrationsHold
  SeededIsComplete
PROPERTIES
  EveryoneIsAnswered
