SPECIFICATION FairSpec
CONSTANTS
  a = a
  b = b
  ta1 = ta1
  ta2 = ta2
  tb = tb
  None = None
  Accounts = {a, b}
  AccessTokens = {ta1, ta2, tb}
  AccountOf <- MCAccountOf
  DeviceTokens = {"voip"}
  CleanLogout = TRUE
  MaxLogins = 3
  MaxFaults = 2
INVARIANTS TypeOK RegisteredIsSubscribed PushesFollowLogin ConnectedAsLoggedIn ConnectedIsSubscribed
PROPERTIES LoginRegisters
CHECK_DEADLOCK FALSE
