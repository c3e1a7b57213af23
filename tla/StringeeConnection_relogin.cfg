SPECIFICATION Spec
CONSTANTS
  a = a
  b = b
  ta1 = ta1
  ta2 = ta2
  tb = tb
  None = None
  Accounts = {a, b}
  AccessTokens = {ta1, ta2, tb}
  AccountOf <- MCAccountOf
  DeviceTokens = {"voip"}
  CleanLogout = FALSE
  MaxLogins = 2
  MaxFaults = 0
INVARIANTS ConnectedIsSubscribed
CHECK_DEADLOCK FALSE
