SPECIFICATION FairSpec
CONSTANTS
  facebook = facebook
  zalo = zalo
  fbMessage = fbMessage
  None = None
  Tabs = {facebook, zalo}
  Features = {fbMessage}
  TabOf <- MCTabOf
  CodeOf <- MCCodeOf
  Filters = {"mine", "all"}
  MaxChanges = 2
  MaxFaults = 1
INVARIANTS TypeOK StaleCountIsAskedFor StaleSummaryIsAskedFor OwedReloadIsMarked
PROPERTIES BadgesLag CatchUp
CHECK_DEADLOCK FALSE
