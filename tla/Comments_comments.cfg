SPECIFICATION Spec
CONSTANTS
  PageSize = 1
  MaxComments = 2
  MaxOwn = 1
  MaxScreens = 2
  MaxFaults = 1
  MaxUnderWay = 2
INVARIANTS TypeOK OwnIsUnderWay
PROPERTIES EachOnce NothingVanishes
CHECK_DEADLOCK FALSE
