SPECIFICATION Spec
CONSTANTS
  Incoming = {c1, c2}
  Outgoing = {}
  Uuids = {u1, u2}
  MaxLive = 2
  MaxQueue = 2
  MaxBacklog = 0
  Features = {"overlap"}
  None = None
PROPERTY UpdatesItsOwnCall
CHECK_DEADLOCK FALSE
