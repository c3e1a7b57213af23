SPECIFICATION Spec
CONSTANTS
  Incoming = {c1}
  Outgoing = {}
  Uuids = {u1, u2}
  MaxLive = 1
  MaxQueue = 2
  MaxBacklog = 0
  Features = {}
  None = None
INVARIANT NoOrphan
CHECK_DEADLOCK FALSE
