SPECIFICATION Spec
CONSTANTS
  Incoming = {c1}
  Outgoing = {o1}
  Uuids = {u1, u2}
  MaxLive = 1
  MaxQueue = 2
  MaxBacklog = 0
  Features = {"refusal", "timeout", "interruption", "background"}
  None = None
SYMMETRY Symmetry
INVARIANTS AudioIsTheSystems TalkingIsAnswered
CHECK_DEADLOCK FALSE
