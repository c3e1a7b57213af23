SPECIFICATION Spec
CONSTANTS
  Incoming = {c1, c2}
  Outgoing = {}
  Uuids = {u1, u2}
  MaxLive = 2
  MaxQueue = 1
  MaxBacklog = 2
  Features = {"overlap", "background"}
  None = None
SYMMETRY Symmetry
CONSTRAINT BoundedBacklog
INVARIANTS AnsweredWithConsent MissedIsOver DisplayedScreenEnds
PROPERTY AnswersWithAudio
CHECK_DEADLOCK FALSE
