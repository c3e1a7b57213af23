SPECIFICATION FairSpec
CONSTANTS
  Incoming = {c1}
  Outgoing = {}
  Uuids = {u1, u2}
  MaxLive = 1
  MaxQueue = 2
  MaxBacklog = 0
  Features = {"push", "timeout", "elsewhere"}
  None = None
INVARIANTS TypeOK MissedNeverTalked TalkingIsAnswered OpenScreenIsCurrent
PROPERTIES RejectedIsNotMissed AnsweredOnce ScreenSettles OpenScreenLeaves
CHECK_DEADLOCK FALSE
