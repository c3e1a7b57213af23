SPECIFICATION FairSpec
CONSTANTS
  None = None
  Ids = {a1}
  Types = {"tag", "new"}
  Filters <- MCPages
  Assignees = {}
  Malformed = {TRUE, FALSE}
  Pace = "any"
  Expiry = FALSE
  Ordered = FALSE
  MaxChanges = 3
  MaxFilters = 1
  MaxFailures = 1
INVARIANTS ProcessedInOrder IgnoresWhileLoading
PROPERTIES DroppedIsDropped QueuesDrain
CHECK_DEADLOCK FALSE
