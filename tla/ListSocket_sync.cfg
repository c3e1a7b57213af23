SPECIFICATION Spec
CONSTANTS
  None = None
  Ids = {a1, a2}
  Types = {"new", "assign", "revoke", "resolved"}
  Filters <- MCPages
  Assignees = {"mine", "other", "team", "ours"}
  Malformed = {FALSE}
  Pace = "typed"
  Expiry = TRUE
  Ordered = TRUE
  MaxChanges = 4
  MaxFilters = 1
  MaxFailures = 0
SYMMETRY Symmetry
INVARIANTS TypeOK InSync
CHECK_DEADLOCK FALSE
