SPECIFICATION Spec
CONSTANTS
  None = None
  End = End
  Keys = {k1}
  PageSize = 1
  MaxMessages = 3
  MaxRequests = 2
  MaxLength = 3
  MaxFaults = 1
INVARIANTS TypeOK Contiguous LoadingHasRequest NeverStranded
CHECK_DEADLOCK FALSE
