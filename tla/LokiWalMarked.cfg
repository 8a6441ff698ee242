CONSTANTS
  Endpoints = {e1}
  MaxEntries = 2
  MaxSegment = 2
  BatchSize = 1
  Capacity = 1
  FirstMarker = 0
  CanLimit = FALSE
  CanAge = FALSE
  None = None
SPECIFICATION Spec
INVARIANT MarkedIsConsumed
