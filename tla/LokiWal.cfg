\* One segment was read and deleted before; two more are begun, by the writer or by a
\* restart.
CONSTANTS
  Endpoints = {e1}
  MaxEntries = 2
  MaxSegment = 3
  BatchSize = 2
  Capacity = 1
  FirstMarker = 0
  CanLimit = TRUE
  CanAge = TRUE
  None = None
SPECIFICATION FairSpec
INVARIANTS
  CountsAreExact
  NothingLeftBehind
  PredecessorsAreConsumed
PROPERTIES
  EntriesAreSent
  StopReturns
