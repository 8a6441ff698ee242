CONSTANTS
  Good = {g1, g2}
  Bad = {bad}
  Empty = Empty
  Args = {x1, x2}
  Off = Off
  FirstServed = g1
  FirstArgs = x1
  MaxChanges = 2
  MaxUpdates = 2
  MaxFailures = 1
  MaxDowns = 1
  MaxEvents = 3
  None = None
SPECIFICATION FairSpec
INVARIANT AppliedIsLoaded
PROPERTIES ServedConfigRuns StatusIsReported
CHECK_DEADLOCK FALSE
