CONSTANTS
  Good = {g1, g2}
  Bad = {bad}
  Empty = Empty
  Args = {x1}
  Off = Off
  FirstServed = g1
  FirstArgs = x1
  MaxChanges = 1
  MaxUpdates = 2
  MaxFailures = 0
  MaxDowns = 0
  MaxEvents = 3
  None = None
SPECIFICATION FairSpec
PROPERTY EnabledConfigRuns
CHECK_DEADLOCK FALSE
