CONSTANTS
  Labels = {l1, l2}
  Appenders = {a1, a2}
  MaxRef = 2
  MaxTime = 1
  MaxSegment = 4
  MaxSamples = 2
  MaxDetours = 1
  FirstSegment = 1
  None = None
SYMMETRY MCSymmetry
SPECIFICATION Spec
INVARIANTS
  SamplesKeepTheirSeries
  SegmentsHaveSeries
PROPERTY ReplayIsExact
CHECK_DEADLOCK FALSE
