\* One node that is loaded and removed again and again.
CONSTANTS
  a = a
  Ids = {a}
  Objs = {o1, o2, o3}
  Graphs <- MCOneNode
  Slots = {s1, s2}
  Deadlines = {FALSE}
  None = None
SPECIFICATION FairRuntimeSpec
INVARIANTS
  NoLostLoad
  OnlyLoadedNodesRun
  NothingRunsBeforeFirstLoad
PROPERTIES
  LoadsAreScheduled
  RunReturnsAfterCancel
