\* With and without a shutdown deadline.  One task more than there are nodes can be
\* alive, so that a node can be scheduled again while its old task is on its way out.
CONSTANTS
  a = a
  b = b
  Ids = {a, b}
  Objs = {o1}
  Graphs <- MCSmallGraphs
  Slots = {s1, s2, s3}
  Deadlines = {TRUE, FALSE}
  None = None
SPECIFICATION StubbornSpec
INVARIANTS
  TypeOK
  BooksAreExact
  OneRunPerNode
  ShutdownBeforeStart
PROPERTIES
  StopsRootsFirst
  StartsLeavesFirst
  StoppingEnds
