CONSTANTS
  a = a
  b = b
  c = c
  Keys = {a, b, c}
  Funcs = {evalFn}
  Workers = {w1, w2}
  None = None
  MaxSize = 1
  Edges <- MCEdges
  Autonomous = {c}
  MaxOwn = 2
  Poison = 1
  MaxReloads = 2
  CanReject = TRUE
  CanExhaust = TRUE
SPECIFICATION FairControllerSpec
INVARIANTS
  SettledIsConsistent
  NoLostWakeup
  ArgumentsAreValid
PROPERTIES
  BecomesConsistent
  NobodyWaitsForEver
