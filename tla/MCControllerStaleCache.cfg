CONSTANTS
  a = a
  b = b
  c = c
  Keys = {a, b, c}
  Funcs = {evalFn}
  Workers = {w1, w2}
  None = None
  MaxSize = 6
  Edges <- MCEdges
  Autonomous = {b, c}
  MaxOwn = 1
  Poison = 2
  MaxReloads = 0
  CanReject = FALSE
  CanExhaust = FALSE
SPECIFICATION ControllerSpec
INVARIANT SettledIsConsistent
