CONSTANTS
  a = a
  b = b
  c = c
  Keys = {a, b, c}
  Funcs = {evalFn}
  Workers = {w1, w2}
  None = None
  MaxSize = 6
  Edges <- MCFork
  Autonomous = {c}
  MaxOwn = 1
  Poison = 2
  MaxReloads = 1
  CanReject = TRUE
  CanExhaust = FALSE
SPECIFICATION ControllerSpec
INVARIANT RejectedReloadKeepsWorking
