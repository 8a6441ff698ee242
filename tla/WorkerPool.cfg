CONSTANTS
  Keys = {k1, k2, k3, k4}
  Funcs = {f1, f2}
  Workers = {w1, w2}
  MaxSize = 3
  None = None
SPECIFICATION FairSpec
INVARIANTS
  TypeOK
  OneRunningPerKey
  ChannelNeverBlocks
  WaitingOnlyBehindRunning
  NoLostRequest
PROPERTIES
  NoStartAfterStop
  WorkersExit
  ImplementsKeyedExecutor
