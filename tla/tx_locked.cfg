CONSTANTS
  rx = rx
  tcpip = tcpip
  eth = eth
  f1 = f1
  f2 = f2
  f3 = f3
  Task <- MCTask
  Prio <- MCPrio
  Reader = {rx}
  Unlocked = {}
  Frame = {f1, f2, f3}
  NoFrame = NoFrame
  NoTask = NoTask
  Parts = 2
  N = 2
  MaxIrq = 2
SPECIFICATION FairSpec
CHECK_DEADLOCK FALSE
INVARIANT OkIsSent
INVARIANT WireIsClean
PROPERTY CallsReturn
PROPERTY ImplementsTxQueue
