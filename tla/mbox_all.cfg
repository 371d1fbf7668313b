CONSTANTS
  rx = rx
  tcpip = tcpip
  app = app
  app2 = app2
  m1 = m1
  m2 = m2
  m3 = m3
  Thread <- MCThread
  Prio <- MCPrio
  Poster = {app, app2}
  TryPoster = {rx}
  Fetcher = {tcpip, app}
  Freer = {app2}
  Msg = {m1, m2, m3}
  NoMsg = NoMsg
  Size = 2
  PoolSize = 4
  OthersMax = 2
SPECIFICATION Spec
CONSTRAINT SkewBound
SYMMETRY MsgSymmetry
INVARIANT TypeOK
INVARIANT SlotsConserved
INVARIANT NoLostWakeup
INVARIANT AcceptedIsKept
