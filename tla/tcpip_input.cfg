CONSTANTS
  rx = rx
  tcpip = tcpip
  i1 = i1
  i2 = i2
  a1 = a1
  b1 = b1
  b2 = b2
  b3 = b3
  Thread <- MCThread
  Prio <- MCPrio
  Poster = {}
  TryPoster = {rx}
  Fetcher = {tcpip}
  Freer = {}
  Msg <- MCMsg
  NoMsg = NoMsg
  Size = 3
  PoolSize = 3
  OthersMax = 2
  Rx = rx
  Tcpip = tcpip
  Inpkt = {i1, i2}
  Api = {a1}
  Pbuf = {b1, b2, b3}
  NoPbuf = NoPbuf
  NoTask = NoTask
SPECIFICATION TFairSpec
INVARIANT FlightIsAlive
INVARIANT NothingLeaks
PROPERTY MessageHandled
