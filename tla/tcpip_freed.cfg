CONSTANTS
  rx = rx
  tcpip = tcpip
  i1 = i1
  i2 = i2
  a1 = a1
  b1 = b1
  b2 = b2
  b3 = b3
  Thread <- MCThread
  Prio <- MCPrio
  Poster = {}
  TryPoster = {rx}
  Fetcher = {tcpip}
  Freer = {}
  Msg <- MCMsg
  NoMsg = NoMsg
  Size = 1
  PoolSize = 8
  OthersMax = 0
  Rx = rx
  Tcpip = tcpip
  Inpkt = {i1, i2}
  Api = {a1}
  Pbuf = {b1, b2}
  NoPbuf = NoPbuf
  NoTask = NoTask
SPECIFICATION TSpec
INVARIANT FreedPbufHasRef
