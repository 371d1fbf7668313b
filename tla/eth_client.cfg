CONSTANTS
  MaxSeg = 7
  Window = 5
  MboxSize = 3
  SndBuf = 2
  NetBufs = 2
SPECIFICATION FairSpec
INVARIANT OneSignal
INVARIANT PbufsConserved
INVARIANT StreamIntact
INVARIANT FetchWakes
INVARIANT NothingLeft
PROPERTY Recovers
