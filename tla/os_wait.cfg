SPECIFICATION Spec
CONSTANTS
  A = A
  B = B
  C = C
  F = F
  G = G
  H = H
  Task = {A, B, C}
  Flag = {F, G, H}
  Posted <- MCPosted
  Prio <- MCPrio
  Wrap = 4
  Delays <- MCDelays
  Pends <- MCPends
  SemMax = 1
  Suspend = {A}
  SuspendMax = 1
INVARIANT WaitsExact
INVARIANT OnTime
INVARIANT NoVainWait
INVARIANT PostsConserved
