CONSTANTS
  A = A
  B = B
  C = C
  NoTimer = NoTimer
  Timer = {A, B, C}
  Wrap = 8
  Periodic = {B}
  Dly <- MCDly
  Period <- MCPeriod
  SetTo <- MCSetTo
  Calls <- MCCalls
  Callback <- MCCallback
  LateMax = 1
SPECIFICATION Spec
INVARIANT ListExact
INVARIANT NoOversleep
