SPECIFICATION Spec
CONSTANTS
  Reass = Reass
  Arp = Arp
  Tcp = Tcp
  NoTimer = NoTimer
  Cyclic <- MCCyclic
  Interval <- MCInterval
  Wrap = 22
  Pool = 5
  LateMax = 4
INVARIANT TimersKept
INVARIANT NoOversleep
INVARIANT InPhase
PROPERTY TimersRun
