CONSTANTS
  MaxFrame = 5
  N = 2
  FifoSize = 1
  Pool = 3
  Need <- MCNeed
SPECIFICATION FairSpec
CHECK_DEADLOCK FALSE
INVARIANT RingConsistent
INVARIANT InOrder
INVARIANT PbufsConserved
INVARIANT OnlyStarvedStrands
PROPERTY RingDrains
