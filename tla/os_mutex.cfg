CONSTANTS
  a = a
  b = b
  c = c
  m1 = m1
  m2 = m2
  Task = {a, b, c}
  Mutex = {m1, m2}
  NoTask = NoTask
  NoMutex = NoMutex
  BasePrio <- MCBasePrio
  IdlePrio = 4
  NestMax = 2
  Rank <- MCRank
  Waiter = {a, b}
  Nester = {b}
  Timed = {b}
  Loose = {m2}
  Moves <- MCMoves
  Deletable = {b}
SPECIFICATION FairSpec
INVARIANT ListsExact
INVARIANT ExactInheritance
INVARIANT NoInversion
PROPERTY Granted
PROPERTY UrgentServed
