SPECIFICATION ThreadsSpec
CONSTANTS
  t1 = t1
  t2 = t2
  t3 = t3
  s1 = s1
  s2 = s2
  b1 = b1
  m1 = m1
  m2 = m2
  NoOne = NoOne
  Waiters = {t1, t2, t3}
  Signallers = {s1, s2}
  Broadcasters = {b1}
  Crowd = 1
  SkipKeys = {1, 2, 3}
  KeyNum <- MCKeyNum
  Nil = 9
  MaxNum = 9
  MaxHeight = 2
  Readers = {r1}
  Casts <- MCCasts
  ArThreads = {"a1", "a2", "a3"}
  ArPlans <- MCArPlans
  ArBlock = 8
  ArPage = 4
  ArAlign = 2
  ArHeader = 10
  MmThreads = {m1, m2}
  MmPlans <- MCMmPlans
  MmBlock = 2
  MmChunk = 2
  MmMaxBlock = 4
  MmMishaps = 1
INVARIANTS
  CountExact
  ListsSorted HintsLag NoInsertLost SearchesLinearize
  AllocationsDisjoint ArenaSound MmapSound
PROPERTIES
  KeepsPromise SignalReturns
  SkipGrows SkipTerminates
  TruncateWaitEnds
