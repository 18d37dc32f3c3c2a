SPECIFICATION FairSpec
CONSTANTS
  t1 = t1
  t2 = t2
  t3 = t3
  s1 = s1
  s2 = s2
  a1 = a1
  NoOne = NoOne
  Waiters = {t1, t2}
  Signallers = {s1}
  Broadcasters = {a1}
  Crowd = 2
PROPERTIES SignalReturns
CHECK_DEADLOCK FALSE
