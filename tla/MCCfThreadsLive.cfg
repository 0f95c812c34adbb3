SPECIFICATION LiveSpec
CONSTANTS
  a = a
  b = b
  c = c
  bUpper = bUpper
  Root = Root
  NoThread = NoThread
  NoName = NoName
  t1 = t1
  t2 = t2
  Thread = {t1, t2}
  Name = {a, b}
  Lower <- PlainLower
  Limits = {1}
  Spawner = {Root, t1, t2}
  Looping = {t2}
PROPERTIES JoinReturns TerminatedLoopEnds
CHECK_DEADLOCK FALSE
