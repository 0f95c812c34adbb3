SPECIFICATION Spec
CONSTANTS
  a = a
  b = b
  c = c
  bUpper = bUpper
  Root = Root
  NoThread = NoThread
  NoName = NoName
  t1 = t1
  t2 = t2
  t3 = t3
  Thread = {t1, t2, t3}
  Name = {a, b, bUpper}
  Lower <- CasedLower
  Limits = {2}
  Spawner = {Root, t1, t2, t3}
  Looping = {}
INVARIANTS JoinAllSparesAncestors
CHECK_DEADLOCK FALSE
