SPECIFICATION Spec
CONSTANTS
  a = a
  b = b
  c = c
  bUpper = bUpper
  Root = Root
  NoThread = NoThread
  NoName = NoName
  t1 = t1
  t2 = t2
  t3 = t3
  Thread = {t1, t2, t3}
  Name = {a, b, c}
  Lower <- PlainLower
  Limits = {1, 2}
  Spawner = {Root, t1, t2, t3}
  Looping = {}
SYMMETRY Symmetry
INVARIANTS RegistryInv StatusIsOwn KeptOnlyWhileRunning JoinedIsGone JoinAllSparesAncestors WaitsForNamedThreads
PROPERTIES FinishLeavesSuccessor
CHECK_DEADLOCK FALSE
