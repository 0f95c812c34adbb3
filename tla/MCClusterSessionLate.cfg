SPECIFICATION Spec
CONSTANTS
  n1 = n1  n2 = n2  
  s1 = s1
  Node = {n1, n2}
  Session = {s1}
  TombstoneTtl = 1
  QueueCap = 1
  MaxWrites = 2
  MaxRemoves = 1
  MaxTicks = 0
  MaxCrashes = 0
PROPERTY LateDeltasIgnored
