SPECIFICATION Spec
CONSTANTS
  s = s
  e = e
  i1 = i1
  i2 = i2
  b = b
  m = m
  f = f
  Plain = {s}
  Env = {e}
  Inst = {i1, i2}
  Carrier = {b}
  Table = {m}
  Box = {f}
  Heaps <- FunctionHeap
  LogFull <- MCLogFull
  MaxRefs <- MCMaxRefs
  MaxScope <- MCMaxScope
  MaxHolders <- MCMaxHolders
SYMMETRY Symmetry
INVARIANT NeverClearsReachable
