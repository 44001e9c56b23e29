CONSTANTS
  t1 = t1
  t2 = t2
  x = x
  y = y
  s = s
  Tab = {t1, t2}
  Api = {x, y}
  Stream = {s}
  TabOf <- MCTabOf
  MaxPairs = 2
SPECIFICATION FairSpec
CONSTRAINT Bounds
 
INVARIANT OneSuccessor
PROPERTY CallsEnd
