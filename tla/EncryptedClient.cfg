SPECIFICATION FairSpec
CONSTANTS
  Tasks = {t1, t2}
  Ids = {s1, s2}
  Nodes = {n1, n2}
  Maximum = 1
  MaxCloses = 1
  None = None
INVARIANTS
  PoolBounded
  ClosedIsQuiet
PROPERTIES
  Delivers
  WaitersServed
CHECK_DEADLOCK FALSE
