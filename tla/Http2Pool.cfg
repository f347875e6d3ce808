SPECIFICATION Spec
CONSTANTS
  Tasks = {t1, t2}
  Ids = {c1, c2}
  Connections = 1
  WaitingRequests = 2
  WaitingBytes = 3
  Sizes = {1}
  Streams = {0, 1}
  MaxCloses = 1
  None = None
SYMMETRY Symmetric
CONSTRAINT Separate
INVARIANTS
  CountersExact
  NoLostWakeup
  CloseIsQuiet
PROPERTIES
  Delivers
CHECK_DEADLOCK FALSE
