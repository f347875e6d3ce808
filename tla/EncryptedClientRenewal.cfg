SPECIFICATION Spec
CONSTANTS
  Tasks = {t1, t2, t3}
  Ids = {s1, s2, s3}
  Nodes = {n1}
  Maximum = 1
  MaxCloses = 0
  None = None
SYMMETRY Symmetric
INVARIANT ExhaustedSessionRenewed
CHECK_DEADLOCK FALSE
