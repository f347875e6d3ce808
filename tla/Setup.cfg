SPECIFICATION Spec
CONSTANTS
  a1 = a1
  a2 = a2
  g1 = g1
  g2 = g2
  g3 = g3
  None = None
  Attempts <- MCAttempts
  Gateways <- MCGateways
  Served <- MCServed
  Signer <- MCSigner
  Approved <- MCApproved
  MaxGeneration = 3
  MaxSetups = 2
SYMMETRY MCSymmetry
INVARIANT RecoveryCanSucceed
PROPERTY EstablishedIsVerified
CHECK_DEADLOCK FALSE
