SPECIFICATION Spec
CONSTANTS
  Preparers = {p1, p2}
  Refreshers = {r1}
  MaxGeneration = 3
  Signer <- MCRenewal
  Approving = {1, 3}
  Bundles <- MCRenewalBundles
  MaxInstalls = 3
  None = None
SYMMETRY MCSymmetry
INVARIANTS
  RetirementHonoured
  PublishedWhenIdle
  NobodyStuck
PROPERTIES
  SnapshotsInOrder
