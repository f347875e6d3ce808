SPECIFICATION Spec
CONSTANTS
    KeyManifests <- MCKeyManifests
    ApprovalManifests <- MCApprovals
    Issuers = {1}
    Crls <- MCCrls
    Deliveries <- MCDeliveries
    PlatformSets <- MCPlatformSets
    None = None
    MaxTime = 2
    MAX_CLOCK_SKEW_MS = 0
INVARIANTS OneDecisionPerNumber RetiredKeyRejected
PROPERTIES CachedChecksHold RevocationSticks RevocationOutlivesFailure
