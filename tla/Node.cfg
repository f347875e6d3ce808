SPECIFICATION MCSpec
CHECK_DEADLOCK FALSE
CONSTANTS
    ComponentBase = 10
    MaxSequence = 1000
    Guests = {1, 2}
    Machine <- MCMachine
    Bundles <- MCBundles
    Freshness <- MCFreshness
    Compiled <- MCCompiled
    Environment = "production"
    RootKey <- MCRootKey
    Times <- MCTimes
    RekorAt <- MCRekorAt
    Levels = {1, 2}
    Connections = {1, 2}
    CertificateLife = 300000
    Own = {1}
    MaxRequests = 1
INVARIANTS
    BootTracesAgree
    LoggedBootsArchived
    ProvisionedOnce
    SessionIsOwn
    CheckSuffices
    ProofsExact
    SequencesOrder
    QuorumsHold
