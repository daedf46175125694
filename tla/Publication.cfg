\* Two workers publish on GitHub while people, the base branch and the CI service
\* move, or publish and apply two bundles in one local repository.
CONSTANTS
    w1 = w1
    w2 = w2
    c1 = c1
    c2 = c2
    c3 = c3
    k1 = k1
    k2 = k2
    b1 = b1
    b2 = b2
    None = None
    Main = Main
    Workers = {w1, w2}
    Verifiers = {w1}
    CommitIds = {c1, c2, c3}
    Checks = {k1, k2}
    MaxBase = 1
    MaxHuman = 1
    MaxFaults = 1
    MaxAttempts = 2
    Bundles = {b1, b2}
    Followed = b1
    Artifacts = {k1, k2}
    Tracked = {k1}
    MaxLocalFaults = 2
SPECIFICATION FairPublicationSpec
CHECK_DEADLOCK FALSE
INVARIANTS
    TypeOK
    PassIsBacked
    RollbackLeavesOnlyNewFiles
    LocalReceiptHasRelease
PROPERTIES
    ImplementsChangeProvider
    LocalImplementsChangeProvider
    PublicationRecovers
