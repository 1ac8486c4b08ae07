\* Clocks in step and nothing else moving, so that only the rule for expiry is
\* left to differ.
SPECIFICATION HealthSpec
CONSTANTS
    BACKSTOP_ADMIN = admin
    Keys = {admin}
    Mints = {m1}
    ZeroId = id0
    SnapshotIds = {id0, id1}
    AssetIds = {tsla}
    LongAssetIds = {}
    NoAccount = NoAccount
    DefaultKey = DefaultKey
    MaxSupply = 1
    MAX_SNAPSHOT_VALIDITY_SECS = 2
    MaxTime = 2
    MaxAttempts = 1
    LaggingNodes = FALSE
    ClockSkew = 0
INVARIANTS AgreesWithEvaluate
