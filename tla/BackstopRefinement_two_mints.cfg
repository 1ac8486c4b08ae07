\* Two mints, so that accounts of one are offered to the other, on a clock
\* that keeps running.
SPECIFICATION FairSpec
CONSTANTS
    BACKSTOP_ADMIN = admin
    Keys = {admin}
    Mints = {m1, m2}
    ZeroId = id0
    SnapshotIds = {id0}
    AssetIds = {tsla}
    LongAssetIds = {}
    NoAccount = NoAccount
    DefaultKey = DefaultKey
    MaxSupply = 1
    MAX_SNAPSHOT_VALIDITY_SECS = 2
    MaxTime = 3
PROPERTIES ImplementsGate VerdictsExpire
