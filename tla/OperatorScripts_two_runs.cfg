\* Two runs, each a refresh or a rotation, that may overlap; two attempts for
\* every send.  A tick is the ninety seconds confirm waits: a transaction lands
\* in the tick it was sent in or never, and a snapshot is good for the next.
SPECIFICATION FairScriptSpec
CONSTANTS
    BACKSTOP_ADMIN = admin
    Keys = {admin, k1}
    Mints = {m1}
    MINT = m1
    ZeroId = id0
    Runs = {r1, r2}
    SnapshotIds = {id0, r1, r2}
    AssetIds = {tsla}
    LongAssetIds = {}
    NoAccount = NoAccount
    DefaultKey = DefaultKey
    MaxSupply = 2
    MAX_SNAPSHOT_VALIDITY_SECS = 2
    MaxTime = 2
    MaxSends = 2
    BlockhashLife = 0
    CONFIRM_TIMEOUT = 1
    Supplies = {0, 1}
    SetupAmount = 1
    SNAPSHOT_VALIDITY = 1
INVARIANTS ScriptTypeOK OneSnapshotPerRun CompleteMeansAccepted RunsStayInOrder FailureHasCause
PROPERTIES RunsEnd
