\* Requests against a chain that moves between their reads; one node
\* of the pool may be behind and the host's clock may be a second off.
SPECIFICATION FairHealthSpec
CONSTANTS
    BACKSTOP_ADMIN = admin
    Keys = {admin}
    Mints = {m1}
    ZeroId = id0
    SnapshotIds = {id0, id1}
    AssetIds = {tsla}
    LongAssetIds = {}
    NoAccount = NoAccount
    DefaultKey = DefaultKey
    MaxSupply = 1
    MAX_SNAPSHOT_VALIDITY_SECS = 1
    MaxTime = 2
    MaxAttempts = 2
    LaggingNodes = TRUE
    ClockSkew = 1
INVARIANTS HealthTypeOK StatusAndSafeAgree SafeHasBasis AgreesWhenQuiet KnownAssetIsNeverUnknown AnswerIsGenuine
PROPERTIES RequestsAnswered
