\* One mint, two snapshot ids (one of them all zero bytes), a key rotation and
\* a clock that outlives every snapshot.
SPECIFICATION Spec
CONSTANTS
    BACKSTOP_ADMIN = admin
    Keys = {admin, k1}
    Mints = {m1}
    ZeroId = id0
    SnapshotIds = {id0, id1}
    AssetIds = {tsla, long}
    LongAssetIds = {long}
    NoAccount = NoAccount
    DefaultKey = DefaultKey
    MaxSupply = 2
    MAX_SNAPSHOT_VALIDITY_SECS = 2
    MaxTime = 3
INVARIANTS TypeOK Inv CoverageAgreesWithStatus GateSound
PROPERTIES SubmitTakesEffect VerdictsChangeOnlyForCause AccountsArePermanent SpentSnapshotsStaySpent ImplementsGate
