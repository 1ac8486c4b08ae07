\* A mint with a feed, a catalogued one and one nobody knows.  Deadlines of a
\* second or two, and confidence limits that prices of 1 and 2 fall either
\* side of.
SPECIFICATION FairSpec
CONSTANTS
    Mints = {demo, prestock, other}
    Catalogued = {prestock}
    Listed = {demo}
    ConsumerTimeout = 2
    PYTH_MAX_AGE_SECONDS = 1
    PYTH_MAX_CONFIDENCE_BPS = 5000
    MaxSupply = 1
    ClockSkew = 1
    LaggingNodes = TRUE
    Unregistered = Unregistered
    NoSnapshot = NoSnapshot
INVARIANTS EvidenceTypeOK AllowHasBasis PrestocksPathIsCapped DenialIsGrounded OutagesNeverVerify
PROPERTIES ConsumerDecides
