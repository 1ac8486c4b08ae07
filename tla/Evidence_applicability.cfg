SPECIFICATION Spec
CONSTANTS
    Mints = {demo, prestock, other}
    Catalogued = {prestock}
    Listed = {demo}
    ConsumerTimeout = 1
    PYTH_MAX_AGE_SECONDS = 1
    PYTH_MAX_CONFIDENCE_BPS = 5000
    MaxSupply = 1
    ClockSkew = 0
    LaggingNodes = FALSE
    Unregistered = Unregistered
    NoSnapshot = NoSnapshot
INVARIANTS NotApplicableIsStructural
