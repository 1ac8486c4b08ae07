\* One request at a time is enough to see a summary.
SPECIFICATION Spec
CONSTANTS
    Mints = {demo, prestock}
    Catalogued = {prestock}
    Listed = {demo}
    PYTH_MAX_AGE_SECONDS = 1
    PYTH_MAX_CONFIDENCE_BPS = 5000
    Exchanges = {f1}
    Registered = {demo}
    NotAMint = NotAMint
    Dash = Dash
    QuickMints = {demo, prestock}
    Blank = Blank
    Garbage = Garbage
    DotDot = DotDot
INVARIANTS SummaryShowsClassification
