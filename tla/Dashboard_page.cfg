\* Two overlapping requests of one page, a mint of either kind, and a server
\* that may die.
SPECIFICATION FairSpec
CONSTANTS
    Mints = {demo, prestock}
    Catalogued = {prestock}
    Listed = {demo}
    PYTH_MAX_AGE_SECONDS = 1
    PYTH_MAX_CONFIDENCE_BPS = 5000
    Exchanges = {f1, f2}
    Registered = {demo}
    NotAMint = NotAMint
    Dash = Dash
    QuickMints = {demo, prestock}
    Blank = Blank
    Garbage = Garbage
    DotDot = DotDot
INVARIANTS PageTypeOK PageIsOneAnswer InputNamesShownAsset PageHasOutcome
PROPERTIES CheckingEnds
