\* Three callers who may start, join and come back, and as many promises, so
\* that a second fetch could always start beside the first.
SPECIFICATION FairSpec
CONSTANTS
    Callers = {c1, c2, c3}
    Fetches = {f1, f2, f3}
    NoFetch = NoFetch
    NoCatalog = NoCatalog
    CATALOG_CACHE_TTL = 2
    FETCH_TIMEOUT = 1
INVARIANTS CatalogTypeOK AnswersAreRecent FailuresAreNotReplayed
PROPERTIES UpstreamIsSpared CallersAnswered
