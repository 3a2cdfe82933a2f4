CONSTANTS
    h1 = h1
    h2 = h2
    Hashes = {h1, h2}
    Malformed = {h2}
    WarmOrder <- MCWarmOrder
    p1 = p1
    Pages = {p1}
    Warm = Warm
    Reload = Reload
    TTL = 2
    REVALIDATION = 2
    TIMEOUT = 1
    MaxRetries = 1
    INITIAL_BACKOFF = 1
    MAX_BACKOFF = 10
SPECIFICATION StaleSpec
INVARIANTS
    StaleDataPreserved
