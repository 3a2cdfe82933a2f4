CONSTANTS
    h1 = h1
    h2 = h2
    Hashes = {h1, h2}
    Malformed = {h2}
    WarmOrder <- MCWarmOrder
    p1 = p1
    Pages = {p1}
    Warm = Warm
    Reload = Reload
    TTL = 1
    REVALIDATION = 1
    TIMEOUT = 1
    MaxRetries = 3
    INITIAL_BACKOFF = 1
    MAX_BACKOFF = 10
SPECIFICATION Spec
INVARIANTS
    WaitBounded
PROPERTIES
    GarbledAnswersForgotten
    MetadataAnswered
