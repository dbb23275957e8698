SPECIFICATION Spec

CONSTANTS
    Old = {a, b, c}
    New = {n}
    PageSize = 1
    MaxRetries = 5
    MaxItemRetries = 3
    TokenLives = {300}
    Latencies = {46}
    RetryAfters = {1, 400}

INVARIANTS
    TokenOutlivesBackoff
    MissedOnlyByShift

PROPERTIES
    ListingEnds
