SPECIFICATION Spec

CONSTANTS
    Mail = {a}
    Dav = {e}
    MaxAttempts = 3
    MaxVersion = 2
    MaxRuns = 3
    MaxRequests = 1
    MaxListed = 1

INVARIANT NoDuplicates
