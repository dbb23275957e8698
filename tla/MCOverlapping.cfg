SPECIFICATION Spec

CONSTANTS
    Mail = {a}
    Dav = {e}
    MaxAttempts = 2
    MaxVersion = 2
    MaxRuns = 3
    MaxRequests = 2
    MaxListed = 1

INVARIANTS
    TypeOK
    DuplicatesBounded
    DoneIsDelivered
    FailsOnlyOnRecorded

CONSTRAINT OneIntervention
