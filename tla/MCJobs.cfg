SPECIFICATION Spec

CONSTANTS
    Mappings = {m1, m2}
    NoMapping = NoMapping
    Workers = {w1, w2}
    Creators = {c1, c2}
    Cancellers = {x1}
    MaxJobs = 4
    MaxRequests = 2
    MaxSelect = 2
    MaxItems = 0
    MaxCrashes = 0
    MaxDbFaults = 0
    MaxDeletes = 1
    MaxCancels = 1

SYMMETRY Symmetry

CONSTRAINT OneIntervention

INVARIANTS
    TypeOK
    OneActiveUnlessRaced
    OverlapHasCause
    SyncedByWholeRun

PROPERTIES
    CancelledIsFinal
    WatermarkMovesForward
