SPECIFICATION FairSpec

CONSTANTS
    Mappings = {m1}
    NoMapping = NoMapping
    Workers = {w1, w2}
    Creators = {c1}
    Cancellers = {x1}
    MaxJobs = 2
    MaxRequests = 2
    MaxSelect = 1
    MaxItems = 1
    MaxCrashes = 1
    MaxDbFaults = 1
    MaxDeletes = 1
    MaxCancels = 2

INVARIANTS
    OneRunnerPerJob
    PendingIsDispatched
    RunningIsOwned
    FinishedIsSettled

PROPERTIES
    ImplementsLifeCycle
    PendingSettles
    CancelStops
