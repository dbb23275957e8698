SPECIFICATION FairSpec

CONSTANTS
    Mail = {a}
    Dav = {e}
    MaxAttempts = 3
    MaxVersion = 2
    MaxRuns = 2
    MaxLost = 1
    MaxDbFaults = 1
    MaxCrashes = 1

INVARIANTS
    TypeOK
    DoneIsDelivered
    DuplicatesBounded
    CompletedIsCurrent
    CountersComplete
    ReportNamesFailures

PROPERTIES
    SkippedIsThere
    RunEnds
