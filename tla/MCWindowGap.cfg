SPECIFICATION Spec

CONSTANTS
    Mail = {a}
    Events = {e}
    Contacts = {}
    Buffer = 2
    MaxDrift = 2
    MaxTime = 7
    MaxJobs = 3

INVARIANTS
    NoSilentGap

