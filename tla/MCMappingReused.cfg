SPECIFICATION Spec

CONSTANTS
    Users = {u, v}
    Addresses = {a, b}
    Meeting = meeting
    Orders <- MCOrders
    MaxMade = 2
    MaxRows = 1
    MaxJobs = 2

PROPERTY SkippedIsAtTarget
