SPECIFICATION Spec

CONSTANTS
    Users = {u, v}
    Addresses = {a, b}
    Meeting = meeting
    Orders <- MCOrders
    MaxMade = 2
    MaxRows = 2
    MaxJobs = 2

SYMMETRY Symmetry

CONSTRAINT FewOddities

INVARIANTS
    TypeOK
    DeliveredAsMapped
    
    CompletedIsThere

PROPERTIES
    PurgeIsFinal
