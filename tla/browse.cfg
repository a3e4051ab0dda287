SPECIFICATION Spec
CONSTANTS
    Queries <- MCQueries
    Landing <- MCLanding
    Log <- MCLog
    FirstEnd <- MCFirstEnd
    Limit = 2
    Capacity = 1
    BatchMax = 2
    MaxUrls = 2
    MaxFaults = 1
INVARIANTS ShownAsRead 
 
CHECK_DEADLOCK FALSE
