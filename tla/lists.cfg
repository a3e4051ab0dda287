SPECIFICATION Spec
CONSTANTS
    Lists = {"Topics", "Groups", "Schemas", "Connectors", "Acls"}
    Names <- MCNames
    Sorted <- MCSorted
    Internal = {"i"}
    Texts = {"x"}
    Filters = {"f"}
    Matching <- MCMatching
    PerPage = 2
    MaxHistory = 30
    MaxOps = 3
    MaxFaults = 1
INVARIANT ListAsAsked
PROPERTIES  UrlSettles
CHECK_DEADLOCK FALSE
