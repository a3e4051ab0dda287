SPECIFICATION Spec
CONSTANTS
    Tabs = {t1, t2}
    FormTabs = {t1}
    Initial <- MCInitial
    Settings <- MCSettings
    TypedNames <- MCTypedNames
    TypedAddrs = {"z"}
    Touched = {"schemaRegistry", "kafkaConnect"}
    Chosen = {"password"}
    Files <- MCFiles
    MaxClusters = 4
    MaxOps = 2
    MaxTouches = 2
    MaxFaults = 1
PROPERTIES ImportAsReviewed EditsKeepTheRest 
CHECK_DEADLOCK FALSE
