SPECIFICATION Spec
CONSTANTS
    MaxRuns = 2
    BusyPages = {"Topics", "ConnectorTasks", "Group", "SchemaEdit", "Schemas"}
    MaxDialogs = 1
    MaxEvents = 1
INVARIANT ShowsChanges
PROPERTIES WaitsEnd DraftKept
CHECK_DEADLOCK FALSE
