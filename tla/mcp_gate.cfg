SPECIFICATION Spec
CONSTANTS
    Clusters = {"rw", "ro"}
    ReadOnly = {"ro"}
    Bodies <- MCBodies
    Clients = {"codex"}
    MaxClicks = 3
    MaxCalls = 1
    MaxFaults = 1
PROPERTIES PolicyGuarded RevokedIsRefused DialogSettles
CHECK_DEADLOCK FALSE
