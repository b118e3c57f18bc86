SPECIFICATION EnvSpec
CONSTANTS
    Apps = {}
    Namespaces = {1, 2}
    AutoChoices = {TRUE}
    EnvDeploys = FALSE
    ForeignHold = FALSE
    Established = FALSE
    EnvEdits = {}
    Faults = {"create"}
    MaxEdits = 0
    MaxFaults = 1
INVARIANTS TargetNamespaceCreated
CHECK_DEADLOCK FALSE
