SPECIFICATION Spec
CONSTANTS
    Apps = {"a"}
    Namespaces = {1}
    AutoChoices = {FALSE}
    EnvDeploys = FALSE
    ForeignHold = FALSE
    Established = TRUE
    EnvEdits = {"edit"}
    Faults = {}
    MaxEdits = 1
    MaxFaults = 0
    AppNamespace = 1
    AppEdits = {}
    Rollouts = FALSE
INVARIANTS AppsFollowEnv
CHECK_DEADLOCK FALSE
