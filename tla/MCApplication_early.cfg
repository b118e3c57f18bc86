SPECIFICATION Spec
CONSTANTS
    Apps = {"a"}
    Namespaces = {1}
    AutoChoices = {FALSE}
    EnvDeploys = TRUE
    ForeignHold = FALSE
    Established = FALSE
    EnvEdits = {}
    Faults = {}
    MaxEdits = 0
    MaxFaults = 0
    AppNamespace = 1
    AppEdits = {}
    Rollouts = FALSE
PROPERTIES AppsComeUpAfterEnv
CHECK_DEADLOCK FALSE
