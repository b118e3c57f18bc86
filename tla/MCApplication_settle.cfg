SPECIFICATION ResyncSpec
CONSTANTS
    Apps = {"a"}
    Namespaces = {1}
    AutoChoices = {FALSE}
    EnvDeploys = FALSE
    ForeignHold = FALSE
    Established = TRUE
    EnvEdits = {"edit", "delete", "namespace"}
    Faults = {"appprovider", "appapply", "appprune", "crash"}
    MaxEdits = 1
    MaxFaults = 1
    AppNamespace = 1
    AppEdits = {"edit", "disable", "delete"}
    Rollouts = TRUE
INVARIANTS TypeOK
PROPERTIES RolloutSpec AppsSettle
CHECK_DEADLOCK FALSE
