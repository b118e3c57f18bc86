SPECIFICATION EnvSpec
CONSTANTS
    Apps = {}
    Namespaces = {1, 2, 3}
    AutoChoices = {TRUE, FALSE}
    EnvDeploys = FALSE
    ForeignHold = FALSE
    Established = FALSE
    EnvEdits = {"edit", "delete", "namespace"}
    Faults = {"crash", "create"}
    MaxEdits = 2
    MaxFaults = 1
INVARIANTS EnvTypeOK NamespaceReleased
PROPERTIES TargetStable EnvContractSpec
CHECK_DEADLOCK FALSE
