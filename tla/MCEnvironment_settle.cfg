SPECIFICATION ResyncEnvSpec
CONSTANTS
    Apps = {}
    Namespaces = {1, 2}
    AutoChoices = {TRUE}
    EnvDeploys = TRUE
    ForeignHold = TRUE
    Established = TRUE
    EnvEdits = {"edit", "disable", "delete"}
    Faults = {"crash", "provider", "apply", "prune", "nsdelete", "pod"}
    MaxEdits = 1
    MaxFaults = 1
INVARIANTS EnvGenerationHonest
PROPERTIES EnvSettles
CHECK_DEADLOCK FALSE
