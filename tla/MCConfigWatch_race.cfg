SPECIFICATION Spec
CONSTANTS
    Apps = {"a", "b"}
    Env = "env"
    AppNamespace <- MCNamespace
    TargetNamespace = "n0"
    Objects <- MCObjects
    Rank <- MCRank
    Setups <- SharedSetup
    Contents = {1, 2}
    MaxEvents = 2
INVARIANTS UpdatesReachListed
CHECK_DEADLOCK FALSE
