SPECIFICATION FairSpec
CONSTANTS
    Apps = {"a", "b"}
    Env = "env"
    AppNamespace <- MCNamespace
    TargetNamespace = "n0"
    Objects <- MCObjects
    Rank <- MCRank
    Setups <- MCSetups
    Contents = {1, 2}
    MaxEvents = 2
INVARIANTS TypeOK ListedAreCurrent AnnotatedAreListed
PROPERTIES ComesToRest
CHECK_DEADLOCK FALSE
