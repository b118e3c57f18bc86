SPECIFICATION Spec
CONSTANTS
    Worlds <- MCWorlds
    Start <- MCStart
    Edits <- MCEdits
    AtOnce <- MCAtOnce
    AnyTime <- MCAnyTime
    MaxRound = 2
INVARIANTS
    TypeOK
    Wired
    ServicesLead
    CredentialsAgree
    HashCovers
    EndpointsServed
    TopicsCover
    WorkloadsExact
    OwnVariablesWin
PROPERTIES
    SecretsStable
    ReplicasKept
    RolledOutAfter
    ForeignKept
    Settles
CHECK_DEADLOCK FALSE
