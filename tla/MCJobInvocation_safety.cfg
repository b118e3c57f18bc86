SPECIFICATION Spec
CONSTANTS
    JobIds = {1, 2}
    JobNames = {"a", "b"}
    JobLists <- GrowShrink
    IqeItem = "iqe"
    HasIqe = FALSE
    RunOnNotReady = FALSE
    OldImages = {"b"}
    BadItems = {"b"}
    Edits = {"disable", "enable", "jobs"}
    Faults = {"crash", "timeout", "apply", "delete"}
    MaxGen = 1
    MaxFails = 0
    MaxEdits = 1
    MaxFaults = 1
INVARIANTS TypeOK OutcomesTrue InvokedOnceUndisturbed
PROPERTIES CompletedOnlyWhenDone EveryItemRan LedgerSpec
CHECK_DEADLOCK FALSE
