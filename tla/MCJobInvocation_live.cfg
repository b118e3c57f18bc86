SPECIFICATION FairSpec
CONSTANTS
    JobIds = {1, 2, 3}
    JobNames = {"a", "b"}
    JobLists <- NoJob
    IqeItem = "iqe"
    HasIqe = TRUE
    RunOnNotReady = FALSE
    OldImages = {}
    BadItems = {}
    Edits = {}
    Faults = {"crash"}
    MaxGen = 2
    MaxFails = 1
    MaxEdits = 0
    MaxFaults = 2
PROPERTIES EventuallyCompleted
CHECK_DEADLOCK FALSE
