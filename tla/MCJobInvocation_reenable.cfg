SPECIFICATION Spec
CONSTANTS
    JobIds = {1, 2}
    JobNames = {"a", "b"}
    JobLists <- OneJob
    IqeItem = "iqe"
    HasIqe = FALSE
    RunOnNotReady = TRUE
    OldImages = {}
    BadItems = {}
    Edits = {"enable"}
    Faults = {}
    MaxGen = 1
    MaxFails = 0
    MaxEdits = 1
    MaxFaults = 0
INVARIANTS RunJobsRecorded
CHECK_DEADLOCK FALSE
