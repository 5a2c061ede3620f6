\* every option of the application; the monitor's promises
SPECIFICATION Spec

CONSTANTS
    Params <- MCParams
    NoTree = NoTree
    Ruined = Ruined
    Partial = Partial
    Absent = Absent
    Docs <- LiveDocs
    AppKeys = {"missing"}
    Flags = {"given", "null"}
    Delays = {500, 1000}
    EarlyStop = FALSE
    NsPerSec = 10
    MaxTime = 2
    MaxLoads = 1
    MaxSets = 1
    MaxFaults = 0
    MaxCrashes = 0
PROPERTIES CallbackFollowsFile StopEnds
CHECK_DEADLOCK FALSE
