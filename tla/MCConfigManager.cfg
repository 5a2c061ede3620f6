\* loading, editing, setting, saving and dying in any order
SPECIFICATION Spec

CONSTANTS
    Params <- MCParams
    NoTree = NoTree
    Ruined = Ruined
    Partial = Partial
    Absent = Absent
    Docs <- SafeDocs
    AppKeys = {"p", "missing"}
    Flags = {"given"}
    Delays = {500}
    EarlyStop = FALSE
    NsPerSec = 10
    MaxTime = 2
    MaxLoads = 1
    MaxSets = 1
    MaxFaults = 1
    MaxCrashes = 1
INVARIANTS ConfigIsSound UnchangedIsSeen OutputIsWhole
CHECK_DEADLOCK FALSE
