SPECIFICATION LiveSpec
CONSTANTS
    Producers = {p1, p2}
    Capacities = {1}
    KeepModes = {TRUE, FALSE}
    ResetWhileRunning = FALSE
    MaxMsgs = 3
    MaxBreaks = 1
INVARIANTS QueueIsSound NoPopFromEmpty SendsVerified
PROPERTIES ImplementsLossyFifo RunServes StatusRecovers
CHECK_DEADLOCK FALSE
