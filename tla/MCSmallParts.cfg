SPECIFICATION PartsSpec
CONSTANTS
    Keys <- MCKeys
    Constraint <- MCConstraint
    Configs <- MCConfigs
    MaxWaitBytesSec = 1
    MaxErrorCountRead = 1
    MaxErrorCountWrite = 1
    Capacity = 0
    StackDepth = 3
    Callers = {t1, t2, t3}
    PoolSize = 2
    WsClients = {c1, c2}
    MaxDrops = 2
    Lists <- MCLists
    Moments <- MCMoments
    TimeLiveDays = 1
    MaxDays = 3
    MaxLines = 1
    MaxBacks = 1
    MaxStarts = 2
INVARIANTS ConfigIsRight ReloadChangesNothing RunsAsGiven Exclusive SendAllIsSafe
    HandlersAreSafe LinesAreFiled
PROPERTIES PortIsWatched LogReturns WaitersAreServed LeaversAreRemoved ClientComesBack
