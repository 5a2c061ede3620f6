SPECIFICATION LiveSpec
CONSTANTS
    Clients = {"systemd", "modmon"}
    Statuses = {"Status_OK", "Status_ErrDiskWrite"}
    Delays = {2, 5}
    TimerMs = 7
    MaxSessions = 2
PROPERTIES SilentWhenOff StopReturns StatusIsReported
CHECK_DEADLOCK FALSE
