SPECIFICATION Spec
CONSTANTS
    Clients = {"modmon"}
    Statuses = {"Status_OK", "Status_ErrDiskWrite"}
    Delays = {2, 5}
    TimerMs = 7
    MaxSessions = 1
INVARIANTS NotifiedIsSent
CHECK_DEADLOCK FALSE
