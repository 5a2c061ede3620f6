SPECIFICATION LiveSpec
CONSTANTS
    Brokers = {"pipe", "rabbitmq", "websocket"}
    Capacities = {0, 1}
    KeepModes = {TRUE, FALSE}
    CallbackModes = {TRUE, FALSE}
    MaxMsgs = 5
    MaxBreaks = 1
INVARIANTS QueueIsSound ListenerServes
PROPERTIES ImplementsLossyFifo RunServes
CHECK_DEADLOCK FALSE
