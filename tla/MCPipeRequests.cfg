SPECIFICATION LiveSpec
CONSTANTS
    HeadLen = 2
    Sizes = {1, 2, 4}
    InitPipeSize = 6
    PipeLimit = 8
    PipeBuf = 2
    MaxMsgs = 5
    MaxCrashes = 1
INVARIANTS FramesHold
PROPERTIES WrittenArrives
CHECK_DEADLOCK FALSE
