SPECIFICATION LiveSpec
CONSTANTS
    HeadLen = 2
    Sizes <- MCSizes
    StdinEvents = {"in", "timeout"}
    BufSizes = {0, 1}
    InitPipeSize = 3
    PipeLimit = 4
    PipeBuf = 3
    MaxMsgs = 2
    MaxGens = 2
INVARIANTS AnswersHold
PROPERTIES NoDescriptorLost Reconnects CallsReturn
