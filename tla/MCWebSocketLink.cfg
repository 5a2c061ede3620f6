SPECIFICATION LiveSpec
CONSTANTS
    MaxSlow = 1
    MaxFaults = 1
    MaxReqs = 2
    MaskedReqs <- MCMaskedReqs
INVARIANTS ConnectionIsHeld AnswersFindTheirWay
PROPERTIES Recovers AnswersArrive
